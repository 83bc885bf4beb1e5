--------------------------- MODULE InboundPageProofs ---------------------------
(***************************************************************************)
(* The inbounds page implements WriteOnce for any number of row actions,    *)
(* clicks, losses and keypairs: every step of the page, the network and the *)
(* panel is a click, a request read for or applied, one given up, or       *)
(* nothing the table can tell. The list shown is the list stored once the  *)
(* page is quiet, every copy of a keypair is one that was made for the use *)
(* it is put to, and no save replaces an inbound's keys without cause.     *)
(***************************************************************************)
EXTENDS InboundPage, FiniteSetTheorems, TLAPS

Uses == Auths \cup {"reality"}
Body == [mode : BOOLEAN, auth : Auths, keys : Pairs, pair : Pairs, sec : {0, 1}]

\* Nobody holds a Reality pair that has not been made yet: that is what makes
\* the pair of a rotation a new one.
Known(t, n) == t \in [Ids -> Row] /\ \A i \in Ids : t[i].pair <= n

Copies(n) ==
    /\ Known(rows, n)
    /\ \A t \in cache : Known(t, n)
    /\ \A t \in fetch.rows : Known(t, n)
    /\ \A k \in Slots : \A t \in acts[k].snap : Known(t, n)
    /\ form \in Body /\ form.pair <= n
    /\ save.body.pair <= n

Record == [id : Ids, row : Row]

\* The shapes of the requests.
ActRecord == [st : {"idle", "sent", "done"}, kind : {"toggle", "delete"}, id : Ids,
              on : BOOLEAN, snap : SUBSET [Ids -> Row]]
SaveRecord == [st : {"idle", "sent", "done"}, to : 0..3, body : Body, base : SUBSET Record,
               causes : SUBSET {"auth", "button", "stray"}]
RotateRecord == [st : {"idle", "sent", "read", "done"}, id : Ids, row : Row, sec : {0, 1},
                 mount : Nat]

Requests == acts \in [Slots -> ActRecord] /\ save \in SaveRecord /\ rotate \in RotateRecord

Session ==
    /\ editing \in SUBSET Record /\ opened \in SUBSET Record /\ mount \in Nat
    /\ causes \in SUBSET {"auth", "button", "stray"}
    /\ \A g \in keygens : g.for \in Uses

Made == made \in Seq(Uses) /\ Len(made) <= MaxMade

Left == budget \in [{"click", "act", "trouble"} -> Int]

IInv == Made /\ Copies(Len(made)) /\ Requests /\ Session /\ Left

-----------------------------------------------------------------------------
(* Small facts.                                                            *)

\* A click costs one of the budget, a loss none of it.
LEMMA ClickCounts ==
    ASSUME Left, Click \/ RowClick
    PROVE  Left' /\ MaxClicks - budget'.click = (MaxClicks - budget.click) + 1
<1>1. CASE Click
  BY <1>1, PageAssumption DEF Left, Click, Spend
<1>2. CASE RowClick
  <2>1. budget' = [b \in {"click", "act", "trouble"} |->
                     IF b = "trouble" THEN budget[b] ELSE budget[b] - 1]
    BY <1>2 DEF RowClick, Left
  <2>2. budget'.click = budget.click - 1 /\ Left'
    BY <2>1 DEF Left
  <2>3. MaxClicks \in Nat /\ budget.click \in Int
    BY PageAssumption DEF Left
  <2> QED
    BY <2>2, <2>3
<1> QED
  BY <1>1, <1>2

LEMMA SufferCounts ==
    ASSUME Left, NEW s, Suffer(s)
    PROVE  Left' /\ budget'.click = budget.click
  BY DEF Left, Suffer, Spend

LEMMA CalmCounts ==
    ASSUME Left, Calm
    PROVE  Left' /\ budget'.click = budget.click
  BY DEF Left, Calm

\* What was known stays known as more pairs are made.
LEMMA StillKnown ==
    ASSUME NEW t, NEW n \in Nat, NEW m \in Nat, n <= m, Known(t, n)
    PROVE  Known(t, m)
  BY DEF Known, Row, Pairs, Ids

LEMMA GoneIsRow == Gone \in Row /\ Gone.pair = 0
  BY PageAssumption DEF Gone, Row, Auths, Pairs

LEMMA UnsetIsBody == Unset \in Body /\ Unset.pair = 0
  BY PageAssumption DEF Unset, Body, Auths, Pairs

LEMMA NothingAsked ==
    NoAct \in ActRecord /\ NoSave \in SaveRecord /\ NoRotate \in RotateRecord
<1> USE GoneIsRow, UnsetIsBody DEF Ids
<1>1. NoSave \in SaveRecord
  BY DEF NoSave, SaveRecord
<1>2. NoAct \in ActRecord
  BY DEF NoAct, ActRecord
<1>3. NoRotate \in RotateRecord
  BY DEF NoRotate, RotateRecord
<1> QED
  BY <1>1, <1>2, <1>3

\* The invariant holds at first.
LEMMA InitIInv == Init => IInv
<1> SUFFICES ASSUME Init PROVE IInv
  OBVIOUS
<1> USE PageAssumption, GoneIsRow, UnsetIsBody
<1>1. Made /\ Len(made) = 3
  BY DEF Init, Made, Uses, Auths
<1>2. Known(rows, 3)
  <2>1. [here |-> TRUE, on |-> TRUE, mode |-> TRUE, auth |-> "x25519", keys |-> 3, pair |-> 1,
        sec |-> 0] \in Row
    BY DEF Row, Auths, Pairs
  <2>2. [here |-> TRUE, on |-> TRUE, mode |-> FALSE, auth |-> "mlkem768", keys |-> 0, pair |-> 2,
        sec |-> 0] \in Row
    BY DEF Row, Auths, Pairs
  <2> QED
    BY <2>1, <2>2 DEF Init, Known, Ids
<1>3. Copies(3)
  <2>1. cache = {} /\ fetch.rows = {} /\ form = Unset
    BY DEF Init
  <2>2. \A k \in Slots : acts[k].snap = {}
    BY DEF Init, NoAct
  <2>3. save.body = Unset
    BY DEF Init, NoSave
  <2> QED
    BY <1>2, <2>1, <2>2, <2>3 DEF Copies
<1>4. Requests
  BY NothingAsked DEF Init, Requests
<1>5. Session /\ Left
  BY DEF Init, Session, Left
<1> QED
  BY <1>1, <1>3, <1>4, <1>5 DEF IInv
-----------------------------------------------------------------------------
(* Every step keeps the invariant.                                         *)

LEMMA ListKeeps ==
    ASSUME IInv, ListAnswered \/ ListDelivered \/ ListFails
    PROVE  IInv'
<1> USE DEF IInv, ListAnswered, ListDelivered, ListFails, list, session
<1>1. Left'
  BY CalmCounts, SufferCounts
<1>2. Made' /\ Requests' /\ Session'
  BY DEF Made, Requests, Session
<1>3. Copies(Len(made))'
  BY DEF Copies, Asked, Idle
<1> QED
  BY <1>1, <1>2, <1>3

LEMMA ToggleKeeps ==
    ASSUME IInv, NEW k \in Slots, NEW i \in Ids, Toggle(k, i)
    PROVE  IInv'
<1>1. /\ UNCHANGED <<rows, made, fetch, editing, opened, mount, causes, keygens, form, save, rotate>>
      /\ acts[k].st = "idle" /\ RowClick
  BY DEF Toggle, session
<1>2. PICK on \in BOOLEAN :
         /\ acts' = [acts EXCEPT ![k] = [st |-> "sent", kind |-> "toggle", id |-> i,
                                         on |-> on, snap |-> cache]]
         /\ cache' = {[c EXCEPT ![i].on = on] : c \in cache}
  BY DEF Toggle
<1>3. Known(rows, Len(made)) /\ \A t \in cache : Known(t, Len(made))
  BY DEF IInv, Copies
<1>4. [st |-> "sent", kind |-> "toggle", id |-> i, on |-> on, snap |-> cache] \in ActRecord
  BY <1>3 DEF ActRecord, Known
<1>5. Requests'
  BY <1>1, <1>2, <1>4 DEF IInv, Requests
<1>6. ASSUME NEW t \in cache' PROVE Known(t, Len(made))
  <2>1. PICK c \in cache : t = [c EXCEPT ![i].on = on]
    BY <1>2
  <2>2. c \in [Ids -> Row] /\ \A j \in Ids : c[j].pair <= Len(made)
    BY <1>3 DEF Known
  <2>3. t \in [Ids -> Row] /\ t[i].pair = c[i].pair
    BY <2>1, <2>2 DEF Row
  <2>4. \A j \in Ids \ {i} : t[j] = c[j]
    BY <2>1, <2>2
  <2> QED
    BY <2>2, <2>3, <2>4 DEF Known
<1>7. \A q \in Slots : \A t \in acts'[q].snap : Known(t, Len(made))
  BY <1>2, <1>3 DEF IInv, Copies, Requests
<1>8. Copies(Len(made))'
  BY <1>1, <1>6, <1>7 DEF IInv, Copies
<1>9. Made' /\ Session' /\ Left'
  BY <1>1, ClickCounts DEF IInv, Made, Session
<1> QED
  BY <1>5, <1>8, <1>9 DEF IInv

LEMMA DeleteKeeps ==
    ASSUME IInv, NEW k \in Slots, NEW i \in Ids, Delete(k, i)
    PROVE  IInv'
<1>1. /\ UNCHANGED <<rows, made, cache, fetch, editing, opened, mount, causes, keygens, form, save, rotate>>
      /\ acts[k].st = "idle" /\ RowClick
      /\ acts' = [acts EXCEPT ![k] = [NoAct EXCEPT !.st = "sent", !.kind = "delete", !.id = i]]
  BY DEF Delete, session, list
<1>2. [NoAct EXCEPT !.st = "sent", !.kind = "delete", !.id = i] \in ActRecord
  BY NothingAsked DEF ActRecord
<1>3. Requests'
  BY <1>1, <1>2 DEF IInv, Requests
<1>4. \A q \in Slots : acts'[q].snap \in {acts[q].snap, {}}
  BY <1>1 DEF IInv, Requests, NoAct
<1>5. Copies(Len(made))'
  BY <1>1, <1>4 DEF IInv, Copies
<1>6. Made' /\ Session' /\ Left'
  BY <1>1, ClickCounts DEF IInv, Made, Session
<1> QED
  BY <1>3, <1>5, <1>6 DEF IInv

LEMMA ActStoredKeeps ==
    ASSUME IInv, NEW k \in Slots, ActStored(k)
    PROVE  IInv'
<1> DEFINE r == acts[k].id
           x == IF acts[k].kind = "delete" THEN Gone ELSE [rows[r] EXCEPT !.on = acts[k].on]
<1>1. /\ UNCHANGED <<made, cache, fetch, editing, opened, mount, causes, keygens, form, save, rotate>>
      /\ acts' = [acts EXCEPT ![k].st = "done"]
      /\ rows' = [rows EXCEPT ![r] = x]
      /\ Calm
  BY DEF ActStored, session, list
<1>2. acts[k] \in ActRecord /\ r \in Ids /\ acts[k].on \in BOOLEAN
  BY DEF IInv, Requests, ActRecord
<1>3. Requests'
  <2>1. [acts[k] EXCEPT !.st = "done"] \in ActRecord
    BY <1>2 DEF ActRecord
  <2> QED
    BY <1>1, <2>1 DEF IInv, Requests
<1>4. \A q \in Slots : acts'[q].snap = acts[q].snap
  BY <1>1 DEF IInv, Requests, ActRecord
<1>5. Known(rows', Len(made))
  <2>1. rows \in [Ids -> Row] /\ \A j \in Ids : rows[j].pair <= Len(made)
    BY DEF IInv, Copies, Known
  <2>2. x \in Row /\ x.pair <= Len(made)
    BY <1>2, <2>1, GoneIsRow DEF Row, IInv, Made
  <2> HIDE DEF r, x
  <2> QED
    BY <1>1, <1>2, <2>1, <2>2 DEF Known
<1>6. Copies(Len(made))'
  BY <1>1, <1>4, <1>5 DEF IInv, Copies
<1>7. Made' /\ Session' /\ Left'
  BY <1>1, CalmCounts DEF IInv, Made, Session
<1> QED
  BY <1>3, <1>6, <1>7 DEF IInv

LEMMA ActEndKeeps ==
    ASSUME IInv, NEW k \in Slots, ActAnswered(k) \/ ActRefused(k) \/ ActLost(k)
    PROVE  IInv'
<1>1. PICK ok \in BOOLEAN : EndAct(k, ok)
  BY DEF ActAnswered, ActRefused, ActLost
<1>2. /\ UNCHANGED <<rows, made, editing, opened, mount, causes, keygens, form, save, rotate>>
      /\ acts' = [acts EXCEPT ![k] = NoAct]
      /\ cache' \in {cache, acts[k].snap} /\ fetch' \in {fetch, Asked}
  BY <1>1 DEF EndAct, session, SettleAct, Invalidate
<1>3. Requests'
  BY <1>2, NothingAsked DEF IInv, Requests
<1>4. \A q \in Slots : acts'[q].snap \in {acts[q].snap, {}}
  BY <1>2 DEF IInv, Requests, NoAct
<1>5. Copies(Len(made))'
  BY <1>2, <1>4 DEF IInv, Copies, Asked
<1>6. Left'
  BY CalmCounts, SufferCounts DEF IInv, ActAnswered, ActRefused, ActLost
<1>7. Made' /\ Session'
  BY <1>2 DEF IInv, Made, Session
<1> QED
  BY <1>3, <1>5, <1>6, <1>7 DEF IInv

\* Nothing the invariant reads moves but the form, the session and the budget.
LEMMA FormKeeps ==
    ASSUME IInv, UNCHANGED <<rows, made, cache, fetch, save, acts, rotate>>,
           form' \in Body, form'.pair <= Len(made), Session', Left'
    PROVE  IInv'
<1>1. Copies(Len(made))'
  BY DEF IInv, Copies
<1>2. Made' /\ Requests'
  BY DEF IInv, Made, Requests
<1> QED
  BY <1>1, <1>2 DEF IInv

\* The effect asks for keys of an encryption auth.
LEMMA EffectAsks ==
    ASSUME NEW v \in Body, NEW gens, \A g \in gens : g.for \in Uses, RunEffect(v, gens)
    PROVE  \A g \in keygens' : g.for \in Uses
<1>1. keygens' \in {gens, gens \cup {[for |-> v.auth, mount |-> mount]}}
  BY DEF RunEffect
<1>2. v.auth \in Uses
  BY DEF Body, Uses
<1> QED
  BY <1>1, <1>2

LEMMA ModalKeeps ==
    ASSUME IInv,
           \/ \E i \in Ids : OpenEdit(i)
           \/ OpenCreate \/ Cancel \/ Watching \/ SwitchMode \/ SwitchAuth \/ EditSecurity \/ RegenerateKeys
    PROVE  IInv'
<1> USE DEF IInv
<1>0. form \in Body /\ form.pair <= Len(made)
  BY DEF Copies
<1>1. ASSUME NEW i \in Ids, OpenEdit(i) PROVE IInv'
  <2>1. PICK c \in cache : Open({[id |-> i, row |-> c[i]]}, Hydrate(c[i]))
    BY <1>1 DEF OpenEdit
  <2>2. c[i] \in Row /\ c[i].pair <= Len(made)
    BY DEF Copies, Known
  <2>3. Hydrate(c[i]) \in Body /\ Hydrate(c[i]).pair <= Len(made)
    BY <2>2 DEF Hydrate, Row, Body
  <2>4. [id |-> i, row |-> c[i]] \in Record
    BY <2>2 DEF Record
  <2>5. Session' /\ Left'
    BY <1>1, <2>1, <2>4, ClickCounts DEF OpenEdit, Open, Session
  <2> QED
    BY <2>1, <2>3, <2>5, FormKeeps DEF Open, list
<1>2. CASE OpenCreate
  <2>1. Open({}, Unset)
    BY <1>2 DEF OpenCreate
  <2>2. Session' /\ Left'
    BY <1>2, <2>1, ClickCounts DEF OpenCreate, Open, Session, Uses
  <2>3. Unset.pair <= Len(made)
    BY UnsetIsBody DEF Made
  <2> QED
    BY <2>1, <2>2, <2>3, UnsetIsBody, FormKeeps DEF Open, list
<1>3. CASE Cancel
  <2>1. Session' /\ Left'
    BY <1>3, ClickCounts DEF Cancel, Session
  <2> QED
    BY <1>0, <1>3, <2>1, FormKeeps DEF Cancel, list
<1>4. CASE Watching
  <2>1. Session' /\ Left'
    BY <1>0, <1>4, CalmCounts, EffectAsks DEF Watching, Session
  <2> QED
    BY <1>0, <1>4, <2>1, FormKeeps DEF Watching, list
<1>5. ASSUME NEW v \in Body, v.pair = form.pair,
             NEW why \in SUBSET {"auth", "button", "stray"}, Edit(v, why)
      PROVE  IInv'
  <2>1. Session' /\ Left'
    BY <1>5, ClickCounts, EffectAsks DEF Edit, Session
  <2> QED
    BY <1>0, <1>5, <2>1, FormKeeps DEF Edit, list
<1>6. CASE SwitchMode
  <2>1. [form EXCEPT !.mode = ~form.mode] \in Body /\ [form EXCEPT !.mode = ~form.mode].pair = form.pair
    BY <1>0 DEF Body
  <2> QED
    BY <1>5, <1>6, <2>1 DEF SwitchMode
<1>7. CASE SwitchAuth
  <2>1. PICK a \in Auths : Edit([form EXCEPT !.auth = a], {"auth"})
    BY <1>7 DEF SwitchAuth
  <2>2. [form EXCEPT !.auth = a] \in Body /\ [form EXCEPT !.auth = a].pair = form.pair
    BY <1>0 DEF Body
  <2> QED
    BY <1>5, <2>1, <2>2
<1>8. CASE RegenerateKeys
  <2>1. Session' /\ Left'
    BY <1>0, <1>8, ClickCounts DEF RegenerateKeys, Session, Body, Uses
  <2> QED
    BY <1>0, <1>8, <2>1, FormKeeps DEF RegenerateKeys, list
<1>9. CASE EditSecurity
  <2>1. form.sec \in {0, 1} /\ 1 - form.sec \in {0, 1}
    BY <1>0 DEF Body
  <2>2. PICK x \in {0, 1} : Edit([form EXCEPT !.sec = x], {})
    BY <1>9, <2>1 DEF EditSecurity
  <2>3. [form EXCEPT !.sec = x] \in Body /\ [form EXCEPT !.sec = x].pair = form.pair
    BY <1>0 DEF Body
  <2> QED
    BY <1>5, <2>2, <2>3
<1> QED
  BY <1>1, <1>2, <1>3, <1>4, <1>6, <1>7, <1>8, <1>9

\* More pairs are made: the copies grow no newer.
LEMMA CopiesLast ==
    ASSUME IInv, NEW m \in Nat, Len(made) <= m
    PROVE  Copies(m)
<1> USE DEF IInv
<1>1. Len(made) \in Nat
  BY DEF Made
<1>2. \A t : Known(t, Len(made)) => Known(t, m)
  BY <1>1, StillKnown
<1>3. form.pair <= m /\ save.body.pair <= m
  <2>1. save.body \in Body
    BY DEF Requests, SaveRecord
  <2> QED
    BY <1>1, <2>1 DEF Copies, Body, Pairs
<1> QED
  BY <1>2, <1>3 DEF Copies

LEMMA OneMore ==
    ASSUME Made, NEW x \in Uses, Len(made) < MaxMade, made' = Append(made, x)
    PROVE  /\ Made' /\ Len(made') = Len(made) + 1
           /\ Len(made) \in Nat /\ Len(made) + 1 \in Pairs \ {0}
<1>1. Len(made) \in Nat /\ made \in Seq(Uses)
  BY DEF Made
<1>2. Len(made') = Len(made) + 1 /\ made' \in Seq(Uses)
  BY <1>1
<1> QED
  BY <1>1, <1>2, PageAssumption DEF Made, Pairs

\* An answered keygen is the one step that makes a pair without storing it.
LEMMA KeygenKeeps ==
    ASSUME IInv, NEW g \in keygens,
           KeygenAnswered(g) \/ KeygenFails(g)
    PROVE  IInv'
<1> USE DEF IInv
<1>0. form \in Body /\ form.pair <= Len(made)
  BY DEF Copies
<1>1. CASE KeygenFails(g)
  <2>1. \A h \in keygens' : h.for \in Uses
    BY <1>0, <1>1, EffectAsks DEF KeygenFails, Session
  <2>2. Session' /\ Left'
    BY <1>1, <2>1, SufferCounts DEF KeygenFails, Session
  <2> QED
    BY <1>0, <1>1, <2>2, FormKeeps DEF KeygenFails, list
<1>2. CASE KeygenAnswered(g)
  <2> DEFINE n == Len(made) + 1
             v == IF g.for = "reality" THEN [form EXCEPT !.pair = n] ELSE [form EXCEPT !.keys = n]
  <2>1. /\ UNCHANGED <<rows, cache, fetch, editing, opened, mount, save, acts, rotate>>
        /\ made' = Append(made, g.for) /\ Len(made) < MaxMade
        /\ form' \in {v, form} /\ causes' \in {causes, causes \cup {"stray"}} /\ Calm
    BY <1>2 DEF KeygenAnswered, list
  <2>2. Made' /\ Len(made') = n /\ Len(made) \in Nat /\ n \in Pairs \ {0}
    BY <2>1, OneMore DEF Session
  <2>3. Copies(n)
    BY <2>2, CopiesLast
  <2>4. form' \in Body /\ form'.pair <= n
    BY <1>0, <2>1, <2>2 DEF Body, Pairs
  <2> HIDE DEF n, v
  <2>5. Copies(Len(made))'
    BY <2>1, <2>2, <2>3, <2>4 DEF Copies
  <2>6. \A h \in keygens' : h.for \in Uses
    <3>1. (RunEffect(v, keygens \ {g}) /\ form' = v) \/ keygens' = keygens \ {g}
      BY <1>2 DEF KeygenAnswered, n, v
    <3>2. \A h \in keygens \ {g} : h.for \in Uses
      BY DEF Session
    <3> QED
      BY <2>4, <3>1, <3>2, EffectAsks
  <2>7. Requests' /\ Session' /\ Left'
    BY <2>1, <2>6, CalmCounts DEF Requests, Session
  <2> QED
    BY <2>2, <2>5, <2>7
<1> QED
  BY <1>1, <1>2

LEMMA RotateKeeps ==
    ASSUME IInv, RotateClick \/ RotateRead \/ RotateStored \/ RotateAnswered \/ RotateLost
    PROVE  IInv'
<1> USE DEF IInv
<1>0. form \in Body /\ form.pair <= Len(made)
  BY DEF Copies
<1>1. CASE RotateClick
  <2>1. PICK e \in editing : rotate' = [NoRotate EXCEPT !.st = "sent", !.id = e.id,
                                                             !.mount = mount]
    BY <1>1 DEF RotateClick
  <2>2. rotate' \in RotateRecord
    BY <2>1, NothingAsked DEF RotateRecord, Session, Record
  <2>3. UNCHANGED <<rows, made, cache, fetch, form, editing, opened, mount, causes, keygens, save, acts>>
    BY <1>1 DEF RotateClick, list, session
  <2>4. Made' /\ Copies(Len(made))' /\ Session'
    BY <2>3 DEF Made, Copies, Session
  <2>5. Requests' /\ Left'
    BY <1>1, <2>2, <2>3, ClickCounts DEF RotateClick, Requests
  <2> QED
    BY <2>4, <2>5
<1>2. CASE RotateStored
  <2> DEFINE n == Len(made) + 1
             r == [rows[rotate.id] EXCEPT !.pair = n, !.sec = rotate.sec]
  <2>1. /\ UNCHANGED <<cache, fetch, form, editing, opened, mount, causes, keygens, save, acts>>
        /\ made' = Append(made, "reality") /\ Len(made) < MaxMade
        /\ rows' = [rows EXCEPT ![rotate.id] = r]
        /\ rotate' = [rotate EXCEPT !.st = "done", !.row = rows'[rotate.id]] /\ Calm
    BY <1>2 DEF RotateStored, WriteBack, list, session
  <2>2. Made' /\ Len(made') = n /\ Len(made) \in Nat /\ n \in Pairs \ {0}
    BY <2>1, OneMore DEF Uses
  <2>3. Copies(n)
    BY <2>2, CopiesLast
  <2>4. /\ rotate.id \in Ids /\ rotate.sec \in {0, 1}
        /\ rows \in [Ids -> Row] /\ \A i \in Ids : rows[i].pair <= n
    BY <2>3 DEF Requests, RotateRecord, Copies, Known
  <2>5. r \in Row /\ r.pair = n
    BY <2>2, <2>4 DEF Row
  <2> HIDE DEF r
  <2>6. rotate' \in RotateRecord
    BY <2>1, <2>4, <2>5 DEF Requests, RotateRecord
  <2>7. rows' \in [Ids -> Row] /\ \A i \in Ids : rows'[i].pair <= n
    BY <2>1, <2>2, <2>4, <2>5 DEF Pairs
  <2> HIDE DEF n
  <2>8. Copies(Len(made))'
    BY <2>1, <2>2, <2>3, <2>7 DEF Copies, Known
  <2>9. Requests' /\ Session' /\ Left'
    BY <2>1, <2>6, CalmCounts DEF Requests, Session
  <2> QED
    BY <2>2, <2>8, <2>9
<1>3. CASE RotateAnswered
  <2>1. /\ UNCHANGED <<rows, made, cache, form, opened, mount, keygens, save, acts>>
        /\ fetch' = Asked /\ rotate' = NoRotate
        /\ editing' = {[id |-> rotate.id, row |-> rotate.row]}
        /\ causes' \in {causes, causes \cup {"stray"}} /\ Calm
    BY <1>3 DEF RotateAnswered, Invalidate
  <2>2. rotate.id \in Ids /\ rotate.row \in Row
    BY DEF Requests, RotateRecord
  <2>3. Session' /\ Left' /\ Made'
    BY <2>1, <2>2, CalmCounts DEF Session, Made, Record
  <2>4. Requests' /\ Copies(Len(made))'
    BY <2>1, NothingAsked DEF Requests, Copies, Asked
  <2> QED
    BY <2>3, <2>4
<1>4. CASE RotateLost
  <2>1. /\ UNCHANGED <<rows, made, cache, fetch, form, editing, opened, mount, causes, keygens, save, acts>>
        /\ rotate' = NoRotate /\ (Calm \/ \E s : Suffer(s))
    BY <1>4 DEF RotateLost, list, session
  <2>2. Session' /\ Left' /\ Made'
    BY <2>1, CalmCounts, SufferCounts DEF Session, Made
  <2>3. Requests' /\ Copies(Len(made))'
    BY <2>1, NothingAsked DEF Requests, Copies
  <2> QED
    BY <2>2, <2>3
<1>5. CASE RotateRead
  <2>1. /\ UNCHANGED <<rows, made, cache, fetch, form, editing, opened, mount, causes, keygens, save, acts>>
        /\ rotate' = [rotate EXCEPT !.st = "read", !.sec = rows[rotate.id].sec] /\ Calm
    BY <1>5 DEF RotateRead, list, session
  <2>2. rows[rotate.id].sec \in {0, 1}
    BY DEF Requests, RotateRecord, Copies, Known, Row
  <2>3. rotate' \in RotateRecord
    BY <2>1, <2>2 DEF Requests, RotateRecord
  <2>4. Session' /\ Left' /\ Made'
    BY <2>1, CalmCounts DEF Session, Made
  <2>5. Requests' /\ Copies(Len(made))'
    BY <2>1, <2>3 DEF Requests, Copies
  <2> QED
    BY <2>4, <2>5
<1> QED
  BY <1>1, <1>2, <1>3, <1>4, <1>5

LEMMA SaveClickKeeps ==
    ASSUME IInv, SaveClick
    PROVE  IInv'
<1> USE DEF IInv
<1>0. form \in Body /\ form.pair <= Len(made)
  BY DEF Copies
<1>1. /\ UNCHANGED <<rows, made, cache, fetch, form, editing, opened, mount, causes, keygens, acts, rotate>>
      /\ Click
  BY DEF SaveClick, list, session
<1>2. save' \in SaveRecord /\ save'.body = form
  <2> DEFINE e == CHOOSE x \in editing : TRUE
  <2>1. editing # {} => e.id \in 0..3
    BY DEF Session, Record, Ids
  <2>2. PICK to : /\ save' = [st |-> "sent", body |-> form, base |-> opened, causes |-> causes, to |-> to]
                  /\ to = (IF editing = {} THEN 0 ELSE e.id)
    BY DEF SaveClick
  <2> HIDE DEF e
  <2>3. to \in 0..3
    BY <2>1, <2>2
  <2> QED
    BY <1>0, <2>2, <2>3 DEF SaveRecord, Session
<1>3. Requests' /\ Session' /\ Left' /\ Made'
  BY <1>1, <1>2, ClickCounts DEF Requests, Session, Made
<1>4. Copies(Len(made))'
  BY <1>0, <1>1, <1>2 DEF Copies
<1> QED
  BY <1>3, <1>4

LEMMA WrittenIsRow ==
    ASSUME save.body \in Body, NEW n \in Nat, save.body.pair <= n, NEW b \in Row, b.pair <= n
    PROVE  Written(b) \in Row /\ Written(b).pair <= n
<1> DEFINE keys == IF save.body.mode THEN save.body.keys ELSE 0
           pair == IF save.body.pair = 0 THEN b.pair ELSE save.body.pair
<1>1. keys \in Pairs /\ pair \in Pairs /\ pair <= n
  BY PageAssumption DEF Body, Row, Pairs
<1>2. Written(b) = [b EXCEPT !.here = TRUE, !.mode = save.body.mode, !.auth = save.body.auth,
                             !.sec = save.body.sec, !.keys = keys, !.pair = pair]
  BY DEF Written
<1> HIDE DEF keys, pair
<1> QED
  BY <1>1, <1>2 DEF Body, Row

LEMMA SavePatchedKeeps ==
    ASSUME IInv, SavePatched
    PROVE  IInv'
<1> USE DEF IInv
<1> DEFINE w == Written(rows[save.to])
<1>1. /\ UNCHANGED <<made, cache, fetch, form, editing, opened, mount, causes, keygens, acts, rotate>>
      /\ rows' = [rows EXCEPT ![save.to] = w] /\ save' = [save EXCEPT !.st = "done"]
      /\ save.to # 0 /\ Calm
  BY DEF SavePatched, list, session
<1>2. save \in SaveRecord /\ save.body \in Body /\ save.body.pair <= Len(made) /\ save.to \in Ids
  BY <1>1 DEF Requests, SaveRecord, Copies, Ids
<1>3. rows \in [Ids -> Row] /\ \A i \in Ids : rows[i].pair <= Len(made)
  BY DEF Copies, Known
<1>4. w \in Row /\ w.pair <= Len(made)
  BY <1>2, <1>3, WrittenIsRow DEF Made
<1> HIDE DEF w
<1>5. Known(rows', Len(made))
  BY <1>1, <1>2, <1>3, <1>4 DEF Known
<1>6. save' \in SaveRecord /\ save'.body = save.body
  BY <1>1, <1>2 DEF SaveRecord
<1>7. Copies(Len(made))'
  BY <1>1, <1>2, <1>5, <1>6 DEF Copies
<1>8. Requests' /\ Session' /\ Left' /\ Made'
  BY <1>1, <1>6, CalmCounts DEF Requests, Session, Made
<1> QED
  BY <1>7, <1>8

\* What a create makes comes after everything that was made before.
LEMMA MissingPairs ==
    ASSUME Made, NEW r \in Row
    PROVE  LET all == made \o Missing(r) IN
           /\ all \in Seq(Uses) /\ Len(all) \in Nat /\ Len(made) <= Len(all)
           /\ "reality" \in ToSet(Missing(r)) => Len(made) + 1 <= Len(all)
<1> DEFINE m == Missing(r)
<1>1. m \in Seq(Uses)
  <2>1. "reality" \in Uses /\ r.auth \in Uses
    BY DEF Uses, Row
  <2>2. <<"reality">> \in Seq(Uses) /\ <<r.auth>> \in Seq(Uses) /\ <<>> \in Seq(Uses)
    BY <2>1
  <2> QED
    BY <2>1, <2>2 DEF Missing
<1>2. "reality" \in ToSet(m) => Len(m) >= 1
  BY <1>1 DEF ToSet
<1> HIDE DEF m
<1> QED
  BY <1>1, <1>2 DEF Made, m

LEMMA SavePostedKeeps ==
    ASSUME IInv, SavePosted
    PROVE  IInv'
<1> USE DEF IInv
<1> DEFINE r   == [Written(Gone) EXCEPT !.on = TRUE]
           all == made \o Missing(r)
           x   == [r EXCEPT !.pair = IF r.pair = 0 /\ "reality" \in ToSet(Missing(r))
                                     THEN Len(made) + 1 ELSE r.pair,
                            !.keys = IF r.mode /\ r.keys = 0 THEN Len(all) ELSE r.keys]
<1>1. /\ UNCHANGED <<cache, fetch, form, editing, opened, mount, causes, keygens, acts, rotate>>
      /\ made' = all /\ Len(all) <= MaxMade
      /\ rows' = [rows EXCEPT ![3] = x] /\ save' = [save EXCEPT !.st = "done"] /\ Calm
  BY DEF SavePosted, list, session
<1>2. save \in SaveRecord /\ save.body \in Body /\ save.body.pair <= Len(made)
  BY DEF Requests, SaveRecord, Copies
<1>3. r \in Row /\ r.pair <= Len(made)
  BY <1>2, GoneIsRow, PageAssumption DEF Written, Row, Body, Pairs, Made
<1>4. /\ all \in Seq(Uses) /\ Len(all) \in Nat /\ Len(made) <= Len(all) /\ Len(made) \in Nat
      /\ "reality" \in ToSet(Missing(r)) => Len(made) + 1 <= Len(all)
  BY <1>3, MissingPairs DEF Made
<1> HIDE DEF r, all
<1>5. x \in Row /\ x.pair <= Len(all)
  <2> DEFINE pair == IF r.pair = 0 /\ "reality" \in ToSet(Missing(r)) THEN Len(made) + 1 ELSE r.pair
             keys == IF r.mode /\ r.keys = 0 THEN Len(all) ELSE r.keys
  <2>1. pair \in Pairs /\ keys \in Pairs /\ pair <= Len(all)
    BY <1>1, <1>3, <1>4, PageAssumption DEF Row, Pairs
  <2>2. x = [r EXCEPT !.pair = pair, !.keys = keys]
    OBVIOUS
  <2> HIDE DEF pair, keys
  <2> QED
    BY <1>3, <2>1, <2>2 DEF Row
<1>6. Copies(Len(all))
  BY <1>4, CopiesLast
<1> HIDE DEF x
<1>7. Known(rows', Len(all))
  BY <1>1, <1>5, <1>6 DEF Copies, Known, Ids
<1>8. save' \in SaveRecord /\ save'.body = save.body
  BY <1>1, <1>2 DEF SaveRecord
<1>9. Copies(Len(made))'
  BY <1>1, <1>6, <1>7, <1>8 DEF Copies
<1>10. Requests' /\ Session' /\ Left' /\ Made'
  BY <1>1, <1>4, <1>8, CalmCounts DEF Requests, Session, Made
<1> QED
  BY <1>9, <1>10

LEMMA SaveEndKeeps ==
    ASSUME IInv, SaveAnswered \/ SaveRefused \/ SaveLost
    PROVE  IInv'
<1> USE DEF IInv
<1>1. /\ UNCHANGED <<rows, made, cache, opened, mount, causes, keygens, acts, rotate>>
      /\ save' = NoSave /\ form' \in {form, Unset} /\ editing' \in {editing, {}}
      /\ fetch' \in {fetch, Asked} /\ (Calm \/ \E s : Suffer(s))
  BY DEF SaveAnswered, SaveRefused, SaveLost, list, session, Invalidate
<1>2. NoSave.body.pair = 0 /\ Len(made) \in Nat
  BY UnsetIsBody DEF NoSave, Made
<1>3. Copies(Len(made))'
  BY <1>1, <1>2, UnsetIsBody DEF Copies, Asked
<1>4. Requests' /\ Session' /\ Left' /\ Made'
  BY <1>1, NothingAsked, CalmCounts, SufferCounts DEF Requests, Session, Made
<1> QED
  BY <1>3, <1>4

LEMMA StutterKeeps == ASSUME IInv, UNCHANGED vars PROVE IInv'
<1>1. Copies(Len(made))'
  BY DEF IInv, Copies, vars
<1> QED
  BY <1>1 DEF IInv, Made, Requests, Session, Left, vars

\* The inductive step, one action at a time.
LEMMA NextIInv == IInv /\ [Next]_vars => IInv'
<1> SUFFICES ASSUME IInv, [Next]_vars PROVE IInv'
  OBVIOUS
<1>1. CASE ListAnswered \/ ListDelivered \/ ListFails
  BY <1>1, ListKeeps
<1>2. ASSUME NEW k \in Slots, ActStored(k) \/ ActAnswered(k) \/ ActRefused(k) \/ ActLost(k)
      PROVE  IInv'
  BY <1>2, ActStoredKeeps, ActEndKeeps
<1>3. ASSUME NEW k \in Slots, NEW i \in Ids, Toggle(k, i) \/ Delete(k, i)
      PROVE  IInv'
  BY <1>3, ToggleKeeps, DeleteKeeps
<1>4. CASE (\E i \in Ids : OpenEdit(i)) \/ OpenCreate \/ Cancel
           \/ Watching \/ SwitchMode \/ SwitchAuth \/ EditSecurity \/ RegenerateKeys
  BY <1>4, ModalKeeps
<1>5. ASSUME NEW g \in keygens, KeygenAnswered(g) \/ KeygenFails(g)
      PROVE  IInv'
  BY <1>5, KeygenKeeps
<1>6. CASE RotateClick \/ RotateRead \/ RotateStored \/ RotateAnswered \/ RotateLost
  BY <1>6, RotateKeeps
<1>7. CASE SaveClick \/ SavePatched \/ SavePosted \/ SaveAnswered \/ SaveRefused \/ SaveLost
  BY <1>7, SaveClickKeeps, SavePatchedKeeps, SavePostedKeeps, SaveEndKeeps
<1>8. CASE Finished \/ UNCHANGED vars
  BY <1>8, StutterKeeps DEF Finished
<1> QED
  BY <1>1, <1>2, <1>3, <1>4, <1>5, <1>6, <1>7, <1>8 DEF Next

\* Whatever is in flight, no row, copy or form holds a pair nobody has made.
THEOREM SpecIInv == Spec => []IInv
  BY InitIInv, NextIInv, PTL DEF Spec

-----------------------------------------------------------------------------
(* The refinement. Sent is three disjoint sets, told apart by who asks, and  *)
(* a step moves one of the three.                                          *)

SaveSent   == {r \in {SaveRequest} : save.st = "sent"}
ActsSent   == {ActRequest(k) : k \in {j \in Slots : acts[j].st = "sent"}}
RotateSent == {r \in {RotateRequest} : rotate.st \in {"sent", "read"}}

LEMMA SentParts ==
    /\ Sent = SaveSent \cup ActsSent \cup RotateSent
    /\ Sent' = SaveSent' \cup ActsSent' \cup RotateSent'
  BY DEF Sent, SaveSent, ActsSent, RotateSent

LEMMA Askers ==
    /\ \A r \in SaveSent : r.by = "save"
    /\ \A r \in ActsSent : r.by \in Slots
    /\ \A r \in RotateSent : r.by = "rotate"
    /\ "save" \notin Slots /\ "rotate" \notin Slots
<1>1. \A k \in Slots : ActRequest(k).by = k
  BY DEF ActRequest
<1>2. SaveRequest.by = "save" /\ RotateRequest.by = "rotate"
  BY DEF SaveRequest, RotateRequest
<1>3. "save" \notin Slots /\ "rotate" \notin Slots
  BY PageAssumption
<1> QED
  BY <1>1, <1>2, <1>3 DEF SaveSent, ActsSent, RotateSent

LEMMA NothingSent ==
    ASSUME UNCHANGED <<save, acts, rotate>>
    PROVE  Sent' = Sent
  BY DEF Sent, SaveRequest, ActRequest, RotateRequest

LEMMA SaveMoves ==
    ASSUME UNCHANGED <<acts, rotate>>
    PROVE  /\ save.st # "sent" /\ save'.st = "sent" =>
                 SaveRequest' \notin Sent /\ Sent' = Sent \cup {SaveRequest'}
           /\ save.st = "sent" /\ save'.st # "sent" =>
                 SaveRequest \in Sent /\ Sent' = Sent \ {SaveRequest}
           /\ save.st # "sent" /\ save'.st # "sent" => Sent' = Sent
<1>1. ActsSent' = ActsSent /\ RotateSent' = RotateSent
  BY DEF ActsSent, RotateSent, ActRequest, RotateRequest
<1>2. SaveRequest.by = "save" /\ SaveRequest'.by = "save"
  BY DEF SaveRequest
<1>3. SaveSent = IF save.st = "sent" THEN {SaveRequest} ELSE {}
  BY DEF SaveSent
<1>4. SaveSent' = IF save'.st = "sent" THEN {SaveRequest'} ELSE {}
  BY DEF SaveSent
<1> QED
  BY <1>1, <1>2, <1>3, <1>4, SentParts, Askers

LEMMA RotateMoves ==
    ASSUME UNCHANGED <<acts, save>>
    PROVE  LET was == rotate.st \in {"sent", "read"}
               is  == rotate'.st \in {"sent", "read"}
           IN /\ ~was /\ is =>
                    RotateRequest' \notin Sent /\ Sent' = Sent \cup {RotateRequest'}
              /\ was /\ ~is => RotateRequest \in Sent /\ Sent' = Sent \ {RotateRequest}
              /\ was /\ is => /\ RotateRequest \in Sent
                              /\ Sent' = (Sent \ {RotateRequest}) \cup {RotateRequest'}
              /\ ~was /\ ~is => Sent' = Sent
<1>1. ActsSent' = ActsSent /\ SaveSent' = SaveSent
  BY DEF ActsSent, SaveSent, ActRequest, SaveRequest
<1>2. RotateRequest.by = "rotate" /\ RotateRequest'.by = "rotate"
  BY DEF RotateRequest
<1>3. RotateSent = IF rotate.st \in {"sent", "read"} THEN {RotateRequest} ELSE {}
  BY DEF RotateSent
<1>4. RotateSent' = IF rotate'.st \in {"sent", "read"} THEN {RotateRequest'} ELSE {}
  BY DEF RotateSent
<1> QED
  BY <1>1, <1>2, <1>3, <1>4, SentParts, Askers

LEMMA ActMoves ==
    ASSUME UNCHANGED <<save, rotate>>, NEW k \in Slots,
           \A q \in Slots \ {k} : acts'[q] = acts[q]
    PROVE  /\ acts[k].st # "sent" /\ acts'[k].st = "sent" =>
                 ActRequest(k)' \notin Sent /\ Sent' = Sent \cup {ActRequest(k)'}
           /\ acts[k].st = "sent" /\ acts'[k].st # "sent" =>
                 ActRequest(k) \in Sent /\ Sent' = Sent \ {ActRequest(k)}
           /\ acts[k].st # "sent" /\ acts'[k].st # "sent" => Sent' = Sent
<1> DEFINE Others == {ActRequest(q) : q \in {j \in Slots \ {k} : acts[j].st = "sent"}}
<1>1. SaveSent' = SaveSent /\ RotateSent' = RotateSent
  BY DEF SaveSent, RotateSent, SaveRequest, RotateRequest
<1>2. ActRequest(k).by = k /\ ActRequest(k)'.by = k
  BY DEF ActRequest
<1>3. \A r \in Others : r.by \in Slots \ {k}
  BY DEF ActRequest
<1>4. ActsSent = Others \cup (IF acts[k].st = "sent" THEN {ActRequest(k)} ELSE {})
  BY DEF ActsSent
<1>5. ActsSent' = Others' \cup (IF acts'[k].st = "sent" THEN {ActRequest(k)'} ELSE {})
  BY DEF ActsSent
<1>6. Others' = Others
  BY DEF ActRequest
<1> HIDE DEF Others
<1> QED
  BY <1>1, <1>2, <1>3, <1>4, <1>5, <1>6, SentParts, Askers

LEMMA ClickMaps ==
    ASSUME Left, Click, rows' = rows, Sent' = Sent
    PROVE  Promise!Next
  BY ClickCounts DEF Promise!Next, Promise!Click

LEMMA SendMaps ==
    ASSUME Left, Click \/ RowClick, rows' = rows, NEW r, r \notin Sent, Sent' = Sent \cup {r}
    PROVE  Promise!Next
  BY ClickCounts DEF Promise!Next, Promise!Send

LEMMA ApplyMaps ==
    ASSUME NEW r \in Sent, Sent' = Sent \ {r}, Effect(rows, r, rows'),
           budget'.click = budget.click
    PROVE  Promise!Next
  BY DEF Promise!Next, Promise!Apply

LEMMA ReadMaps ==
    ASSUME NEW r \in Sent, NEW s, Look(rows, r, s), Sent' = (Sent \ {r}) \cup {s}, rows' = rows,
           budget'.click = budget.click
    PROVE  Promise!Next
  BY DEF Promise!Next, Promise!Read

LEMMA GiveUpMaps ==
    ASSUME NEW r \in Sent, Sent' = Sent \ {r}, rows' = rows, budget'.click = budget.click
    PROVE  Promise!Next
  BY DEF Promise!Next, Promise!GiveUp

\* What the panel promises of a step.
Mapped == [Promise!Next]_<<rows, Sent, MaxClicks - budget.click>>

LEMMA StutterMaps ==
    ASSUME rows' = rows, Sent' = Sent, budget'.click = budget.click
    PROVE  Mapped
  BY DEF Mapped

LEMMA ActsMap ==
    ASSUME IInv, NEW k \in Slots,
           \/ \E i \in Ids : Toggle(k, i) \/ Delete(k, i)
           \/ ActStored(k) \/ ActAnswered(k) \/ ActRefused(k) \/ ActLost(k)
    PROVE  Mapped
<1> USE DEF Mapped
<1>0. acts \in [Slots -> ActRecord] /\ Left
  BY DEF IInv, Requests
<1>1. ASSUME NEW i \in Ids, Toggle(k, i) \/ Delete(k, i)
      PROVE  Mapped
  <2>1. UNCHANGED <<rows, save, rotate>> /\ acts[k].st = "idle" /\ RowClick
    BY <1>1 DEF Toggle, Delete, session
  <2>2. PICK x : acts' = [acts EXCEPT ![k] = x] /\ x.st = "sent"
    <3>1. CASE Toggle(k, i)
      <4>1. PICK on \in BOOLEAN :
               acts' = [acts EXCEPT ![k] = [st |-> "sent", kind |-> "toggle", id |-> i,
                                            on |-> on, snap |-> cache]]
        BY <3>1 DEF Toggle
      <4>2. [st |-> "sent", kind |-> "toggle", id |-> i, on |-> on, snap |-> cache].st = "sent"
        OBVIOUS
      <4> QED
        BY <4>1, <4>2
    <3>2. CASE Delete(k, i)
      <4>1. [NoAct EXCEPT !.st = "sent", !.kind = "delete", !.id = i].st = "sent"
        BY DEF NoAct
      <4> QED
        BY <3>2, <4>1 DEF Delete
    <3> QED
      BY <1>1, <3>1, <3>2
  <2>3. acts'[k].st = "sent" /\ \A q \in Slots \ {k} : acts'[q] = acts[q]
    BY <1>0, <2>2
  <2> QED
    BY <1>0, <2>1, <2>3, ActMoves, SendMaps
<1>2. CASE ActStored(k)
  <2>1. /\ UNCHANGED <<save, rotate>> /\ acts[k].st = "sent" /\ Calm
        /\ acts' = [acts EXCEPT ![k].st = "done"]
        /\ rows' = [rows EXCEPT ![acts[k].id] =
                      IF acts[k].kind = "delete" THEN Gone ELSE [rows[acts[k].id] EXCEPT !.on = acts[k].on]]
    BY <1>2 DEF ActStored, session
  <2>2. acts'[k].st # "sent" /\ \A q \in Slots \ {k} : acts'[q] = acts[q]
    BY <1>0, <2>1 DEF ActRecord
  <2>3. ActRequest(k) \in Sent /\ Sent' = Sent \ {ActRequest(k)}
    BY <2>1, <2>2, ActMoves
  <2>4. Effect(rows, ActRequest(k), rows')
    <3>1. /\ ActRequest(k).kind = acts[k].kind /\ ActRequest(k).to = acts[k].id
          /\ ActRequest(k).body.mode = acts[k].on
      BY DEF ActRequest, Unset
    <3>2. rows \in [Ids -> Row] /\ acts[k].id \in Ids /\ acts[k].kind \in {"toggle", "delete"}
      BY <1>0 DEF IInv, Copies, Known, ActRecord
    <3>3. acts[k].id # 0
      BY <3>2 DEF Ids
    <3>4. \A i \in Ids : i # acts[k].id => rows'[i] = rows[i]
      BY <2>1, <3>2
    <3>5. CASE acts[k].kind = "toggle"
      BY <2>1, <3>1, <3>2, <3>3, <3>4, <3>5 DEF Effect
    <3>6. CASE acts[k].kind = "delete"
      BY <2>1, <3>1, <3>2, <3>3, <3>4, <3>6 DEF Effect
    <3> QED
      BY <3>2, <3>5, <3>6
  <2> QED
    BY <1>0, <2>1, <2>3, <2>4, CalmCounts, ApplyMaps
<1>3. CASE ActAnswered(k) \/ ActRefused(k) \/ ActLost(k)
  <2>1. PICK ok \in BOOLEAN : EndAct(k, ok)
    BY <1>3 DEF ActAnswered, ActRefused, ActLost
  <2>2. UNCHANGED <<rows, save, rotate>> /\ acts' = [acts EXCEPT ![k] = NoAct]
    BY <2>1 DEF EndAct
  <2>3. acts'[k].st # "sent" /\ \A q \in Slots \ {k} : acts'[q] = acts[q]
    BY <1>0, <2>2 DEF NoAct
  <2>4. budget'.click = budget.click
    BY <1>0, <1>3, CalmCounts, SufferCounts DEF ActAnswered, ActRefused, ActLost
  <2> QED
    BY <2>2, <2>3, <2>4, ActMoves, GiveUpMaps, StutterMaps
<1> QED
  BY <1>1, <1>2, <1>3

LEMMA RotateMaps ==
    ASSUME IInv, RotateClick \/ RotateRead \/ RotateStored \/ RotateAnswered \/ RotateLost
    PROVE  Mapped
<1> USE DEF Mapped
<1>0. rotate \in RotateRecord /\ Left
  BY DEF IInv, Requests
<1>1. CASE RotateClick
  <2>1. UNCHANGED <<rows, acts, save>> /\ rotate.st = "idle" /\ Click
    BY <1>1 DEF RotateClick
  <2>2. rotate'.st = "sent"
    BY <1>1 DEF RotateClick, NoRotate
  <2> QED
    BY <1>0, <2>1, <2>2, RotateMoves, SendMaps
<1>2. CASE RotateStored
  <2> DEFINE n == Len(made) + 1
             r == [rows[rotate.id] EXCEPT !.pair = n, !.sec = rotate.sec]
  <2>1. /\ UNCHANGED <<acts, save>> /\ rotate.st = "read" /\ Calm
        /\ rows' = [rows EXCEPT ![rotate.id] = r]
        /\ rotate' = [rotate EXCEPT !.st = "done", !.row = rows'[rotate.id]]
    BY <1>2 DEF RotateStored, WriteBack
  <2>2. rotate'.st = "done"
    BY <1>0, <2>1 DEF RotateRecord
  <2>3. RotateRequest \in Sent /\ Sent' = Sent \ {RotateRequest}
    BY <2>1, <2>2, RotateMoves
  <2>4. Effect(rows, RotateRequest, rows')
    <3>1. rows \in [Ids -> Row] /\ rotate.id \in Ids /\ rotate.id # 0
      BY <1>0 DEF IInv, Copies, Known, RotateRecord, Ids
    <3>2. \A i \in Ids : rows[i].pair < n
      BY <3>1 DEF IInv, Copies, Known, Made, Row, Pairs
    <3>3. r.pair = n /\ r = [rows[rotate.id] EXCEPT !.pair = r.pair, !.sec = rotate.sec]
      BY <3>1 DEF Row
    <3>4. /\ RotateRequest.kind = "write back" /\ RotateRequest.to = rotate.id
          /\ RotateRequest.body.sec = rotate.sec
      BY <2>1 DEF RotateRequest, Unset
    <3> HIDE DEF n, r
    <3> QED
      BY <2>1, <3>1, <3>2, <3>3, <3>4 DEF Effect
  <2> QED
    BY <1>0, <2>1, <2>3, <2>4, CalmCounts, ApplyMaps
<1>3. CASE RotateAnswered \/ RotateLost
  <2>1. UNCHANGED <<rows, acts, save>> /\ rotate' = NoRotate
    BY <1>3 DEF RotateAnswered, RotateLost
  <2>2. rotate'.st \notin {"sent", "read"}
    BY <2>1 DEF NoRotate
  <2>3. budget'.click = budget.click
    BY <1>0, <1>3, CalmCounts, SufferCounts DEF RotateAnswered, RotateLost
  <2> QED
    BY <2>1, <2>2, <2>3, RotateMoves, GiveUpMaps, StutterMaps
<1>4. CASE RotateRead
  <2>1. /\ UNCHANGED <<rows, acts, save>> /\ rotate.st = "sent" /\ Calm
        /\ rotate' = [rotate EXCEPT !.st = "read", !.sec = rows[rotate.id].sec]
    BY <1>4 DEF RotateRead
  <2>2. rotate'.st = "read" /\ rotate'.sec = rows[rotate.id].sec /\ rotate'.id = rotate.id
    BY <1>0, <2>1 DEF RotateRecord
  <2>3. /\ RotateRequest \in Sent
        /\ Sent' = (Sent \ {RotateRequest}) \cup {RotateRequest'}
    BY <2>1, <2>2, RotateMoves
  <2>4. Look(rows, RotateRequest, RotateRequest')
    <3>1. RotateRequest.kind = "rotate" /\ RotateRequest.to = rotate.id /\ RotateRequest.by = "rotate"
      BY <2>1 DEF RotateRequest
    <3>2. RotateRequest' = [by |-> "rotate", kind |-> "write back", to |-> rotate.id,
                            body |-> [Unset EXCEPT !.sec = rows[rotate.id].sec]]
      BY <2>2 DEF RotateRequest
    <3> QED
      BY <3>1, <3>2 DEF Look
  <2> QED
    BY <1>0, <2>1, <2>3, <2>4, CalmCounts, ReadMaps
<1> QED
  BY <1>1, <1>2, <1>3, <1>4

LEMMA SaveMaps ==
    ASSUME IInv, SaveClick \/ SavePatched \/ SavePosted \/ SaveAnswered \/ SaveRefused \/ SaveLost
    PROVE  Mapped
<1> USE DEF Mapped
<1>0. save \in SaveRecord /\ Left /\ save.body \in Body
  BY DEF IInv, Requests, SaveRecord
<1>1. CASE SaveClick
  <2>1. UNCHANGED <<rows, acts, rotate>> /\ save.st = "idle" /\ save'.st = "sent" /\ Click
    BY <1>1 DEF SaveClick
  <2> QED
    BY <1>0, <2>1, SaveMoves, SendMaps
<1>2. ASSUME UNCHANGED <<acts, rotate>>, save.st = "sent", save' = [save EXCEPT !.st = "done"],
             Calm, Effect(rows, SaveRequest, rows')
      PROVE  Mapped
  <2>1. save'.st # "sent"
    BY <1>0, <1>2 DEF SaveRecord
  <2> QED
    BY <1>0, <1>2, <2>1, SaveMoves, CalmCounts, ApplyMaps
<1>3. /\ SaveRequest.kind = "save" /\ SaveRequest.to = save.to /\ SaveRequest.body = save.body
      /\ rows \in [Ids -> Row]
  BY DEF SaveRequest, IInv, Copies, Known
<1>4. CASE SavePatched
  <2> DEFINE w == Written(rows[save.to])
  <2>1. /\ save.to \in Ids /\ save.to # 0 /\ rows[save.to].here
        /\ rows' = [rows EXCEPT ![save.to] = w]
    BY <1>0, <1>4 DEF SavePatched, SaveRecord, Ids
  <2>2. rows[save.to] \in Row
    BY <1>3, <2>1
  <2>3. /\ w.here /\ w.mode = save.body.mode /\ w.auth = save.body.auth
        /\ w.on = rows[save.to].on /\ w.sec = save.body.sec
        /\ save.body.mode /\ save.body.keys # 0 => w.keys = save.body.keys
        /\ save.body.pair # 0 => w.pair = save.body.pair
    BY <2>2 DEF Written, Row
  <2> HIDE DEF w
  <2>4. Effect(rows, SaveRequest, rows')
    BY <1>3, <2>1, <2>3 DEF Effect
  <2> QED
    BY <1>2, <1>4, <2>4 DEF SavePatched
<1>5. CASE SavePosted
  <2> DEFINE r   == [Written(Gone) EXCEPT !.on = TRUE]
             all == made \o Missing(r)
             x   == [r EXCEPT !.pair = IF r.pair = 0 /\ "reality" \in ToSet(Missing(r))
                                       THEN Len(made) + 1 ELSE r.pair,
                              !.keys = IF r.mode /\ r.keys = 0 THEN Len(all) ELSE r.keys]
  <2>1. save.to = 0 /\ rows' = [rows EXCEPT ![3] = x]
    BY <1>5 DEF SavePosted
  <2>2. /\ r.here /\ r.mode = save.body.mode /\ r.auth = save.body.auth
        /\ save.body.mode => r.keys = save.body.keys
        /\ save.body.pair # 0 => r.pair = save.body.pair
        /\ DOMAIN r = {"here", "on", "mode", "auth", "keys", "pair", "sec"} /\ r.sec = save.body.sec
    BY GoneIsRow DEF Written, Row, Gone
  <2> HIDE DEF r, all
  <2>3. /\ x.here /\ x.mode = save.body.mode /\ x.auth = save.body.auth /\ x.sec = save.body.sec
        /\ save.body.mode /\ save.body.keys # 0 => x.keys = save.body.keys
        /\ save.body.pair # 0 => x.pair = save.body.pair
    BY <2>2
  <2> HIDE DEF x
  <2>4. Effect(rows, SaveRequest, rows')
    BY <1>3, <2>1, <2>3 DEF Effect, Ids
  <2> QED
    BY <1>2, <1>5, <2>4 DEF SavePosted
<1>6. CASE SaveAnswered \/ SaveRefused \/ SaveLost
  <2>1. UNCHANGED <<rows, acts, rotate>> /\ save' = NoSave
    BY <1>6 DEF SaveAnswered, SaveRefused, SaveLost
  <2>2. save'.st # "sent"
    BY <2>1 DEF NoSave
  <2>3. budget'.click = budget.click
    BY <1>0, <1>6, CalmCounts, SufferCounts DEF SaveAnswered, SaveRefused, SaveLost
  <2> QED
    BY <2>1, <2>2, <2>3, SaveMoves, GiveUpMaps, StutterMaps
<1> QED
  BY <1>1, <1>4, <1>5, <1>6

\* The rest of the page: a click that sends nothing, or no click at all.
LEMMA FormMaps ==
    ASSUME IInv,
           \/ ListAnswered \/ ListDelivered \/ ListFails
           \/ \E i \in Ids : OpenEdit(i)
           \/ OpenCreate \/ Cancel \/ Watching \/ SwitchMode \/ SwitchAuth \/ EditSecurity \/ RegenerateKeys
           \/ \E g \in keygens : KeygenAnswered(g) \/ KeygenFails(g)
           \/ Finished \/ UNCHANGED vars
    PROVE  Mapped
<1> USE DEF Mapped
<1>0. Left
  BY DEF IInv
<1>1. UNCHANGED <<rows, save, acts, rotate>>
  BY DEF ListAnswered, ListDelivered, ListFails, OpenEdit, OpenCreate, Open, Cancel, Watching,
         SwitchMode, SwitchAuth, EditSecurity, Edit, RegenerateKeys, KeygenAnswered, KeygenFails, Finished, vars
<1>2. Click \/ budget'.click = budget.click
  <2>1. CASE ListAnswered \/ ListDelivered \/ ListFails
    BY <1>0, <2>1, CalmCounts, SufferCounts DEF ListAnswered, ListDelivered, ListFails
  <2>2. CASE (\E i \in Ids : OpenEdit(i)) \/ OpenCreate \/ Cancel \/ SwitchMode \/ SwitchAuth
             \/ EditSecurity \/ RegenerateKeys
    BY <2>2 DEF OpenEdit, OpenCreate, Open, Cancel, SwitchMode, SwitchAuth, EditSecurity, Edit, RegenerateKeys
  <2>3. CASE Watching \/ Finished \/ UNCHANGED vars
    BY <1>0, <2>3, CalmCounts DEF Watching, Finished, vars
  <2>4. CASE \E g \in keygens : KeygenAnswered(g) \/ KeygenFails(g)
    BY <1>0, <2>4, CalmCounts, SufferCounts DEF KeygenAnswered, KeygenFails
  <2> QED
    BY <2>1, <2>2, <2>3, <2>4
<1> QED
  BY <1>0, <1>1, <1>2, NothingSent, ClickMaps, StutterMaps

LEMMA StepMaps == IInv /\ [Next]_vars => Mapped
<1> SUFFICES ASSUME IInv, [Next]_vars PROVE Mapped
  OBVIOUS
<1>1. CASE \E k \in Slots : \/ ActStored(k) \/ ActAnswered(k) \/ ActRefused(k) \/ ActLost(k)
                            \/ \E i \in Ids : Toggle(k, i) \/ Delete(k, i)
  BY <1>1, ActsMap
<1>2. CASE RotateClick \/ RotateRead \/ RotateStored \/ RotateAnswered \/ RotateLost
  BY <1>2, RotateMaps
<1>3. CASE SaveClick \/ SavePatched \/ SavePosted \/ SaveAnswered \/ SaveRefused \/ SaveLost
  BY <1>3, SaveMaps
<1> QED
  BY <1>1, <1>2, <1>3, FormMaps DEF Next

LEMMA InitMaps == Init => Promise!Init
<1> SUFFICES ASSUME Init PROVE Promise!Init
  OBVIOUS
<1>1. Sent = {}
  BY DEF Init, Sent, NoSave, NoAct, NoRotate
<1>2. MaxClicks - budget.click = 0
  BY PageAssumption DEF Init
<1> QED
  BY <1>1, <1>2 DEF Promise!Init

\* The page implements WriteOnce: a stored row changes only as a click asked, and
\* at most once, whatever is lost, late or answered in another form; what a
\* rotation puts back of another request's is the security of its own row.
THEOREM PageWritesOnce == Spec => WritesOnce
  BY InitMaps, StepMaps, SpecIInv, PTL DEF Spec, WritesOnce, Promise!Spec, Mapped
-----------------------------------------------------------------------------
(* The list on screen.                                                      *)

\* While no answer or refetch was lost: the list is asked for, or something is
\* under way that will ask for it, or what is on its way or on screen is the
\* table.
Owed ==
    \/ fetch.st = "asked"
    \/ \E k \in Slots : \/ acts[k].st = "done"
                        \/ acts[k].st = "sent" /\ acts[k].kind = "toggle"
    \/ save.st = "done" \/ rotate.st = "done"
InStep ==
    \/ fetch.st = "read" /\ fetch.rows = {rows}
    \/ fetch.st = "idle" /\ cache = {rows}

Followed == seen = {} => (Owed \/ InStep)

\* Steps that leave the list, its copy and its request alone, and end nothing
\* that was to ask for it.
LEMMA FollowQuiet ==
    ASSUME Followed, UNCHANGED <<rows, cache, fetch>>, seen \subseteq seen',
           (seen' = {} /\ Owed) => Owed'
    PROVE  Followed'
  BY DEF Followed, InStep

\* A switch asks for the list again however it ended, and a deletion that was
\* stored too; one that was not has changed no row.
LEMMA SettleFollows ==
    ASSUME IInv, Followed, NEW k \in Slots, NEW ok \in BOOLEAN, EndAct(k, ok),
           seen \subseteq seen', ok => acts[k].st = "done",
           (acts[k].st = "done" /\ ~ok /\ acts[k].kind = "delete") => seen' # {}
    PROVE  Followed'
<1>0. acts \in [Slots -> ActRecord] /\ acts' = [acts EXCEPT ![k] = NoAct]
      /\ UNCHANGED <<rows, save, rotate>>
  BY DEF IInv, Requests, EndAct
<1>1. CASE acts[k].kind = "delete" => ok
  BY <1>1 DEF EndAct, SettleAct, Invalidate, Asked, Followed, Owed
<1>2. CASE acts[k].kind = "delete" /\ ~ok
  <2>1. UNCHANGED <<cache, fetch>>
    BY <1>2 DEF EndAct, SettleAct
  <2>2. (seen' = {} /\ Owed) => Owed'
    BY <1>0, <1>2, <2>1 DEF Owed
  <2> QED
    BY <1>0, <2>1, <2>2, FollowQuiet
<1> QED
  BY <1>1, <1>2

LEMMA ListFollows ==
    ASSUME Followed, ListAnswered \/ ListDelivered \/ ListFails
    PROVE  Followed'
<1>1. CASE ListAnswered
  BY <1>1 DEF ListAnswered, Followed, InStep
<1>2. CASE ListDelivered
  <2>1. /\ UNCHANGED <<rows, acts, save, rotate, seen>> /\ fetch.st = "read"
        /\ cache' = fetch.rows /\ fetch'.st = "idle"
    BY <1>2 DEF ListDelivered, Idle, Calm
  <2>2. (Owed => Owed') /\ (InStep => InStep')
    BY <2>1 DEF Owed, InStep
  <2> QED
    BY <2>1, <2>2 DEF Followed
<1>3. CASE ListFails
  BY <1>3 DEF ListFails, Suffer, Followed
<1> QED
  BY <1>1, <1>2, <1>3

LEMMA ActsFollow ==
    ASSUME IInv, Followed, NEW k \in Slots,
           \/ \E i \in Ids : Toggle(k, i) \/ Delete(k, i)
           \/ ActStored(k) \/ ActAnswered(k) \/ ActRefused(k) \/ ActLost(k)
    PROVE  Followed'
<1>0. acts \in [Slots -> ActRecord]
  BY DEF IInv, Requests
<1>1. ASSUME NEW i \in Ids, Toggle(k, i) PROVE Followed'
  <2>1. acts'[k].st = "sent" /\ acts'[k].kind = "toggle"
    BY <1>0, <1>1 DEF Toggle
  <2> QED
    BY <2>1 DEF Followed, Owed
<1>2. ASSUME NEW i \in Ids, Delete(k, i) PROVE Followed'
  <2>1. /\ UNCHANGED <<rows, cache, fetch, save, rotate, seen>> /\ acts[k].st = "idle"
        /\ \A q \in Slots \ {k} : acts'[q] = acts[q]
    BY <1>0, <1>2 DEF Delete, list, RowClick
  <2>2. Owed => Owed'
    BY <1>0, <2>1 DEF Owed
  <2> QED
    BY <2>1, <2>2, FollowQuiet
<1>3. CASE ActStored(k)
  <2>1. acts'[k].st = "done"
    BY <1>0, <1>3 DEF ActStored, ActRecord
  <2> QED
    BY <2>1 DEF Followed, Owed
<1>4. CASE ActAnswered(k)
  BY <1>4, SettleFollows DEF ActAnswered, Calm
<1>5. CASE ActRefused(k)
  BY <1>5, SettleFollows DEF ActRefused, Calm
<1>6. CASE ActLost(k)
  BY <1>6, SettleFollows DEF ActLost, Suffer
<1> QED
  BY <1>1, <1>2, <1>3, <1>4, <1>5, <1>6

\* A rotation or a save that was stored asks for the list with its answer, or
\* its answer is lost.
LEMMA WritesFollow ==
    ASSUME IInv, Followed,
           \/ RotateClick \/ RotateRead \/ RotateStored \/ RotateAnswered \/ RotateLost
           \/ SaveClick \/ SavePatched \/ SavePosted \/ SaveAnswered \/ SaveRefused \/ SaveLost
    PROVE  Followed'
<1>0. save \in SaveRecord /\ rotate \in RotateRecord
  BY DEF IInv, Requests
<1>1. CASE RotateStored \/ SavePatched \/ SavePosted
  <2>1. rotate'.st = "done" \/ save'.st = "done"
    BY <1>0, <1>1 DEF RotateStored, SavePatched, SavePosted, RotateRecord, SaveRecord
  <2> QED
    BY <2>1 DEF Followed, Owed
<1>2. CASE RotateAnswered \/ SaveAnswered
  BY <1>2 DEF RotateAnswered, SaveAnswered, Invalidate, Asked, Followed, Owed
<1>3. CASE RotateClick \/ RotateRead \/ RotateLost
  <2>1. /\ UNCHANGED <<rows, cache, fetch, acts, save>> /\ seen \subseteq seen'
        /\ rotate.st = "done" => seen' # {}
    BY <1>3 DEF RotateClick, RotateRead, RotateLost, Click, Calm, Suffer, list
  <2>2. (seen' = {} /\ Owed) => Owed'
    BY <2>1 DEF Owed
  <2> QED
    BY <2>1, <2>2, FollowQuiet
<1>4. CASE SaveClick \/ SaveRefused \/ SaveLost
  <2>1. /\ UNCHANGED <<rows, cache, fetch, acts, rotate>> /\ seen \subseteq seen'
        /\ save.st = "done" => seen' # {}
    BY <1>4 DEF SaveClick, SaveRefused, SaveLost, Click, Calm, Suffer, list
  <2>2. (seen' = {} /\ Owed) => Owed'
    BY <2>1 DEF Owed
  <2> QED
    BY <2>1, <2>2, FollowQuiet
<1> QED
  BY <1>1, <1>2, <1>3, <1>4

\* The form and its keypairs tell the list nothing.
LEMMA FormFollows ==
    ASSUME Followed,
           \/ \E i \in Ids : OpenEdit(i)
           \/ OpenCreate \/ Cancel \/ Watching \/ SwitchMode \/ SwitchAuth \/ EditSecurity \/ RegenerateKeys
           \/ \E g \in keygens : KeygenAnswered(g) \/ KeygenFails(g)
           \/ Finished \/ UNCHANGED vars
    PROVE  Followed'
<1>1. UNCHANGED <<rows, cache, fetch, acts, save, rotate>> /\ seen \subseteq seen'
  BY DEF OpenEdit, OpenCreate, Open, Cancel, Watching, SwitchMode, SwitchAuth, EditSecurity, Edit, RegenerateKeys,
         KeygenAnswered, KeygenFails, Finished, vars, list, Click, Calm, Suffer
<1> QED
  BY <1>1, FollowQuiet DEF Owed

LEMMA StepFollowed == IInv /\ Followed /\ [Next]_vars => Followed'
  BY ListFollows, ActsFollow, WritesFollow, FormFollows DEF Next

LEMMA SpecFollowed == Spec => []Followed
<1>1. Init => Followed
  BY DEF Init, Followed, Owed
<1> QED
  BY <1>1, SpecIInv, StepFollowed, PTL DEF Spec

\* With nothing under way and no answer or refetch lost, the list shown is the
\* table, however switches, their rollbacks, deletions, saves, rotations and
\* refetches overlapped (pages/Inbounds/index.tsx).
THEOREM QuietIsCurrent == Spec => []QuietListCurrent
<1>1. Followed => QuietListCurrent
  BY DEF Followed, QuietListCurrent, Quiet, Owed, InStep
<1> QED
  BY <1>1, SpecFollowed, PTL
-----------------------------------------------------------------------------
(* What the pairs were made for.                                            *)

\* x holds no pair that is not in m, nor one made there for another use.
Suits(x, m) ==
    /\ x.pair <= Len(m) /\ (x.pair # 0 => m[x.pair] = "reality")
    /\ x.keys <= Len(m) /\ (x.keys # 0 => m[x.keys] \in Auths)

\* A stored inbound has a Reality pair.
Fit(t, m) == \A i \in Ids : Suits(t[i], m) /\ (t[i].here => t[i].pair # 0)

\* The rows and everything that may be written over them: the lists a form is
\* opened from, the form, and the body of a save.
Purposes(m) ==
    /\ Fit(rows, m)
    /\ \A t \in cache : Fit(t, m)
    /\ \A t \in fetch.rows : Fit(t, m)
    /\ \A k \in Slots : \A t \in acts[k].snap : Fit(t, m)
    /\ Suits(form, m) /\ Suits(save.body, m)

\* At most one list is kept anywhere, and one record edited.
Lone(S) == \A a, b \in S : a = b
Lones ==
    /\ Lone(cache) /\ Lone(fetch.rows) /\ Lone(editing)
    /\ \A k \in Slots : Lone(acts[k].snap)

PInv == Purposes(made) /\ Lones

LEMMA LoneIsSmall ==
    ASSUME NEW S, Lone(S)
    PROVE  Cardinality(S) <= 1
<1>1. CASE S = {}
  BY <1>1, FS_EmptySet
<1>2. CASE S # {}
  <2>1. PICK a \in S : S = {a}
    BY <1>2 DEF Lone
  <2>2. Cardinality({a}) = 1
    BY FS_Singleton
  <2> QED
    BY <2>1, <2>2
<1> QED
  BY <1>1, <1>2

LEMMA EmptySuits ==
    ASSUME NEW m \in Seq(Uses)
    PROVE  Suits(Gone, m) /\ Suits(Unset, m) /\ ~Gone.here
  BY DEF Suits, Gone, Unset

\* Making more pairs spoils nothing.
LEMMA StillSuits ==
    ASSUME NEW m \in Seq(Uses), NEW n \in Seq(Uses), Len(m) <= Len(n),
           \A j \in 1..Len(m) : n[j] = m[j],
           NEW x, x.pair \in Pairs, x.keys \in Pairs, Suits(x, m)
    PROVE  Suits(x, n)
  BY PageAssumption DEF Suits, Pairs

LEMMA PurposesLast ==
    ASSUME IInv, Purposes(made), NEW n \in Seq(Uses), Len(made) <= Len(n),
           \A j \in 1..Len(made) : n[j] = made[j]
    PROVE  Purposes(n)
<1>0. made \in Seq(Uses)
  BY DEF IInv, Made
<1>1. ASSUME NEW t, t \in [Ids -> Row], Fit(t, made) PROVE Fit(t, n)
  <2>1. \A i \in Ids : t[i].pair \in Pairs /\ t[i].keys \in Pairs
    BY <1>1 DEF Row
  <2> QED
    BY <1>0, <1>1, <2>1, StillSuits DEF Fit
<1>2. Suits(form, n) /\ Suits(save.body, n)
  <2>1. form \in Body /\ save.body \in Body
    BY DEF IInv, Copies, Requests, SaveRecord
  <2> QED
    BY <1>0, <2>1, StillSuits DEF Purposes, Body
<1>3. \A t : Known(t, Len(made)) => t \in [Ids -> Row]
  BY DEF Known
<1> QED
  BY <1>1, <1>2, <1>3 DEF IInv, Copies, Purposes

LEMMA OnePurposeMore ==
    ASSUME IInv, Purposes(made), NEW x \in Uses, Len(made) < MaxMade
    PROVE  LET n == Append(made, x)
           IN n \in Seq(Uses) /\ Purposes(n) /\ Len(n) = Len(made) + 1 /\ n[Len(made) + 1] = x
<1> DEFINE n == Append(made, x)
<1>1. made \in Seq(Uses)
  BY DEF IInv, Made
<1>2. /\ n \in Seq(Uses) /\ Len(n) = Len(made) + 1 /\ n[Len(made) + 1] = x
      /\ Len(made) <= Len(n) /\ \A j \in 1..Len(made) : n[j] = made[j]
  BY <1>1
<1> HIDE DEF n
<1>3. Purposes(n)
  BY <1>2, PurposesLast
<1> QED
  BY <1>2, <1>3 DEF n

LEMMA InitPInv == Init => PInv
<1> SUFFICES ASSUME Init PROVE PInv
  OBVIOUS
<1>1. made = <<"reality", "reality", "x25519">>
  BY DEF Init
<1>2. Fit(rows, made)
  <2>1. rows[1].pair = 1 /\ rows[1].keys = 3 /\ rows[2].pair = 2 /\ rows[2].keys = 0 /\ rows[3] = Gone
    BY DEF Init, Ids
  <2>2. Suits(Gone, made) /\ ~Gone.here
    BY <1>1 DEF Suits, Gone
  <2> QED
    BY <1>1, <2>1, <2>2 DEF Fit, Suits, Ids, Auths
<1>3. Suits(Unset, made)
  BY <1>1 DEF Suits, Unset
<1>4. cache = {} /\ fetch.rows = {} /\ editing = {} /\ form = Unset /\ save.body = Unset
      /\ \A k \in Slots : acts[k].snap = {}
  BY DEF Init, NoAct, NoSave
<1> QED
  BY <1>2, <1>3, <1>4 DEF PInv, Purposes, Lones, Lone

\* The list and what is kept of it.
LEMMA ListSuits ==
    ASSUME IInv, PInv,
           \/ ListAnswered \/ ListDelivered \/ ListFails
           \/ \E k \in Slots : \/ ActStored(k) \/ ActAnswered(k) \/ ActRefused(k) \/ ActLost(k)
                               \/ \E i \in Ids : Delete(k, i)
    PROVE  PInv'
<1> USE DEF PInv
<1>0. /\ acts \in [Slots -> ActRecord] /\ made \in Seq(Uses)
      /\ rows \in [Ids -> Row]
  BY DEF IInv, Requests, Made, Copies, Known
<1>1. CASE ListAnswered \/ ListDelivered \/ ListFails
  <2>1. /\ UNCHANGED <<rows, made, acts, form, save, editing>>
        /\ fetch'.rows \in {{rows}, {}, fetch.rows} /\ cache' \in {cache, fetch.rows}
    BY <1>1 DEF ListAnswered, ListDelivered, ListFails, Idle, Asked, session
  <2> QED
    BY <2>1 DEF Purposes, Lones, Lone
<1>2. ASSUME NEW k \in Slots, ActStored(k) PROVE PInv'
  <2> DEFINE r == acts[k].id
             x == IF acts[k].kind = "delete" THEN Gone ELSE [rows[r] EXCEPT !.on = acts[k].on]
  <2>1. /\ UNCHANGED <<made, cache, fetch, form, save, editing>>
        /\ rows' = [rows EXCEPT ![r] = x] /\ r \in Ids
        /\ \A q \in Slots : acts'[q].snap = acts[q].snap
    BY <1>0, <1>2 DEF ActStored, list, session, ActRecord
  <2>2. Suits(x, made) /\ (x.here => x.pair # 0)
    <3>1. CASE acts[k].kind = "delete"
      BY <1>0, <3>1, EmptySuits
    <3>2. CASE acts[k].kind # "delete"
      <4>1. x.pair = rows[r].pair /\ x.keys = rows[r].keys /\ x.here = rows[r].here
        BY <1>0, <2>1, <3>2 DEF Row
      <4>2. Suits(rows[r], made) /\ (rows[r].here => rows[r].pair # 0)
        BY <2>1 DEF Purposes, Fit
      <4> HIDE DEF x
      <4> QED
        BY <4>1, <4>2 DEF Suits
    <3> QED
      BY <3>1, <3>2
  <2> HIDE DEF x, r
  <2>3. Fit(rows', made)
    BY <1>0, <2>1, <2>2 DEF Purposes, Fit
  <2> QED
    BY <2>1, <2>3 DEF Purposes, Lones
<1>3. ASSUME NEW k \in Slots, NEW ok \in BOOLEAN, EndAct(k, ok) PROVE PInv'
  <2>1. /\ UNCHANGED <<rows, made, form, save, editing>>
        /\ cache' \in {cache, acts[k].snap} /\ fetch'.rows \in {fetch.rows, {}}
        /\ \A q \in Slots : acts'[q].snap \in {acts[q].snap, {}}
    BY <1>0, <1>3 DEF EndAct, SettleAct, Invalidate, Asked, session, NoAct
  <2> QED
    BY <2>1 DEF Purposes, Lones, Lone
<1>4. ASSUME NEW k \in Slots, NEW i \in Ids, Delete(k, i) PROVE PInv'
  <2>1. /\ UNCHANGED <<rows, made, cache, fetch, form, save, editing>>
        /\ \A q \in Slots : acts'[q].snap \in {acts[q].snap, {}}
    BY <1>0, <1>4 DEF Delete, list, session, NoAct
  <2> QED
    BY <2>1 DEF Purposes, Lones, Lone
<1> QED
  BY <1>1, <1>2, <1>3, <1>4 DEF ActAnswered, ActRefused, ActLost

\* The switch flips nothing but the switch, in every list that is shown.
LEMMA ToggleSuits ==
    ASSUME IInv, PInv, NEW k \in Slots, NEW i \in Ids, Toggle(k, i)
    PROVE  PInv'
<1> USE DEF PInv
<1>0. acts \in [Slots -> ActRecord]
  BY DEF IInv, Requests
<1>1. UNCHANGED <<rows, made, fetch, form, save, editing>>
  BY DEF Toggle, session
<1>2. PICK on \in BOOLEAN :
         /\ acts' = [acts EXCEPT ![k] = [st |-> "sent", kind |-> "toggle", id |-> i,
                                         on |-> on, snap |-> cache]]
         /\ cache' = {[c EXCEPT ![i].on = on] : c \in cache}
  BY DEF Toggle
<1>3. ASSUME NEW c \in cache PROVE Fit([c EXCEPT ![i].on = on], made)
  <2> DEFINE d == [c EXCEPT ![i].on = on]
  <2>1. c \in [Ids -> Row]
    BY DEF IInv, Copies, Known
  <2>2. \A j \in Ids : d[j].pair = c[j].pair /\ d[j].keys = c[j].keys /\ d[j].here = c[j].here
    BY <2>1 DEF Row
  <2>3. Fit(c, made)
    BY DEF Purposes
  <2> HIDE DEF d
  <2>4. Fit(d, made)
    BY <2>2, <2>3 DEF Fit, Suits
  <2> QED
    BY <2>4 DEF d
<1>4. \A q \in Slots : acts'[q].snap \in {acts[q].snap, cache}
  BY <1>0, <1>2
<1>5. Purposes(made)'
  BY <1>1, <1>2, <1>3, <1>4 DEF Purposes
<1>6. Lones'
  BY <1>1, <1>2, <1>4 DEF Lones, Lone
<1> QED
  BY <1>5, <1>6

\* The form, the record behind it and the body a save takes from it.
LEMMA FormSuits ==
    ASSUME IInv, PInv, UNCHANGED <<rows, made, cache, acts>>, fetch' \in {fetch, Asked},
           Suits(form', made), save'.body \in {save.body, form, Unset}, Lone(editing')
    PROVE  PInv'
<1>1. Suits(Unset, made)
  BY EmptySuits DEF IInv, Made
<1>2. fetch'.rows \in {fetch.rows, {}}
  BY DEF Asked
<1> QED
  BY <1>1, <1>2 DEF PInv, Purposes, Lones, Lone

LEMMA SessionSuits ==
    ASSUME IInv, PInv,
           \/ \E i \in Ids : OpenEdit(i)
           \/ OpenCreate \/ Cancel \/ Watching \/ SwitchMode \/ SwitchAuth \/ EditSecurity \/ RegenerateKeys
           \/ \E g \in keygens : KeygenFails(g)
           \/ RotateClick \/ RotateRead \/ RotateAnswered \/ RotateLost
           \/ SaveClick \/ SaveAnswered \/ SaveRefused \/ SaveLost
           \/ Finished \/ UNCHANGED vars
    PROVE  PInv'
<1>0. /\ Suits(form, made) /\ Suits(Unset, made) /\ Lone(editing) /\ Lone({}) /\ \A e : Lone({e})
      /\ form \in Body
  BY EmptySuits DEF IInv, Made, Copies, PInv, Purposes, Lones, Lone
<1>1. ASSUME NEW i \in Ids, OpenEdit(i) PROVE PInv'
  <2>1. PICK c \in cache : Open({[id |-> i, row |-> c[i]]}, Hydrate(c[i]))
    BY <1>1 DEF OpenEdit
  <2>2. Suits(c[i], made)
    BY DEF PInv, Purposes, Fit
  <2>3. Suits(Hydrate(c[i]), made)
    BY <2>2 DEF Suits, Hydrate
  <2> QED
    BY <1>0, <2>1, <2>3, FormSuits DEF Open, list
<1>2. CASE OpenCreate
  BY <1>0, <1>2, FormSuits DEF OpenCreate, Open, list
<1>3. CASE Cancel \/ Watching \/ RegenerateKeys \/ (\E g \in keygens : KeygenFails(g))
           \/ RotateClick \/ RotateRead \/ RotateLost \/ SaveRefused \/ SaveLost \/ Finished \/ UNCHANGED vars
  <2>1. /\ UNCHANGED <<rows, made, cache, fetch, acts, form>> /\ editing' \in {editing, {}}
        /\ save' \in {save, NoSave}
    BY <1>3 DEF Cancel, Watching, RegenerateKeys, KeygenFails, RotateClick, RotateRead, RotateLost, SaveRefused,
                SaveLost, Finished, vars, list, session
  <2> QED
    BY <1>0, <2>1, FormSuits DEF NoSave
<1>4. ASSUME NEW v, v.pair = form.pair, v.keys = form.keys, NEW why, Edit(v, why) PROVE PInv'
  <2>1. Suits(v, made)
    BY <1>0, <1>4 DEF Suits
  <2> QED
    BY <1>0, <1>4, <2>1, FormSuits DEF Edit, list
<1>5. CASE SwitchMode
  BY <1>0, <1>4, <1>5 DEF SwitchMode, Body
<1>6. CASE SwitchAuth
  <2>1. PICK a \in Auths : Edit([form EXCEPT !.auth = a], {"auth"})
    BY <1>6 DEF SwitchAuth
  <2>2. [form EXCEPT !.auth = a].pair = form.pair /\ [form EXCEPT !.auth = a].keys = form.keys
    BY <1>0 DEF Body
  <2> QED
    BY <1>4, <2>1, <2>2
<1>7. CASE RotateAnswered
  BY <1>0, <1>7, FormSuits DEF RotateAnswered, Invalidate
<1>8. CASE SaveClick
  <2>1. /\ UNCHANGED <<rows, made, cache, fetch, acts, form, editing>> /\ save'.body = form
    BY <1>8 DEF SaveClick, list, session
  <2> QED
    BY <1>0, <2>1, FormSuits
<1>9. CASE SaveAnswered
  <2>1. save'.body = Unset
    BY <1>9 DEF SaveAnswered, NoSave
  <2> QED
    BY <1>0, <1>9, <2>1, FormSuits DEF SaveAnswered, Invalidate
<1>10. CASE EditSecurity
  BY <1>0, <1>4, <1>10 DEF EditSecurity, Body
<1> QED
  BY <1>1, <1>2, <1>3, <1>5, <1>6, <1>7, <1>8, <1>9, <1>10

\* A keypair that is made goes where its kind belongs.
LEMMA KeygenSuits ==
    ASSUME IInv, PInv, NEW g \in keygens, KeygenAnswered(g)
    PROVE  PInv'
<1> DEFINE p == Len(made) + 1
           v == IF g.for = "reality" THEN [form EXCEPT !.pair = p] ELSE [form EXCEPT !.keys = p]
           m == Append(made, g.for)
<1>1. /\ UNCHANGED <<rows, cache, fetch, acts, save, editing>> /\ form' \in {v, form}
      /\ made' = m /\ Len(made) < MaxMade
  BY DEF KeygenAnswered, list
<1>2. g.for \in Uses /\ Len(made) \in Nat
  BY DEF IInv, Session, Made
<1>3. m \in Seq(Uses) /\ Purposes(m) /\ Len(m) = p /\ m[p] = g.for
  BY <1>1, <1>2, OnePurposeMore DEF PInv
<1>4. form \in Body /\ Suits(form, m)
  BY <1>3 DEF IInv, Copies, Purposes
<1> HIDE DEF m
<1>5. Suits(v, m)
  <2>1. CASE g.for = "reality"
    <3>1. v.pair = p /\ v.keys = form.keys
      BY <1>4, <2>1 DEF Body
    <3> HIDE DEF v
    <3> QED
      BY <1>2, <1>3, <1>4, <2>1, <3>1 DEF Suits
  <2>2. CASE g.for # "reality"
    <3>1. v.keys = p /\ v.pair = form.pair /\ g.for \in Auths
      BY <1>2, <1>4, <2>2 DEF Body, Uses
    <3> HIDE DEF v
    <3> QED
      BY <1>2, <1>3, <1>4, <3>1 DEF Suits
  <2> QED
    BY <2>1, <2>2
<1> HIDE DEF v, p
<1>6. Suits(form', m)
  BY <1>1, <1>4, <1>5
<1> QED
  BY <1>1, <1>3, <1>6 DEF PInv, Purposes, Lones

LEMMA RotateSuits ==
    ASSUME IInv, PInv, RotateStored
    PROVE  PInv'
<1> DEFINE p == Len(made) + 1
           r == [rows[rotate.id] EXCEPT !.pair = p, !.sec = rotate.sec]
           m == Append(made, "reality")
<1>1. /\ UNCHANGED <<cache, fetch, acts, form, save, editing>>
      /\ made' = m /\ Len(made) < MaxMade /\ rows' = [rows EXCEPT ![rotate.id] = r]
  BY DEF RotateStored, WriteBack, list, session
<1>2. rows \in [Ids -> Row] /\ rotate.id \in Ids /\ Len(made) \in Nat
  BY DEF IInv, Copies, Known, Requests, RotateRecord, Made
<1>3. m \in Seq(Uses) /\ Purposes(m) /\ Len(m) = p /\ m[p] = "reality"
  BY <1>1, OnePurposeMore DEF PInv, Uses
<1> HIDE DEF m
<1>4. Suits(r, m) /\ r.pair # 0
  <2>1. r.pair = p /\ r.keys = rows[rotate.id].keys
    BY <1>2 DEF Row
  <2>2. Suits(rows[rotate.id], m)
    BY <1>2, <1>3 DEF Purposes, Fit
  <2> HIDE DEF r
  <2> QED
    BY <1>2, <1>3, <2>1, <2>2 DEF Suits
<1> HIDE DEF r, p
<1>5. Fit(rows', m)
  BY <1>1, <1>2, <1>3, <1>4 DEF Purposes, Fit
<1> QED
  BY <1>1, <1>3, <1>5 DEF PInv, Purposes, Lones

\* What a save writes suits what it writes over; the pair a row had stays unless
\* the form brought one.
LEMMA WrittenSuits ==
    ASSUME NEW m \in Seq(Uses), save.body \in Body, Suits(save.body, m), NEW b \in Row, Suits(b, m)
    PROVE  /\ Suits(Written(b), m)
           /\ Written(b).pair = IF save.body.pair = 0 THEN b.pair ELSE save.body.pair
<1>1. /\ Written(b).pair = IF save.body.pair = 0 THEN b.pair ELSE save.body.pair
      /\ Written(b).keys = IF save.body.mode THEN save.body.keys ELSE 0
  BY DEF Written, Row
<1> QED
  BY <1>1 DEF Suits

LEMMA PatchSuits ==
    ASSUME IInv, PInv, SavePatched
    PROVE  PInv'
<1> DEFINE w == Written(rows[save.to])
<1>1. /\ UNCHANGED <<made, cache, fetch, acts, form, editing>> /\ rows[save.to].here
      /\ rows' = [rows EXCEPT ![save.to] = w] /\ save' = [save EXCEPT !.st = "done"] /\ save.to # 0
  BY DEF SavePatched, list, session
<1>2. rows \in [Ids -> Row] /\ save \in SaveRecord /\ save.body \in Body /\ save.to \in Ids
      /\ made \in Seq(Uses)
  BY <1>1 DEF IInv, Copies, Known, Requests, SaveRecord, Ids, Made
<1>3. Fit(rows, made) /\ Suits(save.body, made)
  BY DEF PInv, Purposes
<1>4. Suits(w, made) /\ w.pair # 0
  BY <1>1, <1>2, <1>3, WrittenSuits DEF Fit
<1>5. save'.body = save.body
  BY <1>1, <1>2 DEF SaveRecord
<1> HIDE DEF w
<1>6. Fit(rows', made)
  BY <1>1, <1>2, <1>3, <1>4 DEF Fit
<1> QED
  BY <1>1, <1>5, <1>6 DEF PInv, Purposes, Lones

\* A create makes what the body lacks, each pair for its use.
LEMMA PostSuits ==
    ASSUME IInv, PInv, SavePosted
    PROVE  PInv'
<1> DEFINE r   == [Written(Gone) EXCEPT !.on = TRUE]
           miss == Missing(r)
           all == made \o miss
           x   == [r EXCEPT !.pair = IF r.pair = 0 /\ "reality" \in ToSet(miss)
                                     THEN Len(made) + 1 ELSE r.pair,
                            !.keys = IF r.mode /\ r.keys = 0 THEN Len(all) ELSE r.keys]
<1>1. /\ UNCHANGED <<cache, fetch, acts, form, editing>> /\ made' = all
      /\ rows' = [rows EXCEPT ![3] = x] /\ save' = [save EXCEPT !.st = "done"]
  BY DEF SavePosted, list, session
<1>2. rows \in [Ids -> Row] /\ save \in SaveRecord /\ save.body \in Body /\ made \in Seq(Uses)
      /\ Len(made) \in Nat
  BY DEF IInv, Copies, Known, Requests, SaveRecord, Made
<1>3. Suits(r, made) /\ r \in Row
  <2>1. Suits(Written(Gone), made)
    BY <1>2, GoneIsRow, EmptySuits, WrittenSuits DEF PInv, Purposes
  <2>2. Written(Gone) \in Row
    BY <1>2, GoneIsRow, WrittenIsRow DEF IInv, Copies
  <2>3. r \in Row /\ r.pair = Written(Gone).pair /\ r.keys = Written(Gone).keys
    BY <2>2 DEF Row
  <2> HIDE DEF r
  <2> QED
    BY <2>1, <2>3 DEF Suits
<1> HIDE DEF r
<1>4. miss = (IF r.pair = 0 THEN <<"reality">> ELSE <<>>)
             \o (IF r.mode /\ r.keys = 0 THEN <<r.auth>> ELSE <<>>)
  BY DEF Missing
<1>5. "reality" \in Uses /\ r.auth \in Uses /\ r.auth \in Auths
  BY <1>3 DEF Uses, Row
<1>6. /\ miss \in Seq(Uses)
      /\ r.pair = 0 => Len(miss) >= 1 /\ miss[1] = "reality" /\ "reality" \in ToSet(miss)
      /\ r.mode /\ r.keys = 0 => Len(miss) >= 1 /\ miss[Len(miss)] = r.auth
  BY <1>4, <1>5 DEF ToSet
<1> HIDE DEF miss
<1>7. /\ all \in Seq(Uses) /\ Len(all) = Len(made) + Len(miss)
      /\ \A j \in 1..Len(made) : all[j] = made[j]
      /\ \A j \in 1..Len(miss) : all[Len(made) + j] = miss[j]
  BY <1>2, <1>6
<1> HIDE DEF all
<1>8. /\ r.pair = 0 => all[Len(made) + 1] = "reality" /\ Len(made) + 1 <= Len(all)
      /\ r.mode /\ r.keys = 0 => all[Len(all)] \in Auths
      /\ Len(made) <= Len(all) /\ Len(all) \in Nat
  BY <1>2, <1>5, <1>6, <1>7
<1>9. Purposes(all)
  BY <1>7, <1>8, PurposesLast DEF PInv
<1>10. Suits(r, all)
  BY <1>2, <1>3, <1>7, <1>8, StillSuits DEF Row
<1>11. /\ x.pair = IF r.pair = 0 THEN Len(made) + 1 ELSE r.pair
       /\ x.keys = IF r.mode /\ r.keys = 0 THEN Len(all) ELSE r.keys
  BY <1>3, <1>6 DEF Row
<1> HIDE DEF x
<1>12. Suits(x, all) /\ x.pair # 0
  BY <1>2, <1>8, <1>10, <1>11 DEF Suits
<1>13. Fit(rows', all)
  BY <1>1, <1>2, <1>9, <1>12 DEF Purposes, Fit, Ids
<1>14. save'.body = save.body
  BY <1>1, <1>2 DEF SaveRecord
<1> QED
  BY <1>1, <1>9, <1>13, <1>14 DEF PInv, Purposes, Lones

LEMMA StepPInv == IInv /\ PInv /\ [Next]_vars => PInv'
<1> SUFFICES ASSUME IInv, PInv, [Next]_vars PROVE PInv'
  OBVIOUS
<1>1. CASE \/ ListAnswered \/ ListDelivered \/ ListFails
           \/ \E k \in Slots : \/ ActStored(k) \/ ActAnswered(k) \/ ActRefused(k) \/ ActLost(k)
                               \/ \E i \in Ids : Delete(k, i)
  BY <1>1, ListSuits
<1>2. CASE \E k \in Slots, i \in Ids : Toggle(k, i)
  BY <1>2, ToggleSuits
<1>3. CASE RotateStored \/ SavePatched \/ SavePosted \/ \E g \in keygens : KeygenAnswered(g)
  BY <1>3, RotateSuits, PatchSuits, PostSuits, KeygenSuits
<1> QED
  BY <1>1, <1>2, <1>3, SessionSuits DEF Next

\* Whatever was fetched for one form and answered in another, the Reality pair
\* of a stored inbound was made, and made as one, and its encryption keys were
\* made for an encryption auth (InboundForm.tsx, the keygen effects;
\* api/inbounds.rs, what a create fills in).
THEOREM TypeCorrect == Spec => []TypeOK
<1>1. Spec => []PInv
  BY InitPInv, SpecIInv, StepPInv, PTL DEF Spec
<1>2. IInv /\ PInv => TypeOK
  <2> SUFFICES ASSUME IInv, PInv PROVE TypeOK
    OBVIOUS
  <2>1. rows \in [Ids -> Row] /\ form \in Body /\ made \in Seq(Uses) /\ Fit(rows, made)
    BY DEF IInv, Copies, Known, Made, PInv, Purposes
  <2>2. Cardinality(editing) <= 1 /\ Cardinality(cache) <= 1
    BY LoneIsSmall DEF PInv, Lones
  <2>3. \A i \in Ids : rows[i].pair \in Nat /\ rows[i].keys \in Nat
    BY <2>1, PageAssumption DEF Row, Pairs
  <2>4. \A i \in Ids : rows[i].here => rows[i].pair \in DOMAIN made /\ made[rows[i].pair] = "reality"
    BY <2>1, <2>3 DEF Fit, Suits
  <2>5. \A i \in Ids : rows[i].keys # 0 => made[rows[i].keys] \in Auths
    BY <2>1 DEF Fit, Suits
  <2> QED
    BY <2>1, <2>2, <2>4, <2>5 DEF TypeOK, Body
<1> QED
  BY <1>1, <1>2, SpecIInv, PTL

-----------------------------------------------------------------------------
(* Keys rotate for cause: a save that nothing gave cause to goes to the      *)
(* inbound its form was opened with, with that inbound's encryption keys.    *)

Keyed(e) == e.row.mode /\ e.row.keys # 0

\* A request belongs to an opening there has been; a form is about one record.
Openings ==
    /\ \A g \in keygens : g.mount \in Nat /\ g.mount <= mount
    /\ rotate.mount <= mount
    /\ \A e, f \in opened : e = f
    /\ enc \in [watching : BOOLEAN, prev : SUBSET Auths]

\* Until something gives cause, the open form is about its record, holds its
\* keys and their auth, and asks for no others.
Faithful ==
    (modal /\ causes = {}) =>
        /\ About(editing) = About(opened)
        /\ \A e \in opened : Keyed(e) => /\ form.keys = e.row.keys /\ ~Pending(mount)
                                         /\ enc.prev \in {{}, {form.auth}}

\* A rotation asked for in this opening is of this opening's record.
Turning ==
    (rotate.st # "idle" /\ rotate.mount = mount /\ causes = {}) => About(opened) = {rotate.id}

KInv == Openings /\ Faithful /\ Turning /\ KeysRotateForCause

LEMMA InitKInv == Init => KInv
  BY DEF Init, KInv, Openings, Faithful, Turning, KeysRotateForCause, NoRotate, NoSave, NoEnc

-----------------------------------------------------------------------------
(* Every step keeps the invariant.                                         *)

\* The list and the row actions leave the form, its requests and the rotation
\* alone.
LEMMA ElsewhereKeeps ==
    ASSUME KInv, UNCHANGED <<session, keygens, rotate, save>>
    PROVE  KInv'
<1> USE DEF KInv, session
<1>1. Openings'
  BY DEF Openings
<1>2. Faithful'
  BY DEF Faithful, Pending
<1>3. Turning' /\ KeysRotateForCause'
  BY DEF Turning, KeysRotateForCause
<1> QED
  BY <1>1, <1>2, <1>3

LEMMA ListKeepsKeys ==
    ASSUME KInv,
           \/ ListAnswered \/ ListDelivered \/ ListFails
           \/ \E k \in Slots : \/ ActStored(k) \/ ActAnswered(k) \/ ActRefused(k) \/ ActLost(k)
                               \/ \E i \in Ids : Toggle(k, i) \/ Delete(k, i)
           \/ Finished \/ UNCHANGED vars
    PROVE  KInv'
<1>1. UNCHANGED <<session, keygens, rotate, save>>
  BY DEF ListAnswered, ListDelivered, ListFails, ActStored, ActAnswered, ActRefused, ActLost,
         EndAct, Toggle, Delete, Finished, vars, session
<1> QED
  BY <1>1, ElsewhereKeeps

\* An opening starts afresh: no request is its own yet.
LEMMA OpenKeepsKeys ==
    ASSUME IInv, KInv, (\E i \in Ids : OpenEdit(i)) \/ OpenCreate
    PROVE  KInv'
<1>0. mount \in Nat /\ rotate.mount \in Nat
  BY DEF IInv, Session, Requests, RotateRecord
<1> DEFINE Fresh == [for |-> "reality", mount |-> mount + 1]
<1>1. PICK record, values :
         /\ Open(record, values) /\ keygens' \in {keygens, keygens \cup {Fresh}}
         /\ \A e, f \in record : e = f
         /\ \A e \in record : values.keys = e.row.keys
  <2>1. ASSUME NEW i \in Ids, OpenEdit(i)
        PROVE  \E c \in cache : /\ Open({[id |-> i, row |-> c[i]]}, Hydrate(c[i]))
                                /\ keygens' = keygens
    BY <2>1 DEF OpenEdit
  <2>2. CASE OpenCreate
    <3>1. Open({}, Unset) /\ keygens' = keygens \cup {Fresh}
      BY <2>2 DEF OpenCreate
    <3> QED
      BY <3>1
  <2>3. CASE \E i \in Ids : OpenEdit(i)
    <3>1. PICK i \in Ids : OpenEdit(i)
      BY <2>3
    <3>2. PICK c \in cache : /\ Open({[id |-> i, row |-> c[i]]}, Hydrate(c[i]))
                             /\ keygens' = keygens
      BY <2>1, <3>1
    <3>3. \A e \in {[id |-> i, row |-> c[i]]} : Hydrate(c[i]).keys = e.row.keys
      BY DEF Hydrate
    <3> QED
      BY <3>2, <3>3
  <2> QED
    BY <2>2, <2>3
<1>2. /\ editing' = record /\ opened' = record /\ form' = values /\ enc' = NoEnc
      /\ mount' = mount + 1 /\ UNCHANGED <<save, rotate>>
  BY <1>1 DEF Open
<1>3. \A g \in keygens' : /\ g.mount \in Nat /\ g.mount <= mount + 1
                          /\ g.mount = mount + 1 => g.for = "reality"
  BY <1>0, <1>1 DEF KInv, Openings
<1>4. Openings'
  BY <1>0, <1>1, <1>2, <1>3 DEF KInv, Openings, NoEnc
<1>5. Faithful'
  <2>1. ~Pending(mount)'
    BY <1>2, <1>3 DEF Pending, Auths
  <2> QED
    BY <1>1, <1>2, <2>1 DEF Faithful, NoEnc, About
<1>6. Turning' /\ KeysRotateForCause'
  BY <1>0, <1>2 DEF KInv, Openings, Turning, KeysRotateForCause
<1> QED
  BY <1>4, <1>5, <1>6 DEF KInv

\* The effect asks only for this opening, and not at all if the form has keys
\* for the auth it last saw.
LEMMA EffectAsksHere ==
    ASSUME NEW v \in Body, NEW gens, RunEffect(v, gens),
           enc \in [watching : BOOLEAN, prev : SUBSET Auths]
    PROVE  /\ enc' \in [watching : BOOLEAN, prev : SUBSET Auths]
           /\ \A g \in keygens' : g \in gens \/ g.mount = mount
           /\ (v.keys # 0 /\ enc.prev \in {{}, {v.auth}}) =>
                 keygens' = gens /\ enc'.prev \in {{}, {v.auth}}
<1>0. v.auth \in Auths
  BY DEF Body
<1>1. CASE enc' = [enc EXCEPT !.watching = TRUE] /\ keygens' = gens
  BY <1>1
<1>2. CASE /\ enc' = [watching |-> TRUE, prev |-> {v.auth}]
           /\ keygens' = IF Regenerate(v) THEN gens \cup {[for |-> v.auth, mount |-> mount]} ELSE gens
  <2>1. (v.keys # 0 /\ enc.prev \in {{}, {v.auth}}) => ~Regenerate(v)
    BY DEF Regenerate
  <2> QED
    BY <1>0, <1>2, <2>1
<1> QED
  BY <1>1, <1>2 DEF RunEffect

\* A step that touches nothing but the form, its effect and the causes, and
\* gives cause before it changes the keys or the auth of a keyed record.
LEMMA FormKeepsKeys ==
    ASSUME IInv, KInv,
           UNCHANGED <<modal, editing, opened, mount, rotate, save>>,
           NEW gens \in SUBSET keygens,
           modal => form' \in Body,
           (modal /\ RunEffect(form', gens)) \/ (keygens' = gens /\ UNCHANGED enc),
           causes \subseteq causes',
           (modal /\ causes' = {} /\ \E e \in opened : Keyed(e)) =>
               form'.keys = form.keys /\ form'.auth = form.auth
    PROVE  KInv'
<1>0. mount \in Nat
  BY DEF IInv, Session
<1>1. Openings'
  BY <1>0, EffectAsksHere DEF KInv, Openings
<1>2. Faithful'
  <2> SUFFICES ASSUME modal, causes' = {}
               PROVE  /\ About(editing) = About(opened)
                      /\ \A e \in opened : Keyed(e) =>
                            /\ form'.keys = e.row.keys /\ ~Pending(mount)'
                            /\ enc'.prev \in {{}, {form'.auth}}
    BY DEF Faithful, About, Keyed
  <2>1. causes = {}
    OBVIOUS
  <2>2. About(editing) = About(opened)
    BY <2>1 DEF KInv, Faithful
  <2>3. ASSUME NEW e \in opened, Keyed(e)
        PROVE  /\ form'.keys = e.row.keys /\ ~Pending(mount)'
               /\ enc'.prev \in {{}, {form'.auth}}
    <3>1. /\ form.keys = e.row.keys /\ ~Pending(mount) /\ enc.prev \in {{}, {form.auth}}
      BY <2>1, <2>3 DEF KInv, Faithful
    <3>2. form'.keys = form.keys /\ form'.auth = form.auth /\ form'.keys # 0
      BY <2>3, <3>1 DEF Keyed
    <3>3. keygens' = gens /\ enc'.prev \in {{}, {form'.auth}}
      BY <3>1, <3>2, EffectAsksHere DEF KInv, Openings
    <3> QED
      BY <3>1, <3>2, <3>3 DEF Pending
  <2> QED
    BY <2>2, <2>3
<1>3. Turning' /\ KeysRotateForCause'
  BY DEF KInv, Turning, KeysRotateForCause
<1> QED
  BY <1>1, <1>2, <1>3 DEF KInv

LEMMA EditKeepsKeys ==
    ASSUME IInv, KInv, Watching \/ SwitchMode \/ SwitchAuth \/ EditSecurity \/ RegenerateKeys \/ Cancel
    PROVE  KInv'
<1>0. form \in Body /\ mount \in Nat
  BY DEF IInv, Copies, Session
<1>1. CASE Watching
  BY <1>0, <1>1, FormKeepsKeys DEF Watching
<1>2. CASE SwitchMode
  <2>1. form' = [form EXCEPT !.mode = ~form.mode]
    BY <1>2 DEF SwitchMode, Edit
  <2>2. form' \in Body /\ form'.keys = form.keys /\ form'.auth = form.auth
    BY <1>0, <2>1 DEF Body
  <2> QED
    BY <1>2, <2>2, FormKeepsKeys DEF SwitchMode, Edit
<1>3. CASE SwitchAuth
  <2>1. PICK a \in Auths : Edit([form EXCEPT !.auth = a], {"auth"})
    BY <1>3 DEF SwitchAuth
  <2>2. form' \in Body /\ causes' # {} /\ causes \subseteq causes'
    BY <1>0, <2>1 DEF Edit, Body
  <2> QED
    BY <2>1, <2>2, FormKeepsKeys DEF Edit
<1>4. CASE RegenerateKeys
  <2>1. /\ UNCHANGED <<modal, editing, form, enc, mount, opened, save, rotate>> /\ causes' # {}
        /\ keygens' = keygens \cup {[for |-> form.auth, mount |-> mount]}
    BY <1>4 DEF RegenerateKeys
  <2>2. Openings'
    BY <1>0, <2>1 DEF KInv, Openings
  <2>3. Faithful' /\ Turning' /\ KeysRotateForCause'
    BY <2>1 DEF KInv, Faithful, Turning, KeysRotateForCause
  <2> QED
    BY <2>2, <2>3 DEF KInv
<1>5. CASE Cancel
  <2>1. /\ UNCHANGED <<mount, opened, causes, keygens, save, rotate>> /\ ~modal' /\ enc' = NoEnc
    BY <1>5 DEF Cancel
  <2>2. Openings'
    BY <2>1 DEF KInv, Openings, NoEnc
  <2> QED
    BY <2>1, <2>2 DEF KInv, Faithful, Turning, KeysRotateForCause
<1>6. CASE EditSecurity
  <2>1. form' = [form EXCEPT !.sec = 1 - form.sec]
    BY <1>6 DEF EditSecurity, Edit
  <2>2. form' \in Body /\ form'.keys = form.keys /\ form'.auth = form.auth
    BY <1>0, <2>1 DEF Body
  <2> QED
    BY <1>6, <2>2, FormKeepsKeys DEF EditSecurity, Edit
<1> QED
  BY <1>1, <1>2, <1>3, <1>4, <1>5, <1>6

\* Keys that arrive in the form of a keyed record without cause were asked for
\* there, and such a form has asked for none.
LEMMA KeygenKeepsKeys ==
    ASSUME IInv, KInv, NEW g \in keygens, KeygenAnswered(g) \/ KeygenFails(g)
    PROVE  KInv'
<1>0. form \in Body /\ g.for \in Uses
  BY DEF IInv, Copies, Session
<1>1. CASE KeygenFails(g)
  BY <1>0, <1>1, FormKeepsKeys DEF KeygenFails
<1>2. CASE KeygenAnswered(g)
  <2> DEFINE n == Len(made) + 1
             v == IF g.for = "reality" THEN [form EXCEPT !.pair = n] ELSE [form EXCEPT !.keys = n]
  <2>1. /\ UNCHANGED <<modal, editing, opened, mount, rotate, save>>
        /\ Len(made) < MaxMade /\ made' = Append(made, g.for)
        /\ form' = (IF modal THEN v ELSE form)
        /\ causes' = (IF modal /\ g.mount # mount THEN causes \cup {"stray"} ELSE causes)
        /\ (modal /\ RunEffect(v, keygens \ {g})) \/ (keygens' = keygens \ {g} /\ UNCHANGED enc)
    BY <1>2 DEF KeygenAnswered
  <2>2. n \in Pairs
    BY <1>0, <2>1, OneMore DEF IInv
  <2>3. v \in Body /\ (g.for = "reality" => v.keys = form.keys /\ v.auth = form.auth)
    BY <1>0, <2>2 DEF Body
  <2> HIDE DEF v, n
  <2>4. ASSUME modal, causes' = {}, NEW e \in opened, Keyed(e)
        PROVE  g.for = "reality"
    <3>1. g.mount = mount /\ causes = {}
      BY <2>1, <2>4
    <3>2. ~Pending(mount)
      BY <2>4, <3>1 DEF KInv, Faithful
    <3> QED
      BY <1>0, <3>1, <3>2 DEF Pending, Uses
  <2>5. causes \subseteq causes'
    BY <2>1
  <2>6. keygens \ {g} \in SUBSET keygens
    OBVIOUS
  <2> QED
    BY <2>1, <2>3, <2>4, <2>5, <2>6, FormKeepsKeys
<1> QED
  BY <1>1, <1>2

LEMMA RotateKeepsKeys ==
    ASSUME IInv, KInv, RotateClick \/ RotateRead \/ RotateStored \/ RotateAnswered \/ RotateLost
    PROVE  KInv'
<1>0. mount \in Nat /\ rotate \in RotateRecord
  BY DEF IInv, Session, Requests
<1>1. CASE RotateClick
  <2>1. PICK e \in editing : rotate' = [NoRotate EXCEPT !.st = "sent", !.id = e.id, !.mount = mount]
    BY <1>1 DEF RotateClick
  <2>2. rotate'.id = e.id /\ rotate'.mount = mount
    BY <2>1 DEF NoRotate
  <2>3. UNCHANGED <<modal, editing, form, enc, mount, opened, causes, keygens, save>> /\ modal
    BY <1>1 DEF RotateClick, session
  <2>4. Turning'
    <3> SUFFICES ASSUME causes = {} PROVE About(opened) = {e.id}
      BY <2>2, <2>3 DEF Turning, About
    <3>1. e.id \in About(opened)
      BY <2>3 DEF KInv, Faithful, About
    <3> QED
      BY <3>1 DEF KInv, Openings, About
  <2>5. Openings'
    BY <1>0, <2>2, <2>3 DEF KInv, Openings
  <2>6. Faithful' /\ KeysRotateForCause'
    BY <2>3 DEF KInv, Faithful, Pending, KeysRotateForCause
  <2> QED
    BY <2>4, <2>5, <2>6 DEF KInv
<1>2. CASE RotateRead \/ RotateStored \/ RotateLost
  <2>1. UNCHANGED <<modal, editing, form, enc, mount, opened, causes, keygens, save>>
    BY <1>2 DEF RotateRead, RotateStored, RotateLost, session
  <2>2. \/ rotate'.st = "idle" /\ rotate'.mount = 0
        \/ rotate.st # "idle" /\ rotate'.id = rotate.id /\ rotate'.mount = rotate.mount
    <3>1. CASE RotateStored
      <4>1. PICK r : rotate' = [rotate EXCEPT !.st = "done", !.row = r]
        BY <3>1 DEF RotateStored
      <4> QED
        BY <1>0, <3>1, <4>1 DEF RotateStored, RotateRecord
    <3>2. CASE RotateLost
      BY <3>2 DEF RotateLost, NoRotate
    <3>3. CASE RotateRead
      BY <1>0, <3>3 DEF RotateRead, RotateRecord
    <3> QED
      BY <1>2, <3>1, <3>2, <3>3
  <2>3. rotate'.mount <= mount
    BY <1>0, <2>2 DEF KInv, Openings
  <2>4. Openings'
    BY <2>1, <2>3 DEF KInv, Openings
  <2>5. Faithful' /\ Turning' /\ KeysRotateForCause'
    BY <2>1, <2>2 DEF KInv, Faithful, Pending, Turning, KeysRotateForCause
  <2> QED
    BY <2>4, <2>5 DEF KInv
<1>3. CASE RotateAnswered
  <2>1. /\ UNCHANGED <<modal, form, enc, mount, opened, keygens, save>>
        /\ editing' = {[id |-> rotate.id, row |-> rotate.row]} /\ rotate' = NoRotate
        /\ rotate.st = "done"
        /\ causes' = (IF modal /\ rotate.mount # mount THEN causes \cup {"stray"} ELSE causes)
    BY <1>3 DEF RotateAnswered
  <2>2. Openings'
    BY <1>0, <2>1 DEF KInv, Openings, NoRotate
  <2>3. Faithful'
    <3> SUFFICES ASSUME modal, causes' = {} PROVE Faithful'
      BY <2>1 DEF Faithful
    <3>1. rotate.mount = mount /\ causes = {}
      BY <2>1
    <3>2. About(editing)' = About(opened)
      BY <2>1, <3>1 DEF KInv, Turning, About
    <3> QED
      BY <2>1, <3>1, <3>2 DEF KInv, Faithful, Pending, About
  <2>4. Turning' /\ KeysRotateForCause'
    BY <2>1 DEF KInv, Turning, KeysRotateForCause, NoRotate
  <2> QED
    BY <2>2, <2>3, <2>4 DEF KInv
<1> QED
  BY <1>1, <1>2, <1>3

LEMMA SaveKeepsKeys ==
    ASSUME IInv, KInv,
           SaveClick \/ SavePatched \/ SavePosted \/ SaveAnswered \/ SaveRefused \/ SaveLost
    PROVE  KInv'
<1>0. save \in SaveRecord /\ editing \in SUBSET Record
  BY DEF IInv, Requests, Session
<1>1. CASE SaveClick
  <2> DEFINE e == CHOOSE x \in editing : TRUE
             to == IF editing = {} THEN 0 ELSE e.id
  <2>1. /\ UNCHANGED <<modal, editing, form, enc, mount, opened, causes, keygens, rotate>> /\ modal
        /\ save' = [st |-> "sent", body |-> form, base |-> opened, causes |-> causes, to |-> to]
    BY <1>1 DEF SaveClick, session
  <2>2. ASSUME causes = {} PROVE About(opened) = {to} \ {0}
    <3>1. About(editing) = About(opened)
      BY <2>1, <2>2 DEF KInv, Faithful
    <3>2. CASE editing = {}
      BY <3>1, <3>2 DEF About
    <3>3. CASE editing # {}
      <4>1. e \in editing /\ to = e.id /\ to # 0
        BY <1>0, <3>3 DEF Record, Ids
      <4>2. \A x \in About(opened) : x = to
        BY <3>1, <4>1 DEF KInv, Openings, About
      <4> QED
        BY <3>1, <4>1, <4>2 DEF About
    <3> QED
      BY <3>2, <3>3
  <2>3. ASSUME causes = {}, NEW x \in opened, x.row.mode, x.row.keys # 0
        PROVE  form.keys = x.row.keys
    BY <2>1, <2>3 DEF KInv, Faithful, Keyed
  <2> HIDE DEF to
  <2>4. KeysRotateForCause'
    BY <2>1, <2>2, <2>3 DEF KeysRotateForCause, About
  <2>5. Openings' /\ Faithful' /\ Turning'
    BY <2>1 DEF KInv, Openings, Faithful, Pending, Turning
  <2> QED
    BY <2>4, <2>5 DEF KInv
<1>2. CASE SavePatched \/ SavePosted \/ SaveRefused \/ SaveLost
  <2>1. UNCHANGED <<modal, editing, form, enc, mount, opened, causes, keygens, rotate>>
    BY <1>2 DEF SavePatched, SavePosted, SaveRefused, SaveLost, session
  <2>2. save'.st # "sent"
    BY <1>0, <1>2 DEF SavePatched, SavePosted, SaveRefused, SaveLost, NoSave, SaveRecord
  <2> QED
    BY <2>1, <2>2 DEF KInv, Openings, Faithful, Pending, Turning, KeysRotateForCause
<1>3. CASE SaveAnswered
  <2>1. /\ UNCHANGED <<mount, opened, causes, keygens, rotate>> /\ ~modal' /\ enc' = NoEnc
        /\ save'.st = "idle"
    BY <1>3 DEF SaveAnswered, NoSave
  <2> QED
    BY <2>1 DEF KInv, Openings, Faithful, Turning, KeysRotateForCause, NoEnc
<1> QED
  BY <1>1, <1>2, <1>3

LEMMA NextKInv == IInv /\ KInv /\ [Next]_vars => KInv'
<1> SUFFICES ASSUME IInv, KInv, [Next]_vars PROVE KInv'
  OBVIOUS
<1>1. CASE \/ ListAnswered \/ ListDelivered \/ ListFails
           \/ \E k \in Slots : \/ ActStored(k) \/ ActAnswered(k) \/ ActRefused(k) \/ ActLost(k)
                               \/ \E i \in Ids : Toggle(k, i) \/ Delete(k, i)
           \/ Finished \/ UNCHANGED vars
  BY <1>1, ListKeepsKeys
<1>2. CASE (\E i \in Ids : OpenEdit(i)) \/ OpenCreate
  BY <1>2, OpenKeepsKeys
<1>3. CASE Watching \/ SwitchMode \/ SwitchAuth \/ EditSecurity \/ RegenerateKeys \/ Cancel
  BY <1>3, EditKeepsKeys
<1>4. CASE \E g \in keygens : KeygenAnswered(g) \/ KeygenFails(g)
  BY <1>4, KeygenKeepsKeys
<1>5. CASE RotateClick \/ RotateRead \/ RotateStored \/ RotateAnswered \/ RotateLost
  BY <1>5, RotateKeepsKeys
<1>6. CASE SaveClick \/ SavePatched \/ SavePosted \/ SaveAnswered \/ SaveRefused \/ SaveLost
  BY <1>6, SaveKeepsKeys
<1> QED
  BY <1>1, <1>2, <1>3, <1>4, <1>5, <1>6 DEF Next

\* The form and the rotation stay about the record the form was opened with,
\* until something gives cause.
THEOREM SpecKInv == Spec => []KInv
  BY InitKInv, NextKInv, SpecIInv, PTL DEF Spec

\* Unless the auth was switched, new keys were asked for, or an answer meant for
\* another form fell into this one, a save goes to the inbound its form was
\* opened with and leaves it the encryption keys it had.
THEOREM KeysKeptWithoutCause == Spec => []KeysRotateForCause
<1>1. KInv => KeysRotateForCause
  BY DEF KInv
<1> QED
  BY <1>1, SpecKInv, PTL
=============================================================================
