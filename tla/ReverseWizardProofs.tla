-------------------------- MODULE ReverseWizardProofs --------------------------
(***************************************************************************)
(* For every set of tags and names and every bound: no two stored          *)
(* outbounds share a tag, the list shown with nothing under way is the one *)
(* stored, the invite on screen belongs to the client and the rule the     *)
(* wizard made, and a retry repeats neither.                               *)
(***************************************************************************)
EXTENDS ReverseWizard, FiniteSetTheorems, TLAPS

-----------------------------------------------------------------------------
(* The page's own state.                                                    *)

Lists     == [Ids -> Row]
Single(S) == S = {} \/ \E x : S = {x}

\* A list of outbounds that were all given an id by the panel's page.
Known(m, l)  == l \in Lists /\ \A i \in Ids : l[i].here => i \in m
Copies(m, S) == Single(S) /\ \A l \in S : Known(m, l)

PutType  == [st : {"idle", "sent", "done"}, kind : {"save", "toggle", "delete"},
             body : Lists, snap : SUBSET Lists]
Record   == [id : Ids, row : Row]

PageTypeOK ==
    /\ Known(minted, rows) /\ Storable(rows)
    /\ 1 \in minted
    /\ Copies(minted, cache)
    /\ fetch \in [st : {"idle", "asked", "read"}, list : SUBSET Lists] /\ Copies(minted, fetch.list)
    /\ puts \in [Puts -> PutType]
    /\ \A k \in Puts : Known(minted, puts[k].body) /\ Copies(minted, puts[k].snap)
    /\ editing \subseteq Record /\ Single(editing)
    /\ form \in [tag : Tags, on : BOOLEAN]

LEMMA BlankRows ==
    /\ Gone \in Row /\ NoList \in Lists /\ Known(minted, NoList) /\ Copies(minted, {})
    /\ NoPut \in PutType /\ NoPut.body = NoList /\ NoPut.snap = {} /\ NoPut.st = "idle"
    /\ Unset \in [tag : Tags, on : BOOLEAN]
    /\ {Asked, Idle} \subseteq [st : {"idle", "asked", "read"}, list : SUBSET Lists]
    /\ Asked.list = {} /\ Idle.list = {}
    /\ 0 \in Puts /\ 1 \in Ids
<1>1. Gone \in Row /\ NoList \in Lists /\ 0 \in Puts /\ 1 \in Ids
  BY OutboundsAssumption DEF Gone, NoList, Row, Lists, Ids
<1>2. Known(minted, NoList) /\ Copies(minted, {})
  BY <1>1 DEF Known, Copies, Single, NoList, Gone
<1>3. /\ NoPut \in PutType /\ NoPut.body = NoList /\ NoPut.snap = {} /\ NoPut.st = "idle"
      /\ {Asked, Idle} \subseteq [st : {"idle", "asked", "read"}, list : SUBSET Lists]
      /\ Asked.list = {} /\ Idle.list = {}
  BY <1>1 DEF NoPut, PutType, Asked, Idle
<1>4. Unset \in [tag : Tags, on : BOOLEAN]
  BY OutboundsAssumption DEF Unset
<1> QED
  BY <1>1, <1>2, <1>3, <1>4

LEMMA KnownGrows ==
    ASSUME minted \subseteq minted'
    PROVE  /\ \A l : Known(minted, l) => Known(minted', l)
           /\ \A S : Copies(minted, S) => Copies(minted', S)
BY DEF Known, Copies

LEMMA InitPage == PageInit => PageTypeOK
<1> SUFFICES ASSUME PageInit PROVE PageTypeOK
  OBVIOUS
<1>1. rows \in Lists /\ \A i \in Ids : rows[i].here => i = 1
  BY BlankRows, OutboundsAssumption DEF PageInit, Lists, NoList, Gone, Row
<1>2. Known(minted, rows) /\ Storable(rows) /\ 1 \in minted
  BY <1>1 DEF PageInit, Known, Storable
<1>3. puts \in [Puts -> PutType] /\ \A k \in Puts : puts[k] = NoPut
  BY BlankRows DEF PageInit
<1>4. cache = {} /\ fetch = Asked /\ editing = {} /\ form = Unset
  BY DEF PageInit
<1> QED
  BY <1>1, <1>2, <1>3, <1>4, BlankRows DEF PageTypeOK, Single

\* A list that goes out, and one that is settled.
LEMMA SendType ==
    ASSUME PageTypeOK, NEW k \in Puts, NEW kind \in {"save", "toggle", "delete"},
           NEW body, NEW snap, Send(k, kind, body, snap), minted \subseteq minted',
           Known(minted', body), Copies(minted, snap)
    PROVE  /\ puts' \in [Puts -> PutType]
           /\ \A q \in Puts : Known(minted', puts'[q].body) /\ Copies(minted', puts'[q].snap)
<1>1. [st |-> "sent", kind |-> kind, body |-> body, snap |-> snap] \in PutType
  BY DEF PutType, Known, Copies
<1>2. /\ puts' = [puts EXCEPT ![k] = [st |-> "sent", kind |-> kind, body |-> body, snap |-> snap]]
      /\ puts \in [Puts -> PutType]
  BY DEF Send, PageTypeOK
<1>3. /\ puts'[k].body = body /\ puts'[k].snap = snap
      /\ \A q \in Puts \ {k} : puts'[q] = puts[q]
  BY <1>2
<1> QED
  BY <1>1, <1>2, <1>3, KnownGrows DEF PageTypeOK

LEMMA SettleType ==
    ASSUME PageTypeOK, NEW k \in Puts, NEW ok \in BOOLEAN, Settle(k, ok)
    PROVE  /\ UNCHANGED <<rows, minted>>
           /\ Copies(minted, cache') /\ Copies(minted, fetch'.list)
           /\ fetch' \in [st : {"idle", "asked", "read"}, list : SUBSET Lists]
           /\ puts' \in [Puts -> PutType]
           /\ \A q \in Puts : Known(minted, puts'[q].body) /\ Copies(minted, puts'[q].snap)
BY BlankRows DEF PageTypeOK, Settle, Invalidate

LEMMA PageWorkTyped ==
    ASSUME PageTypeOK, PageWork
    PROVE  PageTypeOK' /\ minted' = minted
<1> USE DEF PageTypeOK
<1>1. CASE ListAnswered \/ ListDelivered \/ ListFails
  <2>1. UNCHANGED <<rows, minted, puts, editing, form>>
    BY <1>1 DEF ListAnswered, ListDelivered, ListFails, dialog
  <2>2. Copies(minted, {rows})
    BY DEF Copies, Single
  <2>3. /\ Copies(minted, cache') /\ Copies(minted, fetch'.list)
        /\ fetch' \in [st : {"idle", "asked", "read"}, list : SUBSET Lists]
    <3>1. CASE ListAnswered
      BY <2>2, <3>1 DEF ListAnswered, Known
    <3>2. CASE ListDelivered \/ ListFails
      BY <3>2, BlankRows DEF ListDelivered, ListFails
    <3> QED
      BY <1>1, <3>1, <3>2
  <2> QED
    BY <2>1, <2>3 DEF Known, Copies, Storable
<1>2. ASSUME NEW k \in Puts, PutStored(k) PROVE PageTypeOK' /\ minted' = minted
  <2>1. UNCHANGED <<minted, cache, fetch, editing, form>>
    BY <1>2 DEF PutStored, dialog
  <2>2. rows' = puts[k].body /\ Storable(rows') /\ Known(minted, rows')
    BY <1>2 DEF PutStored
  <2>3. /\ puts' \in [Puts -> PutType]
        /\ \A q \in Puts : puts'[q].body = puts[q].body /\ puts'[q].snap = puts[q].snap
    BY <1>2 DEF PutStored, PutType
  <2> QED
    BY <2>1, <2>2, <2>3 DEF Known, Copies, Storable
<1>3. ASSUME NEW k \in Puts, PutRefused(k) \/ PutAnswered(k) \/ PutLost(k)
      PROVE  PageTypeOK' /\ minted' = minted
  <2>1. Settle(k, FALSE) \/ Settle(k, TRUE)
    BY <1>3 DEF PutRefused, PutAnswered, PutLost
  <2>2. editing' \subseteq Record /\ Single(editing') /\ form' \in [tag : Tags, on : BOOLEAN]
    BY <1>3, BlankRows DEF PutRefused, PutAnswered, PutLost, dialog, Single
  <2> QED
    BY <2>1, <2>2, SettleType DEF Known, Copies, Storable
<1> QED
  BY <1>1, <1>2, <1>3 DEF PageWork
LEMMA PageClicksTyped ==
    ASSUME PageTypeOK, PageClicks
    PROVE  PageTypeOK' /\ minted \subseteq minted'
<1> USE DEF PageTypeOK
<1>1. ASSUME NEW k \in Puts, NEW i \in Ids, Toggle(k, i) \/ Delete(k, i)
      PROVE  PageTypeOK' /\ minted' = minted
  <2>1. UNCHANGED <<rows, minted, fetch, editing, form>>
    BY <1>1 DEF Toggle, Delete, dialog
  <2>2. CASE Toggle(k, i)
    <3>1. PICK l \in cache : LET flipped == [l EXCEPT ![i].on = ~@]
                             IN Send(k, "toggle", flipped, cache) /\ cache' = {flipped}
      BY <2>2 DEF Toggle
    <3> DEFINE flipped == [l EXCEPT ![i].on = ~@]
    <3>2. l \in Lists /\ \A j \in Ids : l[j].here => j \in minted
      BY DEF Copies, Known
    <3>3. flipped \in Lists /\ \A j \in Ids : flipped[j].here = l[j].here
      <4> DEFINE new == [l[i] EXCEPT !.on = ~@]
      <4>1. l[i] \in Row
        BY <3>2 DEF Lists
      <4>2. new \in Row /\ new.here = l[i].here
        BY <4>1 DEF Row
      <4>3. flipped = [l EXCEPT ![i] = new]
        BY <3>2 DEF Lists
      <4> HIDE DEF new, flipped
      <4> QED
        BY <3>2, <4>2, <4>3 DEF Lists
    <3>4. Known(minted, flipped)
      BY <3>2, <3>3 DEF Known
    <3>5. Send(k, "toggle", flipped, cache) /\ cache' = {flipped}
      BY <3>1
    <3> HIDE DEF flipped
    <3>6. Copies(minted, cache')
      BY <3>4, <3>5 DEF Copies, Single
    <3>7. /\ puts' \in [Puts -> PutType]
          /\ \A q \in Puts : Known(minted', puts'[q].body) /\ Copies(minted', puts'[q].snap)
      BY <2>1, <3>4, <3>5, SendType
    <3> QED
      BY <2>1, <3>6, <3>7 DEF Storable
  <2>3. CASE Delete(k, i)
    <3>1. PICK l \in cache : Send(k, "delete", [l EXCEPT ![i] = Gone], {})
      BY <2>3 DEF Delete
    <3> DEFINE body == [l EXCEPT ![i] = Gone]
    <3>2. l \in Lists /\ \A j \in Ids : l[j].here => j \in minted
      BY DEF Copies, Known
    <3>3. body \in Lists /\ \A j \in Ids : body[j].here => l[j].here
      BY <3>2, BlankRows DEF Lists, Row, Gone
    <3>4. Known(minted, body)
      BY <3>2, <3>3 DEF Known
    <3>5. Send(k, "delete", body, {}) /\ cache' = cache
      BY <2>3, <3>1 DEF Delete
    <3> HIDE DEF body
    <3>6. /\ puts' \in [Puts -> PutType]
          /\ \A q \in Puts : Known(minted', puts'[q].body) /\ Copies(minted', puts'[q].snap)
      BY <2>1, <3>4, <3>5, BlankRows, SendType
    <3> QED
      BY <2>1, <3>5, <3>6 DEF Storable
  <2> QED
    BY <1>1, <2>1, <2>2, <2>3
<1>2. ASSUME (\E i \in Ids : OpenEdit(i)) \/ OpenCreate \/ Edit \/ Cancel
      PROVE  PageTypeOK' /\ minted' = minted
  <2>1. UNCHANGED <<rows, minted, cache, fetch, puts>>
    BY <1>2 DEF OpenEdit, OpenCreate, OpenForm, Edit, Cancel
  <2>2. editing' \subseteq Record /\ Single(editing') /\ form' \in [tag : Tags, on : BOOLEAN]
    <3>1. ASSUME NEW i \in Ids, OpenEdit(i)
          PROVE  editing' \subseteq Record /\ Single(editing') /\ form' \in [tag : Tags, on : BOOLEAN]
      <4>1. PICK l \in cache : OpenForm({[id |-> i, row |-> l[i]]}, [tag |-> l[i].tag, on |-> l[i].on])
        BY <3>1 DEF OpenEdit
      <4>2. l[i] \in Row
        BY DEF Copies, Known, Lists
      <4>3. /\ [id |-> i, row |-> l[i]] \in Record
            /\ [tag |-> l[i].tag, on |-> l[i].on] \in [tag : Tags, on : BOOLEAN]
        BY <4>2 DEF Record, Row
      <4> QED
        BY <4>1, <4>3 DEF OpenForm, Single
    <3>2. CASE OpenCreate \/ Cancel
      BY <3>2, BlankRows DEF OpenCreate, OpenForm, Cancel, Single
    <3>3. CASE Edit
      BY <3>3 DEF Edit
    <3> QED
      BY <1>2, <3>1, <3>2, <3>3
  <2> QED
    BY <2>1, <2>2 DEF Storable
<1>3. ASSUME SaveEdit PROVE PageTypeOK' /\ minted' = minted
  <2>1. UNCHANGED <<rows, minted, cache, fetch, editing, form>>
    BY <1>3 DEF SaveEdit, dialog
  <2>2. PICK l \in cache, e \in editing :
          Send(0, "save",
               IF l[e.id].here THEN [l EXCEPT ![e.id] = [e.row EXCEPT !.tag = form.tag, !.on = form.on]]
               ELSE l, {})
    BY <1>3 DEF SaveEdit
  <2> DEFINE new  == [e.row EXCEPT !.tag = form.tag, !.on = form.on]
             body == IF l[e.id].here THEN [l EXCEPT ![e.id] = new] ELSE l
  <2>3. l \in Lists /\ \A j \in Ids : l[j].here => j \in minted
    BY DEF Copies, Known
  <2>4. e.id \in Ids /\ e.row \in Row
    BY DEF Record
  <2>5. new \in Row
    BY <2>4 DEF Row
  <2> HIDE DEF new
  <2>6. body \in Lists /\ \A j \in Ids : body[j].here => l[j].here
    BY <2>3, <2>4, <2>5 DEF Lists
  <2>7. Known(minted, body)
    BY <2>3, <2>6 DEF Known
  <2>8. Send(0, "save", body, {})
    BY <2>2 DEF new
  <2> HIDE DEF body
  <2>9. /\ puts' \in [Puts -> PutType]
        /\ \A q \in Puts : Known(minted', puts'[q].body) /\ Copies(minted', puts'[q].snap)
    BY <2>1, <2>7, <2>8, BlankRows, SendType
  <2> QED
    BY <2>1, <2>9 DEF Storable
<1>4. ASSUME SaveNew PROVE PageTypeOK' /\ minted \subseteq minted'
  <2>1. UNCHANGED <<rows, cache, fetch, editing, form>> /\ minted' = minted \cup {FreshId}
    BY <1>4 DEF SaveNew, dialog
  <2>2. PICK l \in cache :
          Send(0, "save", [l EXCEPT ![FreshId] = Named(form.tag, form.on, FALSE)], {})
    BY <1>4 DEF SaveNew
  <2> DEFINE body == [l EXCEPT ![FreshId] = Named(form.tag, form.on, FALSE)]
  <2>3. l \in Lists /\ \A j \in Ids : l[j].here => j \in minted
    BY DEF Copies, Known
  <2>4. Named(form.tag, form.on, FALSE) \in Row
    BY DEF Named, Row
  <2>5. body \in Lists /\ \A j \in Ids : body[j].here => (l[j].here \/ j = FreshId)
    BY <2>3, <2>4 DEF Lists
  <2>6. Known(minted', body)
    BY <2>1, <2>3, <2>5 DEF Known
  <2>7. Send(0, "save", body, {})
    BY <2>2
  <2> HIDE DEF body
  <2>8. /\ puts' \in [Puts -> PutType]
        /\ \A q \in Puts : Known(minted', puts'[q].body) /\ Copies(minted', puts'[q].snap)
    BY <2>1, <2>6, <2>7, BlankRows, SendType
  <2>9. minted \subseteq minted'
    BY <2>1
  <2>10. Known(minted', rows') /\ Copies(minted', cache') /\ Copies(minted', fetch'.list)
    BY <2>1, <2>9, KnownGrows
  <2> QED
    BY <2>1, <2>8, <2>9, <2>10 DEF Storable
<1> QED
  BY <1>1, <1>2, <1>3, <1>4 DEF PageClicks

-----------------------------------------------------------------------------
(* The wizard's state.                                                      *)

Client == [name : Names, tag : Tags, by : Wizards]
Rule   == [to : Tags, by : Wizards]
WizType ==
    [open : BOOLEAN, role : {"unset", "portal", "bridge"}, step : 0..2,
     name : Names, tag : Tags, mode : Modes, client : Nat, ruled : BOOLEAN, invite : Nat,
     imported : BOOLEAN, local : {"home", "relay"}, apart : BOOLEAN]
PortalType ==
    [st : {"idle", "post", "checked", "posted", "get", "put", "ruled", "link"},
     name : Names, tag : Tags, mode : Modes, client : Nat, body : Seq(Rule)]
BridgeType == [st : {"idle", "get", "put", "done"}, id : minted, tag : Tags, body : Lists]

WizTypeOK ==
    /\ clients \in Seq(Client) /\ rules \in Seq(Rule)
    /\ wiz \in WizType /\ wiz.client <= Len(clients)
    /\ opened \in 0..MaxOpens /\ (wiz.open => opened # 0)
    /\ portal \in [Wizards -> PortalType]
    /\ \A w \in Wizards : portal[w].client <= Len(clients)
    /\ bridge \in [Wizards -> BridgeType]
    /\ \A w \in Wizards : Known(minted, bridge[w].body)
    /\ unheard \subseteq Wizards

Typed == PageTypeOK /\ WizTypeOK

LEMMA BlankWizard ==
    /\ Closed \in WizType /\ Closed.client = 0 /\ ~Closed.open
    /\ NoPortal \in PortalType /\ NoPortal.client = 0 /\ NoPortal.st = "idle" /\ NoPortal.body = <<>>
    /\ 1 \in minted => NoBridge \in BridgeType
    /\ NoBridge.body = NoList /\ NoBridge.st = "idle"
<1>1. Closed \in WizType /\ Closed.client = 0 /\ ~Closed.open
  <2>1. Fresh \in WizType /\ Fresh.client = 0
    BY WizardAssumption, OutboundsAssumption DEF Fresh, WizType, Modes
  <2> QED
    BY <2>1 DEF Closed, WizType
<1>2. NoPortal \in PortalType /\ NoPortal.client = 0 /\ NoPortal.st = "idle" /\ NoPortal.body = <<>>
  BY WizardAssumption, OutboundsAssumption DEF NoPortal, PortalType, Modes
<1>3. (1 \in minted => NoBridge \in BridgeType) /\ NoBridge.body = NoList /\ NoBridge.st = "idle"
  BY BlankRows, OutboundsAssumption DEF NoBridge, BridgeType
<1> QED
  BY <1>1, <1>2, <1>3

LEMMA InitTyped == Init => Typed
<1> SUFFICES ASSUME Init PROVE Typed
  OBVIOUS
<1>1. PageTypeOK
  BY InitPage DEF Init
<1>2. /\ clients = <<>> /\ rules = <<>> /\ wiz = Closed /\ opened = 0 /\ unheard = {}
      /\ portal = [w \in Wizards |-> NoPortal] /\ bridge = [w \in Wizards |-> NoBridge]
  BY DEF Init
<1>3. portal \in [Wizards -> PortalType] /\ bridge \in [Wizards -> BridgeType]
  BY <1>1, <1>2, BlankWizard DEF PageTypeOK
<1>4. \A w \in Wizards : portal[w].client = 0 /\ Known(minted, bridge[w].body)
  BY <1>2, BlankWizard, BlankRows
<1>5. clients \in Seq(Client) /\ rules \in Seq(Rule) /\ Len(clients) = 0
  BY <1>2
<1>6. wiz \in WizType /\ wiz.client = 0 /\ ~wiz.open /\ opened \in 0..MaxOpens
  BY <1>2, BlankWizard, WizardAssumption
<1> QED
  BY <1>1, <1>2, <1>3, <1>4, <1>5, <1>6 DEF Typed, WizTypeOK
LEMMA PageKept ==
    ASSUME PageTypeOK, UNCHANGED <<rows, minted, cache, fetch, puts, dialog>>
    PROVE  PageTypeOK'
BY DEF PageTypeOK, dialog, Storable

LEMMA PageStepTyped ==
    ASSUME Typed, PageStep
    PROVE  Typed'
<1>1. PageTypeOK' /\ minted \subseteq minted'
  BY PageWorkTyped, PageClicksTyped DEF PageStep, Typed
<1>2. UNCHANGED <<clients, rules, wiz, opened, portal, bridge, unheard>>
  BY DEF PageStep, wizardVars
<1>3. bridge \in [Wizards -> BridgeType']
  BY <1>1 DEF Typed, WizTypeOK, BridgeType
<1> QED
  BY <1>1, <1>2, <1>3, KnownGrows DEF Typed, WizTypeOK

\* Steps of the dialog, which touch the wizard and nothing that was stored.
LEMMA DialogKept ==
    ASSUME Typed, UNCHANGED <<rows, minted, cache, fetch, puts, dialog>>,
           UNCHANGED <<clients, rules, portal, bridge, unheard>>,
           wiz' \in WizType, wiz'.client <= Len(clients),
           opened' \in 0..MaxOpens, wiz'.open => opened' # 0
    PROVE  Typed'
BY PageKept DEF Typed, WizTypeOK, BridgeType

LEMMA DialogTyped ==
    ASSUME Typed,
           Open \/ Close \/ PickRole \/ NextStep \/ Back \/ Fill \/ Import \/ EditLink
    PROVE  Typed'
<1>0. /\ clients \in Seq(Client) /\ rules \in Seq(Rule) /\ Len(clients) \in Nat
      /\ wiz \in WizType /\ wiz.client <= Len(clients)
      /\ opened \in 0..MaxOpens /\ (wiz.open => opened # 0)
      /\ portal \in [Wizards -> PortalType]
      /\ \A v \in Wizards : portal[v].client <= Len(clients)
      /\ unheard \subseteq Wizards
  BY DEF Typed, WizTypeOK
<1> USE <1>0
<1>1. CASE Open
  <2>1. /\ UNCHANGED <<rows, minted, cache, fetch, puts, dialog>>
        /\ UNCHANGED <<clients, rules, portal, bridge, unheard>>
    BY <1>1 DEF Open, pageVars, dialog
  <2>2. wiz' \in WizType /\ wiz'.client = wiz.client
    BY <1>1 DEF Open, WizType
  <2>3. opened' \in 0..MaxOpens /\ opened' # 0
    BY <1>1, WizardAssumption DEF Open
  <2> QED
    BY <2>1, <2>2, <2>3, DialogKept
<1>2. CASE Close
  <2>1. /\ UNCHANGED <<rows, minted, cache, fetch, puts, dialog>>
        /\ UNCHANGED <<clients, rules, portal, bridge, unheard, opened>> /\ wiz' = Closed
    BY <1>2 DEF Close, Unmount, pageVars, dialog
  <2>2. Len(clients) \in Nat
    OBVIOUS
  <2> QED
    BY <2>1, <2>2, BlankWizard, DialogKept
<1>3. CASE PickRole \/ NextStep \/ Back \/ Fill \/ Import \/ EditLink
  <2>1. /\ UNCHANGED <<rows, minted, cache, fetch, puts, dialog>>
        /\ UNCHANGED <<clients, rules, portal, bridge, unheard, opened>> /\ wiz.open
    BY <1>3 DEF PickRole, NextStep, Back, Fill, Import, EditLink, Page, Turn, pageVars, dialog
  <2>2. wiz' \in WizType /\ wiz'.client = wiz.client
    <3>1. CASE PickRole
      BY <3>1 DEF PickRole, Page, Turn, WizType
    <3>2. CASE NextStep \/ Back
      BY <3>2 DEF NextStep, Back, Page, Turn, WizType
    <3>3. CASE Import
      BY <3>3 DEF Import, Page, Turn, WizType
    <3>4. CASE EditLink
      BY <3>4 DEF EditLink, Page, Turn, WizType
    <3>5. CASE Fill
      <4>1. PICK n \in Names, t \in Tags, m \in Modes :
               Turn(1, [wiz EXCEPT !.name = n, !.tag = t, !.mode = m,
                                   !.apart = @ \/ wiz.client # 0 \/ portal[opened].st # "idle"])
        BY <3>5 DEF Fill
      <4> DEFINE apart == wiz.apart \/ wiz.client # 0 \/ portal[opened].st # "idle"
      <4>2. wiz' = [wiz EXCEPT !.name = n, !.tag = t, !.mode = m, !.apart = apart]
        BY <4>1 DEF Turn
      <4>3. apart \in BOOLEAN
        OBVIOUS
      <4> HIDE DEF apart
      <4> QED
        BY <4>2, <4>3 DEF WizType
    <3> QED
      BY <1>3, <3>1, <3>2, <3>3, <3>4, <3>5
  <2> QED
    BY <2>1, <2>2, DialogKept
<1> QED
  BY <1>1, <1>2, <1>3

\* What a step of a createPortal attempt may leave behind.
LEMMA PortalKept ==
    ASSUME Typed, UNCHANGED <<rows, minted, cache, fetch, puts, dialog, opened, bridge>>,
           NEW w \in Wizards, NEW p \in PortalType, Portal(w, p),
           clients' \in Seq(Client), rules' \in Seq(Rule),
           Len(clients) <= Len(clients'), p.client <= Len(clients'),
           wiz' \in WizType, wiz'.client <= Len(clients'), wiz'.open = wiz.open,
           unheard' \subseteq Wizards
    PROVE  Typed'
<1> USE DEF Typed, WizTypeOK
<1>1. PageTypeOK'
  BY PageKept
<1>2. /\ portal' \in [Wizards -> PortalType]
      /\ \A q \in Wizards : portal'[q].client <= Len(clients')
  <2>0. portal' = [portal EXCEPT ![w] = p]
    BY DEF Portal
  <2>1. ASSUME NEW q \in Wizards PROVE portal'[q].client <= Len(clients')
    <3>1. portal[q].client \in Nat /\ Len(clients) \in Nat /\ Len(clients') \in Nat
      BY DEF PortalType
    <3>2. CASE q = w
      BY <2>0, <3>2
    <3>3. CASE q # w
      BY <2>0, <3>1, <3>3
    <3> QED
      BY <3>2, <3>3
  <2> QED
    BY <2>0, <2>1
<1> QED
  BY <1>1, <1>2 DEF BridgeType

LEMMA CreatePortalTyped ==
    ASSUME Typed, CreatePortal
    PROVE  Typed'
<1>0. /\ clients \in Seq(Client) /\ rules \in Seq(Rule) /\ Len(clients) \in Nat
      /\ wiz \in WizType /\ wiz.client <= Len(clients)
      /\ opened \in 0..MaxOpens /\ (wiz.open => opened # 0)
      /\ portal \in [Wizards -> PortalType]
      /\ \A v \in Wizards : portal[v].client <= Len(clients)
      /\ unheard \subseteq Wizards
  BY DEF Typed, WizTypeOK
<1> USE <1>0
<1> DEFINE p == [st |-> IF wiz.client = 0 THEN "post" ELSE AfterClient(wiz.mode, wiz.ruled),
                 name |-> wiz.name, tag |-> wiz.tag, mode |-> wiz.mode, client |-> wiz.client,
                 body |-> <<>>]
           apart == wiz.apart \/ \E w \in Wizards : portal[w].st # "idle"
<1>1. /\ UNCHANGED <<rows, minted, cache, fetch, puts, dialog, clients, rules, opened, bridge, unheard>>
      /\ wiz.open /\ Portal(opened, p)
      /\ wiz' = [wiz EXCEPT !.apart = apart]
  BY DEF CreatePortal, Portal
<1>2. p \in PortalType /\ p.client = wiz.client
  BY DEF PortalType, WizType, AfterClient
<1>3. wiz' \in WizType /\ wiz'.client = wiz.client /\ wiz'.open = wiz.open
  BY <1>1 DEF WizType
<1> HIDE DEF p, apart
<1>4. opened \in Wizards
  BY <1>1, WizardAssumption DEF Wizards
<1>5. Len(clients) <= Len(clients') /\ wiz'.client <= Len(clients') /\ p.client <= Len(clients')
      /\ clients' \in Seq(Client) /\ rules' \in Seq(Rule)
      /\ unheard' \subseteq Wizards
  BY <1>1, <1>2, <1>3
<1> QED
  BY <1>1, <1>2, <1>3, <1>4, <1>5, PortalKept

LEMMA PortalTyped ==
    ASSUME Typed, NEW w \in Wizards,
           \/ TagChecked(w) \/ ClientStored(w) \/ ClientRefused(w) \/ ClientAnswered(w)
           \/ RulesRead(w) \/ RulesStored(w) \/ RulesRefused(w) \/ RulesAnswered(w)
           \/ LinkAnswered(w) \/ PortalLost(w)
    PROVE  Typed'
<1>0. /\ clients \in Seq(Client) /\ rules \in Seq(Rule) /\ Len(clients) \in Nat
      /\ wiz \in WizType /\ wiz.client <= Len(clients)
      /\ opened \in 0..MaxOpens /\ (wiz.open => opened # 0)
      /\ portal \in [Wizards -> PortalType]
      /\ \A v \in Wizards : portal[v].client <= Len(clients)
      /\ unheard \subseteq Wizards
  BY DEF Typed, WizTypeOK
<1> USE <1>0
<1>1. /\ UNCHANGED <<rows, minted, cache, fetch, puts, dialog, opened, bridge>>
      /\ unheard' \subseteq Wizards
  BY DEF TagChecked, ClientStored, ClientRefused, ClientAnswered, RulesRead, RulesStored, RulesRefused,
         RulesAnswered, LinkAnswered, PortalLost, Elsewhere, pageVars, dialog
<1>2. portal[w] \in PortalType /\ Len(clients) \in Nat
  OBVIOUS
<1>10. CASE TagChecked(w)
  <2> DEFINE p == [portal[w] EXCEPT !.st = "checked"]
  <2>1. UNCHANGED <<clients, rules, wiz>> /\ Portal(w, p)
    BY <1>10 DEF TagChecked
  <2>2. p \in PortalType /\ p.client = portal[w].client
    BY <1>2 DEF PortalType
  <2> HIDE DEF p
  <2> QED
    BY <1>1, <1>2, <2>1, <2>2, PortalKept
<1>3. CASE ClientStored(w)
  <2> DEFINE c == [name |-> portal[w].name, tag |-> portal[w].tag, by |-> w]
             p == [portal[w] EXCEPT !.st = "posted", !.client = Len(clients) + 1]
  <2>1. /\ clients' = Append(clients, c) /\ UNCHANGED <<rules, wiz>>
        /\ Portal(w, p)
    BY <1>3 DEF ClientStored
  <2>2. c \in Client
    BY <1>2 DEF Client, PortalType
  <2>3. p \in PortalType /\ p.client = Len(clients) + 1
    <3>1. Len(clients) + 1 \in Nat
      BY <1>2
    <3> QED
      BY <1>2, <3>1 DEF PortalType
  <2> HIDE DEF c, p
  <2>4. clients' \in Seq(Client) /\ Len(clients') = Len(clients) + 1
    BY <2>1, <2>2
  <2>5. wiz.client <= Len(clients')
    BY <2>4 DEF WizType
  <2> QED
    BY <1>1, <1>2, <2>1, <2>3, <2>4, <2>5, PortalKept
<1>4. CASE ClientRefused(w) \/ RulesRefused(w) \/ PortalLost(w)
  <2>1. UNCHANGED <<clients, rules, wiz>> /\ Portal(w, NoPortal)
    BY <1>4 DEF ClientRefused, RulesRefused, PortalLost
  <2> QED
    BY <1>1, <1>2, <2>1, BlankWizard, PortalKept
<1>5. CASE ClientAnswered(w)
  <2> DEFINE p == [portal[w] EXCEPT !.st = AfterClient(portal[w].mode, FALSE)]
  <2>1. /\ UNCHANGED <<clients, rules>> /\ Portal(w, p)
        /\ wiz' = IF Live(w) THEN [wiz EXCEPT !.client = portal[w].client] ELSE wiz
    BY <1>5 DEF ClientAnswered
  <2>2. p \in PortalType /\ p.client = portal[w].client
    BY <1>2 DEF PortalType, AfterClient
  <2>3. wiz' \in WizType /\ wiz'.client <= Len(clients) /\ wiz'.open = wiz.open
    BY <1>2, <2>1 DEF WizType, PortalType
  <2> HIDE DEF p
  <2> QED
    BY <1>1, <1>2, <2>1, <2>2, <2>3, PortalKept
<1>6. CASE RulesRead(w)
  <2> DEFINE r == [to |-> portal[w].tag, by |-> w]
             p == [portal[w] EXCEPT !.st = "put", !.body = Append(rules, r)]
  <2>1. UNCHANGED <<clients, rules, wiz>> /\ Portal(w, p)
    BY <1>6 DEF RulesRead
  <2>2. r \in Rule
    BY <1>2 DEF Rule, PortalType
  <2> HIDE DEF r
  <2>3. Append(rules, r) \in Seq(Rule)
    BY <2>2
  <2>4. p \in PortalType /\ p.client = portal[w].client
    BY <1>2, <2>3 DEF PortalType
  <2> HIDE DEF p
  <2> QED
    BY <1>1, <1>2, <2>1, <2>4, PortalKept
<1>7. CASE RulesStored(w)
  <2> DEFINE p == [portal[w] EXCEPT !.st = "ruled", !.body = <<>>]
  <2>1. /\ UNCHANGED <<clients, wiz>> /\ rules' = portal[w].body
        /\ Portal(w, p)
    BY <1>7 DEF RulesStored
  <2>2. rules' \in Seq(Rule)
    BY <1>2, <2>1 DEF PortalType
  <2>3. <<>> \in Seq(Rule)
    OBVIOUS
  <2>4. p \in PortalType /\ p.client = portal[w].client
    BY <1>2, <2>3 DEF PortalType
  <2> HIDE DEF p
  <2> QED
    BY <1>1, <1>2, <2>1, <2>2, <2>4, PortalKept
<1>8. CASE RulesAnswered(w)
  <2> DEFINE p == [portal[w] EXCEPT !.st = "link"]
  <2>1. UNCHANGED <<clients, rules>> /\ Portal(w, p)
    BY <1>8 DEF RulesAnswered
  <2>2. p \in PortalType /\ p.client = portal[w].client
    BY <1>2 DEF PortalType
  <2>3. wiz' \in WizType /\ wiz'.client <= Len(clients) /\ wiz'.open = wiz.open
    BY <1>8 DEF RulesAnswered, MarkRuled, WizType
  <2> HIDE DEF p
  <2> QED
    BY <1>1, <1>2, <2>1, <2>2, <2>3, PortalKept
<1>9. CASE LinkAnswered(w)
  <2>1. /\ UNCHANGED <<clients, rules>> /\ Portal(w, NoPortal)
        /\ wiz' = IF Live(w) THEN [wiz EXCEPT !.step = 2, !.invite = portal[w].client] ELSE wiz
    BY <1>9 DEF LinkAnswered
  <2>2. wiz' \in WizType /\ wiz'.client <= Len(clients) /\ wiz'.open = wiz.open
    <3>1. CASE Live(w)
      <4>1. wiz' = [wiz EXCEPT !.step = 2, !.invite = portal[w].client]
        BY <2>1, <3>1
      <4>2. portal[w].client \in Nat
        BY <1>2 DEF PortalType
      <4> DEFINE step == 2
                 invite == portal[w].client
      <4>3. step \in 0..2 /\ invite \in Nat /\ wiz' = [wiz EXCEPT !.step = step, !.invite = invite]
        BY <4>1, <4>2
      <4> HIDE DEF step, invite
      <4> QED
        BY <4>3 DEF WizType
    <3>2. CASE ~Live(w)
      BY <2>1, <3>2
    <3> QED
      BY <3>1, <3>2
  <2> QED
    BY <1>1, <1>2, <2>1, <2>2, BlankWizard, PortalKept
<1> QED
  BY <1>3, <1>4, <1>5, <1>6, <1>7, <1>8, <1>9, <1>10
\* What a step of a createBridge attempt may leave behind.
LEMMA BridgeKept ==
    ASSUME Typed, UNCHANGED <<clients, rules, opened, portal, unheard>>,
           PageTypeOK', minted \subseteq minted',
           NEW w \in Wizards, NEW b \in BridgeType', Bridge(w, b), Known(minted', b.body),
           wiz' \in WizType, wiz'.client = wiz.client, wiz'.open = wiz.open
    PROVE  Typed'
<1>1. bridge' = [bridge EXCEPT ![w] = b] /\ bridge \in [Wizards -> BridgeType]
  BY DEF Bridge, Typed, WizTypeOK
<1>2. BridgeType \subseteq BridgeType'
  BY DEF BridgeType
<1>3. bridge' \in [Wizards -> BridgeType']
  BY <1>1, <1>2
<1>4. \A q \in Wizards : Known(minted', bridge'[q].body)
  BY <1>1, KnownGrows DEF Typed, WizTypeOK
<1> QED
  BY <1>3, <1>4 DEF Typed, WizTypeOK

LEMMA BridgeTyped ==
    ASSUME Typed,
           CreateBridge \/ \E w \in Wizards : \/ BridgeRead(w) \/ BridgeStored(w) \/ BridgeRefused(w)
                                              \/ BridgeAnswered(w) \/ BridgeLost(w)
    PROVE  Typed'
<1>0. /\ wiz \in WizType /\ opened \in 0..MaxOpens /\ (wiz.open => opened # 0)
      /\ bridge \in [Wizards -> BridgeType] /\ \A w \in Wizards : Known(minted, bridge[w].body)
      /\ Known(minted, rows) /\ 1 \in minted
  BY DEF Typed, WizTypeOK, PageTypeOK
<1>1. CASE CreateBridge
  <2> DEFINE b == [st |-> "get", id |-> FreshId, tag |-> wiz.local, body |-> NoList]
  <2>1. /\ UNCHANGED <<rows, cache, fetch, puts, dialog, clients, rules, wiz, opened, portal, unheard>>
        /\ wiz.open /\ Bridge(opened, b) /\ minted' = minted \cup {FreshId}
    BY <1>1 DEF CreateBridge
  <2>2. minted \subseteq minted' /\ FreshId \in minted'
    BY <2>1
  <2>3. wiz.local \in Tags
    BY <1>0, OutboundsAssumption DEF WizType
  <2>4. b \in BridgeType' /\ b.body = NoList
    BY <2>2, <2>3, BlankRows DEF BridgeType
  <2>5. Known(minted', NoList)
    BY <2>2, BlankRows, KnownGrows
  <2>6. PageTypeOK'
    BY <2>1, <2>2, KnownGrows DEF Typed, PageTypeOK, Storable, dialog
  <2>7. opened \in Wizards /\ wiz' \in WizType
    BY <1>0, <2>1, WizardAssumption DEF Wizards
  <2> HIDE DEF b
  <2> QED
    BY <2>1, <2>2, <2>4, <2>5, <2>6, <2>7, BridgeKept
<1>2. ASSUME NEW w \in Wizards, BridgeRead(w) PROVE Typed'
  <2> DEFINE row  == Named(bridge[w].tag, TRUE, TRUE)
             body == [rows EXCEPT ![bridge[w].id] = row]
             b    == [bridge[w] EXCEPT !.st = "put", !.body = body]
  <2>1. UNCHANGED <<pageVars, clients, rules, wiz, opened, portal, unheard>> /\ Bridge(w, b)
    BY <1>2 DEF BridgeRead
  <2>2. bridge[w] \in BridgeType
    BY <1>0
  <2>3. row \in Row
    BY <2>2 DEF Named, Row, BridgeType
  <2> HIDE DEF row
  <2>4. body \in Lists /\ \A i \in Ids : body[i].here => (rows[i].here \/ i = bridge[w].id)
    BY <1>0, <2>3 DEF Lists, Known
  <2>5. Known(minted, body)
    BY <1>0, <2>2, <2>4 DEF Known, BridgeType
  <2> HIDE DEF body
  <2>6. b \in BridgeType /\ b.body = body
    BY <2>2, <2>4 DEF BridgeType
  <2>7. minted' = minted /\ PageTypeOK'
    BY <2>1, PageKept DEF pageVars, dialog, Typed
  <2>8. b \in BridgeType'
    BY <2>6, <2>7 DEF BridgeType
  <2> HIDE DEF b
  <2> QED
    BY <1>0, <2>1, <2>5, <2>6, <2>7, <2>8, BridgeKept
<1>3. ASSUME NEW w \in Wizards, BridgeStored(w) PROVE Typed'
  <2> DEFINE b == [bridge[w] EXCEPT !.st = "done"]
  <2>1. /\ UNCHANGED <<minted, cache, fetch, puts, dialog, clients, rules, wiz, opened, portal, unheard>>
        /\ Bridge(w, b) /\ rows' = bridge[w].body /\ Storable(rows')
    BY <1>3 DEF BridgeStored
  <2>2. b \in BridgeType /\ b.body = bridge[w].body
    BY <1>0 DEF BridgeType
  <2>3. b \in BridgeType'
    BY <2>1, <2>2 DEF BridgeType
  <2>4. PageTypeOK'
    BY <1>0, <2>1 DEF Typed, PageTypeOK, Storable, dialog
  <2> HIDE DEF b
  <2> QED
    BY <1>0, <2>1, <2>2, <2>3, <2>4, BridgeKept
<1>4. ASSUME NEW w \in Wizards, BridgeRefused(w) \/ BridgeAnswered(w) \/ BridgeLost(w) PROVE Typed'
  <2>1. /\ UNCHANGED <<rows, minted, cache, puts, dialog, clients, rules, opened, portal, unheard>>
        /\ Bridge(w, NoBridge) /\ (fetch' = fetch \/ fetch' = Asked)
    BY <1>4 DEF BridgeRefused, BridgeAnswered, BridgeLost, ListTold, Invalidate, pageVars, dialog
  <2>2. NoBridge \in BridgeType' /\ NoBridge.body = NoList
    BY <1>0, <2>1, BlankWizard DEF BridgeType
  <2>3. PageTypeOK'
    BY <2>1, BlankRows DEF Typed, PageTypeOK, Storable, dialog
  <2>4. wiz' \in WizType /\ wiz'.client = wiz.client /\ wiz'.open = wiz.open
    <3>1. wiz' = wiz \/ wiz' = [wiz EXCEPT !.step = 2]
      BY <1>4 DEF BridgeRefused, BridgeAnswered, BridgeLost
    <3> QED
      BY <1>0, <3>1 DEF WizType
  <2>5. Known(minted', NoBridge.body) /\ minted \subseteq minted'
    BY <2>1, <2>2, BlankRows
  <2> QED
    BY <2>1, <2>2, <2>3, <2>4, <2>5, BridgeKept
<1> QED
  BY <1>1, <1>2, <1>3, <1>4

LEMMA StepTyped == Typed /\ [Next]_vars => Typed'
<1> SUFFICES ASSUME Typed, [Next]_vars PROVE Typed'
  OBVIOUS
<1>1. CASE PageStep
  BY <1>1, PageStepTyped
<1>2. CASE Open \/ Close \/ PickRole \/ NextStep \/ Back \/ Fill \/ Import \/ EditLink
  BY <1>2, DialogTyped
<1>3. CASE CreatePortal
  BY <1>3, CreatePortalTyped
<1>4. ASSUME NEW w \in Wizards,
             \/ TagChecked(w) \/ ClientStored(w) \/ ClientRefused(w) \/ ClientAnswered(w)
             \/ RulesRead(w) \/ RulesStored(w) \/ RulesRefused(w) \/ RulesAnswered(w)
             \/ LinkAnswered(w) \/ PortalLost(w)
      PROVE  Typed'
  BY <1>4, PortalTyped
<1>5. CASE CreateBridge \/ \E w \in Wizards : \/ BridgeRead(w) \/ BridgeStored(w) \/ BridgeRefused(w)
                                              \/ BridgeAnswered(w) \/ BridgeLost(w)
  BY <1>5, BridgeTyped
<1>6. CASE UNCHANGED vars
  <2>1. UNCHANGED <<rows, minted, cache, fetch, puts, dialog, clients, rules, wiz, opened, portal,
                    bridge, unheard>>
    BY <1>6 DEF vars, pageVars, wizardVars, dialog
  <2> QED
    BY <2>1, PageKept DEF Typed, WizTypeOK, BridgeType
<1> QED
  BY <1>1, <1>2, <1>3, <1>4, <1>5, <1>6 DEF Next

LEMMA SpecTyped == Spec => []Typed
BY InitTyped, StepTyped, PTL DEF Spec

LEMMA SmallSingle == \A S : Single(S) => Cardinality(S) <= 1
BY FS_EmptySet, FS_Singleton DEF Single

\* No two stored outbounds ever share a tag, whichever of the copies of the list
\* was stored last (validate_outbounds), and every copy is of known outbounds.
THEOREM TypeCorrect == Spec => []TypeOK
<1>1. Typed => TypeOK
  <2> SUFFICES ASSUME Typed PROVE TypeOK
    OBVIOUS
  <2>1. rows \in [Ids -> Row]
    BY DEF Typed, PageTypeOK, Known, Lists
  <2>2. \A i \in Ids : rows[i].here => i \in minted /\ \A j \in Ids \ {i} :
                                                rows[j].here => rows[j].tag # rows[i].tag
    BY DEF Typed, PageTypeOK, Known, Storable
  <2>3. Cardinality(cache) <= 1 /\ Cardinality(editing) <= 1
    BY SmallSingle DEF Typed, PageTypeOK, Copies
  <2>4. wiz.client \in 0..Len(clients) /\ wiz.step \in 0..2
    <3>1. clients \in Seq(Client) /\ wiz.client \in Nat /\ wiz.client <= Len(clients) /\ wiz.step \in 0..2
      BY DEF Typed, WizTypeOK, WizType
    <3>2. Len(clients) \in Nat
      BY <3>1
    <3> QED
      BY <3>1, <3>2
  <2> QED
    BY <2>1, <2>2, <2>3, <2>4 DEF TypeOK
<1> QED
  BY <1>1, SpecTyped, PTL

-----------------------------------------------------------------------------
(* The list on screen.                                                      *)

\* While no answer or refetch was lost: the list is asked for, or something is
\* under way that will ask for it, or what is on its way or on screen is the list.
Owed ==
    \/ fetch.st = "asked"
    \/ \E k \in Puts : \/ puts[k].st = "done"
                       \/ puts[k].st = "sent" /\ puts[k].kind = "toggle"
    \/ \E w \in Wizards : bridge[w].st = "done"
InStep ==
    \/ fetch.st = "read" /\ fetch.list = {rows}
    \/ fetch.st = "idle" /\ cache = {rows}

Followed == seen = {} => (Owed \/ InStep)

\* Steps that leave the list, its copy and its request alone, and end nothing
\* that was to ask for it.
LEMMA FollowQuiet ==
    ASSUME Followed, UNCHANGED <<rows, cache, fetch>>, seen \subseteq seen',
           (seen' = {} /\ Owed) => Owed'
    PROVE  Followed'
BY DEF Followed, InStep

\* A list that is settled: a switch, and one that was stored, asks again.
LEMMA SettleFollows ==
    ASSUME Typed, Followed, NEW k \in Puts, NEW ok \in BOOLEAN, Settle(k, ok), UNCHANGED bridge,
           seen \subseteq seen', (puts[k].st = "done" /\ ~ok /\ puts[k].kind # "toggle") => seen' # {},
           ok => puts[k].st = "done"
    PROVE  Followed'
<1>1. CASE puts[k].kind = "toggle" \/ ok
  BY <1>1 DEF Settle, Invalidate, Asked, Followed, Owed
<1>2. CASE puts[k].kind # "toggle" /\ ~ok
  <2>1. UNCHANGED <<rows, cache, fetch>> /\ \A q \in Puts \ {k} : puts'[q] = puts[q]
    BY <1>2 DEF Settle, Typed, PageTypeOK
  <2>2. (seen' = {} /\ Owed) => Owed'
    BY <1>2, <2>1 DEF Owed
  <2> QED
    BY <2>1, <2>2, FollowQuiet
<1> QED
  BY <1>1, <1>2

LEMMA PageFollows ==
    ASSUME Typed, Followed, PageStep
    PROVE  Followed'
<1>0. bridge' = bridge /\ puts \in [Puts -> PutType] /\ fetch.st \in {"idle", "asked", "read"}
  BY DEF PageStep, wizardVars, Typed, PageTypeOK
<1>1. CASE ListAnswered
  BY <1>1 DEF ListAnswered, Followed, InStep
<1>2. CASE ListDelivered
  <2>1. /\ UNCHANGED <<rows, puts, seen>> /\ fetch.st = "read"
        /\ cache' = fetch.list /\ fetch'.st = "idle"
    BY <1>2 DEF ListDelivered, Idle, Calm
  <2>2. Owed => Owed'
    BY <1>0, <2>1 DEF Owed
  <2>3. InStep => InStep'
    BY <2>1 DEF InStep
  <2> QED
    BY <2>1, <2>2, <2>3 DEF Followed
<1>3. CASE ListFails
  BY <1>3 DEF ListFails, Suffer, Followed
<1>4. ASSUME NEW k \in Puts, PutStored(k) PROVE Followed'
  BY <1>0, <1>4 DEF PutStored, Followed, Owed
<1>5. ASSUME NEW k \in Puts, PutRefused(k) PROVE Followed'
  BY <1>0, <1>5, SettleFollows DEF PutRefused, Calm
<1>6. ASSUME NEW k \in Puts, PutAnswered(k) PROVE Followed'
  BY <1>0, <1>6, SettleFollows DEF PutAnswered, Calm
<1>7. ASSUME NEW k \in Puts, PutLost(k) PROVE Followed'
  BY <1>0, <1>7, SettleFollows DEF PutLost, Suffer
<1>8. ASSUME NEW k \in Puts, NEW i \in Ids, Toggle(k, i) PROVE Followed'
  <2>1. puts'[k].st = "sent" /\ puts'[k].kind = "toggle"
    BY <1>0, <1>8 DEF Toggle, Send
  <2> QED
    BY <2>1 DEF Followed, Owed
<1>9. ASSUME NEW k \in Puts, puts[k].st = "idle", UNCHANGED <<rows, cache, fetch, seen>>,
             \A q \in Puts \ {k} : puts'[q] = puts[q]
      PROVE  Followed'
  <2>1. Owed => Owed'
    BY <1>0, <1>9 DEF Owed
  <2> QED
    BY <1>9, <2>1, FollowQuiet
<1>10. ASSUME NEW k \in Puts, NEW i \in Ids, Delete(k, i) PROVE Followed'
  <2>1. puts[k].st = "idle" /\ UNCHANGED <<rows, cache, fetch, seen>> /\ \A q \in Puts \ {k} : puts'[q] = puts[q]
    BY <1>0, <1>10 DEF Delete, Send, Click
  <2> QED
    BY <1>9, <2>1
<1>11. CASE SaveEdit \/ SaveNew
  <2>1. puts[0].st = "idle" /\ UNCHANGED <<rows, cache, fetch, seen>> /\ \A q \in Puts \ {0} : puts'[q] = puts[q]
    BY <1>0, <1>11 DEF SaveEdit, SaveNew, Send, Click
  <2> QED
    BY <1>9, <2>1, BlankRows
<1>12. CASE (\E i \in Ids : OpenEdit(i)) \/ OpenCreate \/ Edit \/ Cancel
  BY <1>0, <1>12, FollowQuiet DEF OpenEdit, OpenCreate, OpenForm, Edit, Cancel, Click, Calm, Owed
<1> QED
  BY <1>1, <1>2, <1>3, <1>4, <1>5, <1>6, <1>7, <1>8, <1>10, <1>11, <1>12
     DEF PageStep, PageWork, PageClicks

LEMMA StepFollowed == Typed /\ Followed /\ [Next]_vars => Followed'
<1> SUFFICES ASSUME Typed, Followed, [Next]_vars PROVE Followed'
  OBVIOUS
<1>0. bridge \in [Wizards -> BridgeType]
  BY DEF Typed, WizTypeOK
<1>1. CASE PageStep
  BY <1>1, PageFollows
<1>2. CASE Open \/ Close \/ PickRole \/ NextStep \/ Back \/ Fill \/ Import \/ EditLink \/ CreatePortal
  <2>1. UNCHANGED <<rows, cache, fetch, puts, seen, bridge>>
    BY <1>2 DEF Open, Close, PickRole, NextStep, Back, Fill, Import, EditLink, Page, Turn, CreatePortal,
                pageVars, Click
  <2> QED
    BY <2>1, FollowQuiet DEF Owed
<1>3. ASSUME NEW w \in Wizards,
             \/ TagChecked(w) \/ ClientStored(w) \/ ClientRefused(w) \/ ClientAnswered(w)
             \/ RulesRead(w) \/ RulesStored(w) \/ RulesRefused(w) \/ RulesAnswered(w)
             \/ LinkAnswered(w) \/ PortalLost(w)
      PROVE  Followed'
  <2>1. UNCHANGED <<rows, cache, fetch, puts, bridge>> /\ seen \subseteq seen'
    BY <1>3 DEF TagChecked, ClientStored, ClientRefused, ClientAnswered, RulesRead, RulesStored, RulesRefused,
                RulesAnswered, LinkAnswered, PortalLost, Elsewhere, pageVars, Suffer
  <2> QED
    BY <2>1, FollowQuiet DEF Owed
<1>4. CASE CreateBridge
  <2>1. UNCHANGED <<rows, cache, fetch, puts, seen>> /\ bridge[opened].st = "idle"
        /\ \A w \in Wizards \ {opened} : bridge'[w] = bridge[w]
    BY <1>0, <1>4 DEF CreateBridge, Bridge, Click
  <2>2. Owed => Owed'
    BY <2>1 DEF Owed
  <2> QED
    BY <2>1, <2>2, FollowQuiet
<1>5. ASSUME NEW w \in Wizards, BridgeRead(w) \/ BridgeRefused(w) PROVE Followed'
  <2>1. UNCHANGED <<rows, cache, fetch, puts, seen>> /\ bridge[w].st # "done"
        /\ \A v \in Wizards \ {w} : bridge'[v] = bridge[v]
    BY <1>0, <1>5 DEF BridgeRead, BridgeRefused, Bridge, pageVars
  <2>2. Owed => Owed'
    BY <2>1 DEF Owed
  <2> QED
    BY <2>1, <2>2, FollowQuiet
<1>6. ASSUME NEW w \in Wizards, BridgeStored(w) PROVE Followed'
  <2>1. bridge'[w].st = "done"
    BY <1>0, <1>6 DEF BridgeStored, Bridge, BridgeType
  <2> QED
    BY <2>1 DEF Followed, Owed
<1>7. ASSUME NEW w \in Wizards, BridgeAnswered(w) PROVE Followed'
  BY <1>7 DEF BridgeAnswered, ListTold, Invalidate, Asked, Followed, Owed
<1>8. ASSUME NEW w \in Wizards, BridgeLost(w) PROVE Followed'
  <2>1. /\ UNCHANGED <<rows, cache, fetch, puts>> /\ seen \subseteq seen'
        /\ (bridge[w].st = "done" => seen' # {})
        /\ \A v \in Wizards \ {w} : bridge'[v] = bridge[v]
    BY <1>0, <1>8 DEF BridgeLost, Suffer, Bridge
  <2>2. (seen' = {} /\ Owed) => Owed'
    BY <2>1 DEF Owed
  <2> QED
    BY <2>1, <2>2, FollowQuiet
<1>9. CASE UNCHANGED vars
  BY <1>9, FollowQuiet DEF vars, pageVars, wizardVars, Owed
<1> QED
  BY <1>1, <1>2, <1>3, <1>4, <1>5, <1>6, <1>7, <1>8, <1>9 DEF Next

LEMMA SpecFollowed == Spec => []Followed
<1>1. Init => Followed
  BY DEF Init, PageInit, Asked, Followed, Owed
<1> QED
  BY <1>1, SpecTyped, StepFollowed, PTL DEF Spec

\* With nothing under way and no answer or refetch lost, the list shown is the
\* list stored, however switches, saves, rollbacks and the wizard's own write
\* overlapped (pages/Outbounds/index.tsx).
THEOREM QuietIsCurrent == Spec => []QuietListCurrent
<1>1. Followed => QuietListCurrent
  BY DEF Followed, QuietListCurrent, Quiet, Owed, InStep
<1> QED
  BY <1>1, SpecFollowed, PTL

-----------------------------------------------------------------------------
(* The wizard and its attempt.                                              *)

\* Where an attempt stands and what the wizard's two markers say: they are set
\* by the attempt of the wizard on screen, and a later attempt starts from them.
Marked ==
    /\ ~wiz.open => wiz = Closed
    /\ \A w \in Wizards : /\ w > opened => portal[w].st = "idle"
                          /\ portal[w].st # "put" => portal[w].body = <<>>
                          /\ portal[w].st \notin {"idle", "post", "checked"} => portal[w].client # 0
    /\ wiz.ruled => wiz.client # 0
    /\ wiz.invite # 0 => wiz.step = 2
    /\ (wiz.open /\ portal[opened].st \in {"post", "checked", "posted"}) => wiz.client = 0
    /\ (wiz.open /\ portal[opened].st \in {"get", "put", "ruled"}) => (wiz.client # 0 /\ ~wiz.ruled)
    /\ (wiz.open /\ portal[opened].st = "link")
          => (wiz.client # 0 /\ (portal[opened].mode = "none" \/ wiz.ruled))

LEMMA PortalMoved ==
    ASSUME Typed, NEW w \in Wizards, NEW p, Portal(w, p)
    PROVE  portal'[w] = p /\ \A v \in Wizards \ {w} : portal'[v] = portal[v]
BY DEF Typed, WizTypeOK, Portal

LEMMA Basics ==
    ASSUME Typed
    PROVE  /\ wiz \in WizType /\ opened \in Nat /\ Wizards \subseteq Nat
           /\ wiz.open => opened \in Wizards
           /\ portal \in [Wizards -> PortalType] /\ \A w \in Wizards : portal[w] \in PortalType
           /\ Len(clients) \in Nat /\ clients \in Seq(Client) /\ rules \in Seq(Rule)
BY WizardAssumption DEF Typed, WizTypeOK, Wizards

\* The steps of the requests, in one form: the attempt's next value and what the
\* wizard on screen hears.
PortalSteps(w) ==
    \/ TagChecked(w) \/ ClientStored(w) \/ ClientRefused(w) \/ ClientAnswered(w)
    \/ RulesRead(w) \/ RulesStored(w) \/ RulesRefused(w) \/ RulesAnswered(w)
    \/ LinkAnswered(w) \/ PortalLost(w)

\* Steps of the page, of the bridge, and a wizard's last page.
Beside ==
    /\ UNCHANGED <<clients, rules, opened, portal, unheard>>
    /\ wiz' = wiz \/ (wiz.open /\ wiz' = [wiz EXCEPT !.step = 2])

LEMMA BesideSteps ==
    ASSUME PageStep \/ CreateBridge \/ (\E w \in Wizards : \/ BridgeRead(w) \/ BridgeStored(w) \/ BridgeRefused(w)
                                                         \/ BridgeAnswered(w) \/ BridgeLost(w))
           \/ UNCHANGED vars
    PROVE  Beside
BY DEF PageStep, CreateBridge, BridgeRead, BridgeStored, BridgeRefused, BridgeAnswered, BridgeLost, Live,
       vars, wizardVars, Beside

LEMMA FillStep ==
    ASSUME Typed, Fill
    PROVE  /\ UNCHANGED <<clients, rules, opened, portal, unheard>> /\ wiz.open /\ wiz.step = 1
           /\ \E n \in Names, t \in Tags, m \in Modes, a \in BOOLEAN :
                 /\ wiz' = [wiz EXCEPT !.name = n, !.tag = t, !.mode = m, !.apart = a]
                 /\ a <=> (wiz.apart \/ wiz.client # 0 \/ portal[opened].st # "idle")
<1>1. PICK n \in Names, t \in Tags, m \in Modes :
         Turn(1, [wiz EXCEPT !.name = n, !.tag = t, !.mode = m,
                             !.apart = @ \/ wiz.client # 0 \/ portal[opened].st # "idle"])
  BY DEF Fill
<1> DEFINE a == wiz.apart \/ wiz.client # 0 \/ portal[opened].st # "idle"
<1>2. wiz' = [wiz EXCEPT !.name = n, !.tag = t, !.mode = m, !.apart = a]
  BY <1>1 DEF Turn
<1>3. a \in BOOLEAN /\ (a <=> (wiz.apart \/ wiz.client # 0 \/ portal[opened].st # "idle"))
  BY Basics DEF WizType
<1>4. UNCHANGED <<clients, rules, opened, portal, unheard>> /\ wiz.open /\ wiz.step = 1
  BY <1>1 DEF Turn
<1> HIDE DEF a
<1> QED
  BY <1>2, <1>3, <1>4

\* The other steps of the dialog leave what the operator typed and the markers.
LEMMA DialogStep ==
    ASSUME Typed, PickRole \/ NextStep \/ Back \/ Import \/ EditLink
    PROVE  /\ UNCHANGED <<clients, rules, opened, portal, unheard>>
           /\ wiz.open /\ wiz.step \in {0, 1} /\ wiz'.step \in {0, 1} /\ wiz' \in WizType
           /\ wiz'.open /\ wiz'.name = wiz.name /\ wiz'.tag = wiz.tag /\ wiz'.mode = wiz.mode
           /\ wiz'.client = wiz.client /\ wiz'.ruled = wiz.ruled /\ wiz'.invite = wiz.invite
           /\ wiz'.apart = wiz.apart
<1>0. wiz \in WizType
  BY Basics
<1>1. CASE PickRole
  BY <1>0, <1>1 DEF PickRole, Page, Turn, WizType
<1>2. CASE NextStep \/ Back
  BY <1>0, <1>2 DEF NextStep, Back, Page, Turn, WizType
<1>3. CASE Import
  BY <1>0, <1>3 DEF Import, Page, Turn, WizType
<1>4. CASE EditLink
  BY <1>0, <1>4 DEF EditLink, Page, Turn, WizType
<1> QED
  BY <1>1, <1>2, <1>3, <1>4

LEMMA ClosedValues ==
    /\ Closed.client = 0 /\ Closed.ruled = FALSE /\ Closed.invite = 0 /\ Closed.apart = FALSE
    /\ Closed.open = FALSE
    /\ [Closed EXCEPT !.open = TRUE] = Fresh
    /\ Fresh.client = 0 /\ Fresh.ruled = FALSE /\ Fresh.invite = 0 /\ Fresh.apart = FALSE /\ Fresh.open
<1>1. /\ Fresh.client = 0 /\ Fresh.ruled = FALSE /\ Fresh.invite = 0 /\ Fresh.apart = FALSE
      /\ Fresh.open = TRUE
  BY DEF Fresh
<1>2. Fresh \in WizType
  BY WizardAssumption, OutboundsAssumption DEF Fresh, WizType, Modes
<1>3. /\ Closed.client = Fresh.client /\ Closed.ruled = Fresh.ruled /\ Closed.invite = Fresh.invite
      /\ Closed.apart = Fresh.apart /\ Closed.open = FALSE
  BY <1>2 DEF Closed, WizType
<1>4. [Closed EXCEPT !.open = TRUE] = Fresh
  BY <1>1, <1>2 DEF Closed, WizType
<1> QED
  BY <1>1, <1>3, <1>4

LEMMA OpenStep ==
    ASSUME Typed, Marked, Open
    PROVE  /\ UNCHANGED <<clients, rules, portal, unheard>> /\ ~wiz.open /\ wiz' = Fresh
           /\ opened' = opened + 1 /\ opened' \in Wizards /\ portal[opened'].st = "idle"
<1>1. /\ UNCHANGED <<clients, rules, portal, unheard>> /\ ~wiz.open /\ opened' = opened + 1
      /\ wiz' = [wiz EXCEPT !.open = TRUE] /\ opened < MaxOpens
  BY DEF Open
<1>2. wiz' = Fresh
  BY <1>1, ClosedValues DEF Marked
<1>3. opened' \in Wizards /\ opened' > opened
  BY <1>1, Basics, WizardAssumption DEF Wizards
<1> QED
  BY <1>1, <1>2, <1>3 DEF Marked

\* A click on Create: the attempt takes the fields and starts behind the markers.
LEMMA CreateStep ==
    ASSUME Typed, CreatePortal
    PROVE  /\ UNCHANGED <<clients, rules, opened, unheard>>
           /\ wiz.open /\ wiz.step = 1 /\ opened \in Wizards /\ portal[opened].st = "idle"
           /\ portal'[opened].st = IF wiz.client = 0 THEN "post" ELSE AfterClient(wiz.mode, wiz.ruled)
           /\ portal'[opened].name = wiz.name /\ portal'[opened].tag = wiz.tag
           /\ portal'[opened].mode = wiz.mode /\ portal'[opened].client = wiz.client
           /\ portal'[opened].body = <<>>
           /\ \A v \in Wizards \ {opened} : portal'[v] = portal[v]
           /\ \E a \in BOOLEAN : /\ wiz' = [wiz EXCEPT !.apart = a]
                                 /\ a <=> (wiz.apart \/ \E w \in Wizards : portal[w].st # "idle")
<1> DEFINE p == [st |-> IF wiz.client = 0 THEN "post" ELSE AfterClient(wiz.mode, wiz.ruled),
                 name |-> wiz.name, tag |-> wiz.tag, mode |-> wiz.mode, client |-> wiz.client,
                 body |-> <<>>]
           a == wiz.apart \/ \E w \in Wizards : portal[w].st # "idle"
<1>1. /\ UNCHANGED <<clients, rules, opened, unheard>>
      /\ wiz.open /\ wiz.step = 1 /\ portal[opened].st = "idle" /\ Portal(opened, p)
      /\ wiz' = [wiz EXCEPT !.apart = a]
  BY DEF CreatePortal, Portal
<1>2. opened \in Wizards
  BY <1>1, Basics
<1>3. a \in BOOLEAN /\ (a <=> (wiz.apart \/ \E w \in Wizards : portal[w].st # "idle"))
  BY Basics DEF WizType
<1>4. portal'[opened] = p /\ \A v \in Wizards \ {opened} : portal'[v] = portal[v]
  BY <1>1, <1>2, PortalMoved
<1> HIDE DEF a
<1> QED
  BY <1>1, <1>2, <1>3, <1>4
\* What the requests of one attempt do to it and to the others.
Onward(w, st) ==
    /\ portal'[w].st = st /\ portal'[w].name = portal[w].name /\ portal'[w].tag = portal[w].tag
    /\ portal'[w].mode = portal[w].mode
    /\ \A v \in Wizards \ {w} : portal'[v] = portal[v]
Ended(w) == portal'[w] = NoPortal /\ \A v \in Wizards \ {w} : portal'[v] = portal[v]

LEMMA MovesOnward ==
    ASSUME Typed, NEW w \in Wizards, NEW st, NEW c, NEW b
    PROVE  /\ Portal(w, [portal[w] EXCEPT !.st = st])
                => Onward(w, st) /\ portal'[w].client = portal[w].client /\ portal'[w].body = portal[w].body
           /\ Portal(w, [portal[w] EXCEPT !.st = st, !.client = c])
                => Onward(w, st) /\ portal'[w].client = c /\ portal'[w].body = portal[w].body
           /\ Portal(w, [portal[w] EXCEPT !.st = st, !.body = b])
                => Onward(w, st) /\ portal'[w].client = portal[w].client /\ portal'[w].body = b
           /\ Portal(w, NoPortal) => Ended(w)
<1>1. portal[w] \in PortalType
  BY Basics
<1>2. ASSUME Portal(w, [portal[w] EXCEPT !.st = st])
      PROVE  Onward(w, st) /\ portal'[w].client = portal[w].client /\ portal'[w].body = portal[w].body
  <2> DEFINE p == [portal[w] EXCEPT !.st = st]
  <2>1. /\ p.st = st /\ p.name = portal[w].name /\ p.tag = portal[w].tag /\ p.mode = portal[w].mode
        /\ p.client = portal[w].client /\ p.body = portal[w].body
    BY <1>1 DEF PortalType
  <2>2. portal'[w] = p /\ \A v \in Wizards \ {w} : portal'[v] = portal[v]
    BY <1>2, PortalMoved
  <2> HIDE DEF p
  <2> QED
    BY <2>1, <2>2 DEF Onward
<1>3. ASSUME Portal(w, [portal[w] EXCEPT !.st = st, !.client = c])
      PROVE  Onward(w, st) /\ portal'[w].client = c /\ portal'[w].body = portal[w].body
  <2> DEFINE p == [portal[w] EXCEPT !.st = st, !.client = c]
  <2>1. /\ p.st = st /\ p.name = portal[w].name /\ p.tag = portal[w].tag /\ p.mode = portal[w].mode
        /\ p.client = c /\ p.body = portal[w].body
    BY <1>1 DEF PortalType
  <2>2. portal'[w] = p /\ \A v \in Wizards \ {w} : portal'[v] = portal[v]
    BY <1>3, PortalMoved
  <2> HIDE DEF p
  <2> QED
    BY <2>1, <2>2 DEF Onward
<1>4. ASSUME Portal(w, [portal[w] EXCEPT !.st = st, !.body = b])
      PROVE  Onward(w, st) /\ portal'[w].client = portal[w].client /\ portal'[w].body = b
  <2> DEFINE p == [portal[w] EXCEPT !.st = st, !.body = b]
  <2>1. /\ p.st = st /\ p.name = portal[w].name /\ p.tag = portal[w].tag /\ p.mode = portal[w].mode
        /\ p.client = portal[w].client /\ p.body = b
    BY <1>1 DEF PortalType
  <2>2. portal'[w] = p /\ \A v \in Wizards \ {w} : portal'[v] = portal[v]
    BY <1>4, PortalMoved
  <2> HIDE DEF p
  <2> QED
    BY <2>1, <2>2 DEF Onward
<1>5. Portal(w, NoPortal) => Ended(w)
  BY PortalMoved DEF Ended
<1> QED
  BY <1>2, <1>3, <1>4, <1>5

\* What the wizard on screen hears: the rest of it stays.
Hears(client, ruled, step, invite) ==
    /\ wiz'.open = wiz.open /\ wiz'.name = wiz.name /\ wiz'.tag = wiz.tag /\ wiz'.mode = wiz.mode
    /\ wiz'.apart = wiz.apart
    /\ wiz'.client = client /\ wiz'.ruled = ruled /\ wiz'.step = step /\ wiz'.invite = invite

LEMMA HeardOnScreen ==
    ASSUME Typed, NEW c, NEW r, NEW n, NEW i
    PROVE  /\ wiz' = wiz => Hears(wiz.client, wiz.ruled, wiz.step, wiz.invite)
           /\ wiz' = [wiz EXCEPT !.client = c] => Hears(c, wiz.ruled, wiz.step, wiz.invite)
           /\ wiz' = [wiz EXCEPT !.ruled = r] => Hears(wiz.client, r, wiz.step, wiz.invite)
           /\ wiz' = [wiz EXCEPT !.step = n] => Hears(wiz.client, wiz.ruled, n, wiz.invite)
           /\ wiz' = [wiz EXCEPT !.step = n, !.invite = i] => Hears(wiz.client, wiz.ruled, n, i)
BY Basics DEF Hears, WizType

LEMMA CheckedStep ==
    ASSUME Typed, NEW w \in Wizards, TagChecked(w)
    PROVE  /\ portal[w].st = "post" /\ Onward(w, "checked")
           /\ portal'[w].client = portal[w].client /\ portal'[w].body = portal[w].body
           /\ UNCHANGED <<clients, rules, wiz, opened, unheard>>
BY MovesOnward DEF TagChecked, Elsewhere

LEMMA StoredStep ==
    ASSUME Typed, NEW w \in Wizards, ClientStored(w)
    PROVE  /\ portal[w].st = "checked" /\ Onward(w, "posted")
           /\ portal'[w].client = Len(clients) + 1 /\ portal'[w].body = portal[w].body
           /\ clients' = Append(clients, [name |-> portal[w].name, tag |-> portal[w].tag, by |-> w])
           /\ UNCHANGED <<rules, wiz, opened, unheard>>
BY MovesOnward DEF ClientStored, Elsewhere

LEMMA AnsweredStep ==
    ASSUME Typed, NEW w \in Wizards, ClientAnswered(w)
    PROVE  /\ portal[w].st = "posted"
           /\ Onward(w, IF portal[w].mode # "none" THEN "get" ELSE "link")
           /\ portal'[w].client = portal[w].client /\ portal'[w].body = portal[w].body
           /\ Live(w) => Hears(portal[w].client, wiz.ruled, wiz.step, wiz.invite)
           /\ ~Live(w) => wiz' = wiz
           /\ UNCHANGED <<clients, rules, opened, unheard>>
BY MovesOnward, HeardOnScreen DEF ClientAnswered, Elsewhere, AfterClient

LEMMA ReadStep ==
    ASSUME Typed, NEW w \in Wizards, RulesRead(w)
    PROVE  /\ portal[w].st = "get" /\ Onward(w, "put") /\ portal'[w].client = portal[w].client
           /\ portal'[w].body = Append(rules, [to |-> portal[w].tag, by |-> w])
           /\ UNCHANGED <<clients, rules, wiz, opened, unheard>>
<1> DEFINE b == Append(rules, [to |-> portal[w].tag, by |-> w])
<1>1. /\ portal[w].st = "get" /\ Portal(w, [portal[w] EXCEPT !.st = "put", !.body = b])
      /\ UNCHANGED <<clients, rules, wiz, opened, unheard>>
  BY DEF RulesRead, Elsewhere
<1> HIDE DEF b
<1>2. Onward(w, "put") /\ portal'[w].client = portal[w].client /\ portal'[w].body = b
  BY <1>1, MovesOnward
<1> QED
  BY <1>1, <1>2 DEF b

LEMMA RulesStoredStep ==
    ASSUME Typed, NEW w \in Wizards, RulesStored(w)
    PROVE  /\ portal[w].st = "put" /\ Onward(w, "ruled") /\ portal'[w].client = portal[w].client
           /\ portal'[w].body = <<>> /\ rules' = portal[w].body
           /\ UNCHANGED <<clients, wiz, opened, unheard>>
BY MovesOnward DEF RulesStored, Elsewhere

LEMMA RulesAnsweredStep ==
    ASSUME Typed, NEW w \in Wizards, RulesAnswered(w)
    PROVE  /\ portal[w].st = "ruled" /\ Onward(w, "link") /\ portal'[w].client = portal[w].client
           /\ portal'[w].body = portal[w].body
           /\ Live(w) => Hears(wiz.client, TRUE, wiz.step, wiz.invite)
           /\ ~Live(w) => wiz' = wiz
           /\ UNCHANGED <<clients, rules, opened, unheard>>
BY MovesOnward, HeardOnScreen DEF RulesAnswered, MarkRuled, Elsewhere

LEMMA LinkStep ==
    ASSUME Typed, NEW w \in Wizards, LinkAnswered(w)
    PROVE  /\ portal[w].st = "link" /\ Ended(w)
           /\ Live(w) => Hears(wiz.client, wiz.ruled, 2, portal[w].client)
           /\ ~Live(w) => wiz' = wiz
           /\ UNCHANGED <<clients, rules, opened, unheard>>
BY MovesOnward, HeardOnScreen DEF LinkAnswered, Elsewhere

LEMMA EndStep ==
    ASSUME Typed, NEW w \in Wizards, ClientRefused(w) \/ RulesRefused(w) \/ PortalLost(w)
    PROVE  /\ portal[w].st # "idle" /\ Ended(w) /\ UNCHANGED <<clients, rules, wiz, opened>>
           /\ unheard \subseteq unheard'
           /\ portal[w].st \in {"posted", "ruled"} => w \in unheard'
BY MovesOnward DEF ClientRefused, RulesRefused, PortalLost, Elsewhere
\* The kinds of steps there are, for the invariants below.
DialogSteps == PickRole \/ NextStep \/ Back \/ Import \/ EditLink

LEMMA KindsOfSteps ==
    ASSUME [Next]_vars
    PROVE  \/ Beside \/ DialogSteps \/ Fill \/ Open \/ Close \/ CreatePortal
           \/ \E w \in Wizards :
                \/ TagChecked(w) \/ ClientStored(w) \/ ClientAnswered(w) \/ RulesRead(w) \/ RulesStored(w)
                \/ RulesAnswered(w) \/ LinkAnswered(w)
                \/ ClientRefused(w) \/ RulesRefused(w) \/ PortalLost(w)
<1>1. Next \/ UNCHANGED vars
  OBVIOUS
<1> QED
  BY <1>1, BesideSteps DEF Next, DialogSteps

LEMMA BesideStep ==
    ASSUME Typed, Beside
    PROVE  /\ UNCHANGED <<clients, rules, opened, portal, unheard>>
           /\ \/ Hears(wiz.client, wiz.ruled, wiz.step, wiz.invite) /\ wiz' = wiz
              \/ Hears(wiz.client, wiz.ruled, 2, wiz.invite) /\ wiz.open
BY HeardOnScreen DEF Beside

LEMMA InitMarked == Init => Marked
BY ClosedValues, BlankWizard DEF Init, Marked

LEMMA StepMarked == Typed /\ Marked /\ [Next]_vars => Marked'
<1> SUFFICES ASSUME Typed, Marked, [Next]_vars PROVE Marked'
  OBVIOUS
<1>0. /\ opened \in Nat /\ Wizards \subseteq Nat /\ (wiz.open => opened \in Wizards)
      /\ Len(clients) \in Nat
      /\ NoPortal.st = "idle" /\ NoPortal.body = <<>>
  BY Basics, BlankWizard
<1>m. Marked
  OBVIOUS
<1>1. CASE Beside
  BY <1>0, <1>1, <1>m, BesideStep DEF Marked, Hears
<1>2. CASE DialogSteps
  BY <1>0, <1>2, <1>m, DialogStep DEF Marked, DialogSteps
<1>3. CASE Fill
  <2>1. PICK n \in Names, t \in Tags, m \in Modes, a \in BOOLEAN :
          /\ wiz' = [wiz EXCEPT !.name = n, !.tag = t, !.mode = m, !.apart = a]
          /\ a <=> (wiz.apart \/ wiz.client # 0 \/ portal[opened].st # "idle")
    BY <1>3, FillStep
  <2>2. /\ wiz'.open = wiz.open /\ wiz'.step = wiz.step /\ wiz'.client = wiz.client
        /\ wiz'.ruled = wiz.ruled /\ wiz'.invite = wiz.invite
    BY <2>1, Basics DEF WizType
  <2>3. UNCHANGED <<clients, rules, opened, portal, unheard>> /\ wiz.open
    BY <1>3, FillStep
  <2> QED
    BY <1>0, <1>m, <2>2, <2>3 DEF Marked
<1>4. CASE Open
  BY <1>0, <1>4, <1>m, OpenStep, ClosedValues DEF Marked
<1>5. CASE Close
  BY <1>0, <1>5, <1>m, ClosedValues DEF Close, Unmount, Marked
<1>6. CASE CreatePortal
  <2>1. PICK a \in BOOLEAN : wiz' = [wiz EXCEPT !.apart = a]
    BY <1>6, CreateStep
  <2>2. /\ wiz'.open = wiz.open /\ wiz'.step = wiz.step /\ wiz'.client = wiz.client
        /\ wiz'.ruled = wiz.ruled /\ wiz'.invite = wiz.invite
    BY <2>1, Basics DEF WizType
  <2>3. /\ UNCHANGED <<clients, rules, opened, unheard>> /\ wiz.open /\ opened \in Wizards
        /\ portal'[opened].st = IF wiz.client = 0 THEN "post" ELSE AfterClient(wiz.mode, wiz.ruled)
        /\ portal'[opened].mode = wiz.mode /\ portal'[opened].client = wiz.client
        /\ portal'[opened].body = <<>>
        /\ \A v \in Wizards \ {opened} : portal'[v] = portal[v]
    BY <1>6, CreateStep
  <2> QED
    BY <1>0, <1>m, <2>2, <2>3 DEF Marked, AfterClient
<1>7. ASSUME NEW w \in Wizards, ClientStored(w) PROVE Marked'
  <2>1. /\ portal[w].st = "checked" /\ Onward(w, "posted")
        /\ portal'[w].client = Len(clients) + 1 /\ portal'[w].body = portal[w].body
        /\ clients' = Append(clients, [name |-> portal[w].name, tag |-> portal[w].tag, by |-> w])
        /\ UNCHANGED <<rules, wiz, opened, unheard>>
    BY <1>7, StoredStep
  <2> QED
    BY <1>0, <1>m, <2>1 DEF Marked, Onward
<1>8. ASSUME NEW w \in Wizards PROVE ClientAnswered(w) => Marked'
  BY <1>0, <1>m, AnsweredStep DEF Marked, Onward, Hears, Live
<1>9. ASSUME NEW w \in Wizards, RulesRead(w) PROVE Marked'
  <2>1. /\ portal[w].st = "get" /\ Onward(w, "put") /\ portal'[w].client = portal[w].client
        /\ portal'[w].body = Append(rules, [to |-> portal[w].tag, by |-> w])
        /\ UNCHANGED <<clients, rules, wiz, opened, unheard>>
    BY <1>9, ReadStep
  <2> QED
    BY <1>0, <1>m, <2>1 DEF Marked, Onward
<1>10. ASSUME NEW w \in Wizards PROVE RulesStored(w) => Marked'
  BY <1>0, <1>m, RulesStoredStep DEF Marked, Onward
<1>11. ASSUME NEW w \in Wizards, RulesAnswered(w) PROVE Marked'
  <2>1. /\ portal[w].st = "ruled" /\ Onward(w, "link") /\ portal'[w].client = portal[w].client
        /\ portal'[w].body = portal[w].body
        /\ Live(w) => Hears(wiz.client, TRUE, wiz.step, wiz.invite)
        /\ ~Live(w) => wiz' = wiz
        /\ UNCHANGED <<clients, rules, opened, unheard>>
    BY <1>11, RulesAnsweredStep
  <2> QED
    BY <1>0, <1>m, <2>1 DEF Marked, Onward, Hears, Live
<1>12. ASSUME NEW w \in Wizards PROVE LinkAnswered(w) => Marked'
  BY <1>0, <1>m, LinkStep DEF Marked, Ended, Hears, Live
<1>13. ASSUME NEW w \in Wizards PROVE ClientRefused(w) \/ RulesRefused(w) \/ PortalLost(w) => Marked'
  BY <1>0, <1>m, EndStep DEF Marked, Ended
<1>14. ASSUME NEW w \in Wizards PROVE TagChecked(w) => Marked'
  BY <1>0, <1>m, CheckedStep DEF Marked, Onward
<1> QED
  BY <1>1, <1>2, <1>3, <1>4, <1>5, <1>6, <1>7, <1>8, <1>9, <1>10, <1>11, <1>12, <1>13, <1>14, KindsOfSteps

LEMMA SpecMarked == Spec => [](Typed /\ Marked)
BY InitTyped, SpecTyped, InitMarked, StepMarked, PTL DEF Spec
-----------------------------------------------------------------------------
(* The invite belongs to what the wizard made.                              *)

RuleIn(rs, tag)            == \E n \in DOMAIN rs : rs[n].to = tag
MadeFor(cs, c, name, tag)  == c \in DOMAIN cs /\ cs[c].name = name /\ cs[c].tag = tag

Begun == wiz.client # 0 \/ wiz.invite # 0 \/ portal[opened].st # "idle"

\* As long as the fields and the client have not gone different ways: no other
\* wizard's attempt is left, this one's carries the wizard's fields, its client
\* has the name and the tag, and a rule leads to it from the moment it is stored.
Together ==
    (wiz.open /\ ~wiz.apart) =>
        /\ Begun => \A v \in Wizards \ {opened} : portal[v].st = "idle"
        /\ portal[opened].st # "idle" => /\ portal[opened].name = wiz.name /\ portal[opened].tag = wiz.tag
                                         /\ portal[opened].mode = wiz.mode
        /\ portal[opened].st \notin {"idle", "post", "checked"}
              => MadeFor(clients, portal[opened].client, wiz.name, wiz.tag)
        /\ wiz.client # 0 => MadeFor(clients, wiz.client, wiz.name, wiz.tag)
        /\ portal[opened].st = "put" => RuleIn(portal[opened].body, wiz.tag)
        /\ (wiz.ruled \/ portal[opened].st = "ruled") => RuleIn(rules, wiz.tag)
        /\ wiz.invite # 0 => /\ portal[opened].st = "idle"
                             /\ MadeFor(clients, wiz.invite, wiz.name, wiz.tag)
                             /\ (wiz.mode # "none" => RuleIn(rules, wiz.tag))

\* A client made earlier keeps its name and tag when another is added.
LEMMA StillMadeFor ==
    ASSUME clients \in Seq(Client), NEW new, clients' = Append(clients, new)
    PROVE  /\ \A name, tag : \A c \in 1..Len(clients) :
                 MadeFor(clients, c, name, tag) => MadeFor(clients', c, name, tag)
           /\ clients'[Len(clients) + 1] = new
BY DEF MadeFor

LEMMA RuleAdded ==
    ASSUME rules \in Seq(Rule), NEW tag, NEW w
    PROVE  RuleIn(Append(rules, [to |-> tag, by |-> w]), tag)
<1> DEFINE new == [to |-> tag, by |-> w]
           body == Append(rules, new)
<1>1. Len(rules) + 1 \in DOMAIN body /\ body[Len(rules) + 1] = new
  BY DEF body
<1>2. new.to = tag
  OBVIOUS
<1> QED
  BY <1>1, <1>2 DEF RuleIn
LEMMA StepTogether == Typed /\ Marked /\ Together /\ [Next]_vars => Together'
<1> SUFFICES ASSUME Typed, Marked, Together, [Next]_vars PROVE Together'
  OBVIOUS
<1>0. /\ opened \in Nat /\ Wizards \subseteq Nat /\ (wiz.open => opened \in Wizards)
      /\ Len(clients) \in Nat /\ clients \in Seq(Client) /\ rules \in Seq(Rule)
      /\ NoPortal.st = "idle"
  BY Basics, BlankWizard
<1>m. Marked
  OBVIOUS
<1>t. Together
  OBVIOUS
<1>1. CASE Beside
  BY <1>0, <1>1, <1>t, BesideStep DEF Together, Begun, Hears
<1>2. CASE DialogSteps
  BY <1>0, <1>2, <1>t, DialogStep DEF Together, Begun, DialogSteps
<1>3. CASE Fill
  <2>1. PICK n \in Names, t \in Tags, m \in Modes, a \in BOOLEAN :
          /\ wiz' = [wiz EXCEPT !.name = n, !.tag = t, !.mode = m, !.apart = a]
          /\ a <=> (wiz.apart \/ wiz.client # 0 \/ portal[opened].st # "idle")
    BY <1>3, FillStep
  <2>2. /\ wiz'.client = wiz.client /\ wiz'.ruled = wiz.ruled /\ wiz'.invite = wiz.invite
        /\ wiz'.apart = a
    BY <2>1, Basics DEF WizType
  <2>3. UNCHANGED <<clients, rules, opened, portal, unheard>> /\ wiz.open /\ wiz.step = 1
    BY <1>3, FillStep
  <2> QED
    BY <1>0, <1>m, <2>1, <2>2, <2>3 DEF Marked, Together, Begun
<1>4. CASE Open
  BY <1>0, <1>4, OpenStep, ClosedValues DEF Together, Begun
<1>5. CASE Close
  BY <1>5, ClosedValues DEF Close, Unmount, Together
<1>6. CASE CreatePortal
  <2>1. PICK a \in BOOLEAN : /\ wiz' = [wiz EXCEPT !.apart = a]
                             /\ a <=> (wiz.apart \/ \E w \in Wizards : portal[w].st # "idle")
    BY <1>6, CreateStep
  <2>2. /\ wiz'.open = wiz.open /\ wiz'.name = wiz.name /\ wiz'.tag = wiz.tag /\ wiz'.mode = wiz.mode
        /\ wiz'.client = wiz.client /\ wiz'.ruled = wiz.ruled /\ wiz'.invite = wiz.invite
        /\ wiz'.apart = a
    BY <2>1, Basics DEF WizType
  <2>3. /\ UNCHANGED <<clients, rules, opened, unheard>> /\ wiz.open /\ wiz.step = 1 /\ opened \in Wizards
        /\ portal'[opened].st \in {"post", "get", "link"}
        /\ wiz.client = 0 => portal'[opened].st = "post"
        /\ portal'[opened].name = wiz.name /\ portal'[opened].tag = wiz.tag
        /\ portal'[opened].mode = wiz.mode /\ portal'[opened].client = wiz.client
        /\ \A v \in Wizards \ {opened} : portal'[v] = portal[v]
    BY <1>6, CreateStep DEF AfterClient
  <2>4. portal'[opened].st # "post" => wiz.client # 0
    BY <2>3
  <2> QED
    BY <1>0, <1>m, <1>t, <2>1, <2>2, <2>3, <2>4 DEF Marked, Together, Begun
<1>7. ASSUME NEW w \in Wizards, ClientStored(w) PROVE Together'
  <2>1. /\ portal[w].st = "checked" /\ Onward(w, "posted")
        /\ portal'[w].client = Len(clients) + 1
        /\ clients' = Append(clients, [name |-> portal[w].name, tag |-> portal[w].tag, by |-> w])
        /\ UNCHANGED <<rules, wiz, opened, unheard>>
    BY <1>7, StoredStep
  <2>2. MadeFor(clients', Len(clients) + 1, portal[w].name, portal[w].tag)
    BY <1>0, <2>1, StillMadeFor DEF MadeFor
  <2>3. CASE ~wiz.open \/ wiz.apart
    BY <2>1, <2>3 DEF Together
  <2>4. CASE wiz.open /\ ~wiz.apart /\ w = opened
    BY <1>0, <1>m, <1>t, <2>1, <2>2, <2>4 DEF Marked, Together, Begun, Onward
  <2>5. CASE wiz.open /\ ~wiz.apart /\ w # opened
    BY <1>0, <1>m, <1>t, <2>1, <2>5 DEF Marked, Together, Begun, Onward
  <2> QED
    BY <2>3, <2>4, <2>5
<1>8. ASSUME NEW w \in Wizards, ClientAnswered(w) PROVE Together'
  <2>1. /\ portal[w].st = "posted"
        /\ Onward(w, IF portal[w].mode # "none" THEN "get" ELSE "link")
        /\ portal'[w].client = portal[w].client
        /\ Live(w) => Hears(portal[w].client, wiz.ruled, wiz.step, wiz.invite)
        /\ ~Live(w) => wiz' = wiz
        /\ UNCHANGED <<clients, rules, opened, unheard>>
    BY <1>8, AnsweredStep
  <2>2. CASE Live(w)
    BY <1>0, <1>m, <1>t, <2>1, <2>2 DEF Marked, Together, Begun, Onward, Hears, Live
  <2>3. CASE ~Live(w)
    BY <1>0, <1>m, <1>t, <2>1, <2>3 DEF Marked, Together, Begun, Onward, Live
  <2> QED
    BY <2>2, <2>3
<1>9. ASSUME NEW w \in Wizards, RulesRead(w) PROVE Together'
  <2>1. /\ portal[w].st = "get" /\ Onward(w, "put") /\ portal'[w].client = portal[w].client
        /\ portal'[w].body = Append(rules, [to |-> portal[w].tag, by |-> w])
        /\ UNCHANGED <<clients, rules, wiz, opened, unheard>>
    BY <1>9, ReadStep
  <2>2. RuleIn(portal'[w].body, portal[w].tag)
    BY <1>0, <2>1, RuleAdded
  <2> QED
    BY <1>0, <1>m, <1>t, <2>1, <2>2 DEF Marked, Together, Begun, Onward
<1>10. ASSUME NEW w \in Wizards, RulesStored(w) PROVE Together'
  <2>1. /\ portal[w].st = "put" /\ Onward(w, "ruled") /\ portal'[w].client = portal[w].client
        /\ rules' = portal[w].body /\ UNCHANGED <<clients, wiz, opened, unheard>>
    BY <1>10, RulesStoredStep
  <2> QED
    BY <1>0, <1>m, <1>t, <2>1 DEF Marked, Together, Begun, Onward
<1>11. ASSUME NEW w \in Wizards, RulesAnswered(w) PROVE Together'
  <2>1. /\ portal[w].st = "ruled" /\ Onward(w, "link") /\ portal'[w].client = portal[w].client
        /\ Live(w) => Hears(wiz.client, TRUE, wiz.step, wiz.invite)
        /\ ~Live(w) => wiz' = wiz
        /\ UNCHANGED <<clients, rules, opened, unheard>>
    BY <1>11, RulesAnsweredStep
  <2>2. CASE Live(w)
    BY <1>0, <1>m, <1>t, <2>1, <2>2 DEF Marked, Together, Begun, Onward, Hears, Live
  <2>3. CASE ~Live(w)
    BY <1>0, <1>m, <1>t, <2>1, <2>3 DEF Marked, Together, Begun, Onward, Live
  <2> QED
    BY <2>2, <2>3
<1>12. ASSUME NEW w \in Wizards, LinkAnswered(w) PROVE Together'
  <2>1. /\ portal[w].st = "link" /\ Ended(w)
        /\ Live(w) => Hears(wiz.client, wiz.ruled, 2, portal[w].client)
        /\ ~Live(w) => wiz' = wiz
        /\ UNCHANGED <<clients, rules, opened, unheard>>
    BY <1>12, LinkStep
  <2>2. CASE Live(w)
    BY <1>0, <1>m, <1>t, <2>1, <2>2 DEF Marked, Together, Begun, Ended, Hears, Live
  <2>3. CASE ~Live(w)
    BY <1>0, <1>m, <1>t, <2>1, <2>3 DEF Marked, Together, Begun, Ended, Live
  <2> QED
    BY <2>2, <2>3
<1>13. ASSUME NEW w \in Wizards, ClientRefused(w) \/ RulesRefused(w) \/ PortalLost(w) PROVE Together'
  <2>1. portal[w].st # "idle" /\ Ended(w) /\ UNCHANGED <<clients, rules, wiz, opened>>
    BY <1>13, EndStep
  <2> QED
    BY <1>0, <1>t, <2>1 DEF Together, Begun, Ended
<1>14. ASSUME NEW w \in Wizards PROVE TagChecked(w) => Together'
  BY <1>0, <1>m, <1>t, CheckedStep DEF Marked, Together, Begun, Onward
<1> QED
  BY <1>1, <1>2, <1>3, <1>4, <1>5, <1>6, <1>7, <1>8, <1>9, <1>10, <1>11, <1>12, <1>13, <1>14, KindsOfSteps

\* No client, and no request whose tag was found free, shares its tag with a
\* stored outbound but those an outbound was stored over later.
Clear == Held \cap OutboundTags(rows) \subseteq shadowed

LEMMA StepClear == Typed /\ Clear /\ [Next]_vars => Clear'
<1> SUFFICES ASSUME Typed, Clear, [Next]_vars PROVE Clear'
  OBVIOUS
<1> DEFINE Same == UNCHANGED <<rows, shadowed>>
<1>1. CASE PageStep \/ \E w \in Wizards : BridgeStored(w)
  <2>1. UNCHANGED <<clients, portal>> /\ Shadow
    BY <1>1 DEF PageStep, BridgeStored
  <2>2. Held' = Held
    BY <2>1 DEF Held
  <2>3. OutboundTags(rows)' = OutboundTags(rows')
    BY DEF OutboundTags
  <2> QED
    BY <2>1, <2>2, <2>3 DEF Shadow, Clear
<1>2. ASSUME Same, Held' \subseteq Held \cup {t \in Tags : FreeTag(t)} PROVE Clear'
  BY <1>2 DEF Clear, OutboundTags, FreeTag
<1>3. ASSUME NEW w \in Wizards, TagChecked(w) PROVE Clear'
  <2>1. Same /\ UNCHANGED clients /\ FreeTag(portal[w].tag) /\ Onward(w, "checked")
    BY <1>3, CheckedStep DEF TagChecked, Elsewhere, pageVars
  <2>2. portal[w].tag \in Tags
    BY Basics DEF PortalType
  <2>3. Held' \subseteq Held \cup {portal[w].tag}
    BY <2>1 DEF Held, Onward
  <2> QED
    BY <1>2, <2>1, <2>2, <2>3
<1>4. ASSUME NEW w \in Wizards, ClientStored(w) PROVE Clear'
  <2> DEFINE new == [name |-> portal[w].name, tag |-> portal[w].tag, by |-> w]
  <2>1. /\ Same /\ portal[w].st = "checked" /\ Onward(w, "posted") /\ clients' = Append(clients, new)
    BY <1>4, StoredStep DEF ClientStored, Elsewhere, pageVars
  <2>2. clients \in Seq(Client) /\ new.tag = portal[w].tag
    BY Basics
  <2> HIDE DEF new
  <2>3. \A c \in DOMAIN clients' : (c \in DOMAIN clients /\ clients'[c] = clients[c]) \/ clients'[c] = new
    BY <2>1, <2>2
  <2>4. Held' \subseteq Held
    BY <2>1, <2>2, <2>3 DEF Held, Onward
  <2> QED
    BY <1>2, <2>1, <2>4
<1>5. ASSUME NEW w \in Wizards, ClientAnswered(w) \/ RulesRead(w) \/ RulesStored(w) \/ RulesAnswered(w)
      PROVE  Clear'
  <2>1. Same /\ UNCHANGED clients
    BY <1>5 DEF ClientAnswered, RulesRead, RulesStored, RulesAnswered, Elsewhere, pageVars
  <2>2. \A v \in Wizards : portal'[v].st = "checked" =>
                             (portal[v].st = "checked" /\ portal'[v].tag = portal[v].tag)
    BY <1>5, AnsweredStep, ReadStep, RulesStoredStep, RulesAnsweredStep DEF Onward
  <2>3. Held' \subseteq Held
    BY <2>1, <2>2 DEF Held
  <2> QED
    BY <1>2, <2>1, <2>3
<1>6. ASSUME NEW w \in Wizards, LinkAnswered(w) \/ ClientRefused(w) \/ RulesRefused(w) \/ PortalLost(w)
      PROVE  Clear'
  <2>1. Same /\ UNCHANGED clients
    BY <1>6 DEF LinkAnswered, ClientRefused, RulesRefused, PortalLost, Elsewhere, pageVars
  <2>2. Ended(w)
    BY <1>6, LinkStep, EndStep
  <2>3. Held' \subseteq Held
    BY <2>1, <2>2, BlankWizard DEF Held, Ended
  <2> QED
    BY <1>2, <2>1, <2>3
<1>7. CASE CreatePortal
  <2>1. Same /\ UNCHANGED clients
    BY <1>7 DEF CreatePortal
  <2>2. /\ opened \in Wizards /\ portal'[opened].st # "checked"
        /\ \A v \in Wizards \ {opened} : portal'[v] = portal[v]
    BY <1>7, CreateStep DEF AfterClient
  <2>3. Held' \subseteq Held
    BY <2>1, <2>2 DEF Held
  <2> QED
    BY <1>2, <2>1, <2>3
<1>8. ASSUME Same, UNCHANGED <<clients, portal>> PROVE Clear'
  <2>1. Held' \subseteq Held
    BY <1>8 DEF Held
  <2> QED
    BY <1>2, <1>8, <2>1
<1>9. CASE Open \/ Close \/ Fill \/ UNCHANGED vars
  <2>1. Same /\ UNCHANGED <<clients, portal>>
    BY <1>9 DEF Open, Close, Fill, Turn, vars, wizardVars, pageVars
  <2> QED
    BY <1>8, <2>1
<1>10. CASE PickRole \/ NextStep \/ Back \/ Import \/ EditLink
  <2>1. Same /\ UNCHANGED <<clients, portal>>
    BY <1>10 DEF PickRole, NextStep, Back, Import, EditLink, Page, Turn, pageVars
  <2> QED
    BY <1>8, <2>1
<1>11. ASSUME NEW w \in Wizards, BridgeRead(w) \/ BridgeRefused(w) \/ BridgeAnswered(w) \/ BridgeLost(w)
       PROVE  Clear'
  <2>1. Same /\ UNCHANGED <<clients, portal>>
    BY <1>11 DEF BridgeRead, BridgeRefused, BridgeAnswered, BridgeLost, pageVars
  <2> QED
    BY <1>8, <2>1
<1>12. CASE CreateBridge
  <2>1. Same /\ UNCHANGED <<clients, portal>>
    BY <1>12 DEF CreateBridge
  <2> QED
    BY <1>8, <2>1
<1>13. Next \/ UNCHANGED vars
  OBVIOUS
<1> QED
  BY <1>1, <1>3, <1>4, <1>5, <1>6, <1>7, <1>8, <1>9, <1>10, <1>11, <1>12, <1>13 DEF Next, vars, pageVars, wizardVars

\* Whatever requests, clicks and losses interleave, the invite on screen is of
\* a client with the name and the tag the wizard was given, the rule that was
\* wanted is stored, and no outbound takes what the rule sends to the client
\* (ReverseWizard.tsx, createPortal; clients.rs, normalize_reverse_tag). An
\* earlier wizard's attempt, still under way, may overwrite the rule or be this
\* one's equal, and an outbound may be stored under the tag afterwards: the
\* history variables apart and shadowed exclude that, as the property does.
THEOREM InviteIsOurs == Spec => []InviteMatches
<1>1. Init => Together
  BY ClosedValues DEF Init, Together
<1>2. Init => Clear
  <2> SUFFICES ASSUME Init PROVE Held = {}
    BY DEF Clear
  <2>1. clients = <<>> /\ \A w \in Wizards : portal[w].st = "idle"
    BY BlankWizard DEF Init
  <2> QED
    BY <2>1 DEF Held
<1>3. Typed /\ Together /\ Clear => InviteMatches
  <2> SUFFICES ASSUME Typed, Together, Clear, wiz.open, wiz.invite # 0, ~wiz.apart
               PROVE  /\ MadeFor(clients, wiz.invite, wiz.name, wiz.tag)
                      /\ wiz.mode # "none" => RuleIn(rules, wiz.tag)
                      /\ wiz.tag \in OutboundTags(rows) => wiz.tag \in shadowed
    BY DEF InviteMatches, MadeFor, RuleIn
  <2>1. MadeFor(clients, wiz.invite, wiz.name, wiz.tag) /\ (wiz.mode # "none" => RuleIn(rules, wiz.tag))
    BY DEF Together
  <2>2. wiz.tag \in Held
    BY <2>1 DEF Held, MadeFor
  <2> QED
    BY <2>1, <2>2 DEF Clear
<1> QED
  BY <1>1, <1>2, <1>3, SpecMarked, StepTogether, StepClear, PTL DEF Spec
-----------------------------------------------------------------------------
(* A retry repeats nothing.                                                 *)

AtMostOne(s, w) == \A m, n \in DOMAIN s : (s[m].by = w /\ s[n].by = w) => m = n
NoneBy(s, w)    == \A n \in DOMAIN s : s[n].by # w

\* May the wizard still make a client, and may it still add a rule?
ClientToCome(w) ==
    \/ w > opened
    \/ portal[w].st \in {"post", "checked"}
    \/ Live(w) /\ wiz.client = 0 /\ portal[w].st # "posted"
RuleToCome(w) ==
    \/ w > opened
    \/ portal[w].st \in {"post", "checked", "posted", "get", "put"}
    \/ Live(w) /\ ~wiz.ruled /\ portal[w].st # "ruled"

\* What is still to come has not happened: not in the lists stored, and not in
\* the copies of the rules that other attempts are about to send back.
CountedFor(w) ==
    /\ AtMostOne(clients, w) /\ AtMostOne(rules, w)
    /\ \A v \in Wizards : AtMostOne(portal[v].body, w)
    /\ ClientToCome(w) => NoneBy(clients, w)
    /\ RuleToCome(w) => (NoneBy(rules, w) /\ \A v \in Wizards \ {w} : NoneBy(portal[v].body, w))
Counted == \A w \in Wizards \ unheard : CountedFor(w)

LEMMA AppendCount ==
    ASSUME NEW S, NEW s \in Seq(S), NEW e, NEW w
    PROVE  /\ NoneBy(s, w) => AtMostOne(Append(s, e), w)
           /\ e.by # w => /\ (AtMostOne(s, w) => AtMostOne(Append(s, e), w))
                          /\ (NoneBy(s, w) => NoneBy(Append(s, e), w))
           /\ AtMostOne(<<>>, w) /\ NoneBy(<<>>, w)
<1> DEFINE t == Append(s, e)
<1>1. /\ DOMAIN s = 1..Len(s) /\ DOMAIN t = 1..(Len(s) + 1) /\ Len(s) \in Nat
      /\ t[Len(s) + 1] = e /\ \A n \in 1..Len(s) : t[n] = s[n]
  OBVIOUS
<1> HIDE DEF t
<1>2. \A n \in DOMAIN t : n = Len(s) + 1 \/ (n \in DOMAIN s /\ t[n] = s[n])
  BY <1>1
<1>3. NoneBy(s, w) => AtMostOne(t, w)
  BY <1>2 DEF NoneBy, AtMostOne
<1>4. e.by # w => (AtMostOne(s, w) => AtMostOne(t, w))
  BY <1>1, <1>2 DEF AtMostOne
<1>5. e.by # w => (NoneBy(s, w) => NoneBy(t, w))
  BY <1>1, <1>2 DEF NoneBy
<1>6. AtMostOne(<<>>, w) /\ NoneBy(<<>>, w)
  BY DEF AtMostOne, NoneBy
<1> QED
  BY <1>3, <1>4, <1>5, <1>6 DEF t

LEMMA StepCounted == Typed /\ Marked /\ Counted /\ [Next]_vars => Counted'
<1> SUFFICES ASSUME Typed, Marked, Counted, [Next]_vars PROVE Counted'
  OBVIOUS
<1>0. /\ opened \in Nat /\ Wizards \subseteq Nat /\ (wiz.open => opened \in Wizards)
      /\ clients \in Seq(Client) /\ rules \in Seq(Rule)
      /\ NoPortal.st = "idle" /\ NoPortal.body = <<>>
      /\ \A w : AtMostOne(<<>>, w) /\ NoneBy(<<>>, w)
  BY Basics, BlankWizard DEF AtMostOne, NoneBy
<1>m. Marked
  OBVIOUS
<1>c. \A w \in Wizards \ unheard : CountedFor(w)
  BY DEF Counted
<1>1. CASE Beside
  BY <1>0, <1>1, <1>c, BesideStep DEF Counted, CountedFor, ClientToCome, RuleToCome, Live, Hears
<1>2. CASE DialogSteps
  BY <1>0, <1>2, <1>c, DialogStep DEF Counted, CountedFor, ClientToCome, RuleToCome, Live, DialogSteps
<1>3. CASE Fill
  <2>1. PICK n \in Names, t \in Tags, m \in Modes, a \in BOOLEAN :
          /\ wiz' = [wiz EXCEPT !.name = n, !.tag = t, !.mode = m, !.apart = a]
          /\ a <=> (wiz.apart \/ wiz.client # 0 \/ portal[opened].st # "idle")
    BY <1>3, FillStep
  <2>2. wiz'.open = wiz.open /\ wiz'.client = wiz.client /\ wiz'.ruled = wiz.ruled
    BY <2>1, Basics DEF WizType
  <2>3. UNCHANGED <<clients, rules, opened, portal, unheard>>
    BY <1>3, FillStep
  <2> QED
    BY <1>0, <1>c, <2>2, <2>3 DEF Counted, CountedFor, ClientToCome, RuleToCome, Live
<1>4. CASE Open
  <2>1. /\ UNCHANGED <<clients, rules, portal, unheard>> /\ ~wiz.open
        /\ opened' = opened + 1 /\ portal[opened'].st = "idle"
    BY <1>4, OpenStep
  <2>2. \A w \in Wizards : (w > opened' \/ w = opened') => w > opened
    BY <1>0, <2>1
  <2> QED
    BY <1>0, <1>c, <2>1, <2>2 DEF Counted, CountedFor, ClientToCome, RuleToCome, Live
<1>5. CASE Close
  BY <1>0, <1>5, <1>c, ClosedValues DEF Close, Unmount, Counted, CountedFor, ClientToCome, RuleToCome, Live
<1>6. CASE CreatePortal
  <2>1. PICK a \in BOOLEAN : /\ wiz' = [wiz EXCEPT !.apart = a]
                             /\ a <=> (wiz.apart \/ \E w \in Wizards : portal[w].st # "idle")
    BY <1>6, CreateStep
  <2>2. wiz'.open = wiz.open /\ wiz'.client = wiz.client /\ wiz'.ruled = wiz.ruled
    BY <2>1, Basics DEF WizType
  <2>3. /\ UNCHANGED <<clients, rules, opened, unheard>> /\ wiz.open /\ opened \in Wizards
        /\ portal[opened].st = "idle"
        /\ portal'[opened].st = IF wiz.client = 0 THEN "post" ELSE AfterClient(wiz.mode, wiz.ruled)
        /\ portal'[opened].body = <<>>
        /\ \A v \in Wizards \ {opened} : portal'[v] = portal[v]
    BY <1>6, CreateStep
  <2>4. /\ portal'[opened].st \in {"post", "get", "link"}
        /\ portal'[opened].st = "post" => wiz.client = 0
        /\ portal'[opened].st \in {"post", "get"} => ~wiz.ruled
    BY <1>m, <2>3 DEF AfterClient, Marked
  <2>5. ASSUME NEW w \in Wizards \ unheard PROVE CountedFor(w)'
    <3>1. CountedFor(w)
      BY <1>c
    <3>2. (ClientToCome(w)' => ClientToCome(w)) /\ (RuleToCome(w)' => RuleToCome(w))
      BY <2>2, <2>3, <2>4 DEF ClientToCome, RuleToCome, Live
    <3> QED
      BY <1>0, <2>3, <3>1, <3>2 DEF CountedFor
  <2> QED
    BY <2>3, <2>5 DEF Counted
<1>7. ASSUME NEW w \in Wizards, ClientStored(w) PROVE Counted'
  <2> DEFINE new == [name |-> portal[w].name, tag |-> portal[w].tag, by |-> w]
  <2>1. /\ portal[w].st = "checked" /\ Onward(w, "posted") /\ portal'[w].body = portal[w].body
        /\ clients' = Append(clients, new) /\ UNCHANGED <<rules, wiz, opened, unheard>>
    BY <1>7, StoredStep
  <2>2. new.by = w
    OBVIOUS
  <2> HIDE DEF new
  <2>3. ASSUME NEW v \in Wizards \ unheard PROVE CountedFor(v)'
    <3>1. CountedFor(v)
      BY <1>c
    <3>2. /\ ClientToCome(v)' => (ClientToCome(v) /\ v # w)
          /\ RuleToCome(v)' => RuleToCome(v)
          /\ v = w => ClientToCome(v)
      BY <1>0, <1>m, <2>1 DEF ClientToCome, RuleToCome, Live, Onward, Marked
    <3>3. \A u \in Wizards : portal'[u].body = portal[u].body
      BY <2>1 DEF Onward
    <3>4. /\ AtMostOne(clients', v)
          /\ ClientToCome(v)' => NoneBy(clients', v)
      BY <1>0, <2>1, <2>2, <3>1, <3>2, AppendCount DEF CountedFor
    <3> QED
      BY <2>1, <3>1, <3>2, <3>3, <3>4 DEF CountedFor
  <2> QED
    BY <2>1, <2>3 DEF Counted
<1>8. ASSUME NEW w \in Wizards, ClientAnswered(w) PROVE Counted'
  <2>1. /\ portal[w].st = "posted" /\ portal'[w].body = portal[w].body
        /\ Onward(w, IF portal[w].mode # "none" THEN "get" ELSE "link")
        /\ Live(w) => Hears(portal[w].client, wiz.ruled, wiz.step, wiz.invite)
        /\ ~Live(w) => wiz' = wiz
        /\ UNCHANGED <<clients, rules, opened, unheard>>
    BY <1>8, AnsweredStep
  <2>2. ASSUME NEW v \in Wizards \ unheard PROVE CountedFor(v)'
    <3>1. CountedFor(v)
      BY <1>c
    <3>2. (ClientToCome(v)' => ClientToCome(v)) /\ (RuleToCome(v)' => RuleToCome(v))
      BY <1>0, <1>m, <2>1 DEF ClientToCome, RuleToCome, Live, Onward, Hears, Marked
    <3>3. \A u \in Wizards : portal'[u].body = portal[u].body
      BY <2>1 DEF Onward
    <3> QED
      BY <2>1, <3>1, <3>2, <3>3 DEF CountedFor
  <2> QED
    BY <2>1, <2>2 DEF Counted
<1>9. ASSUME NEW w \in Wizards, RulesRead(w) PROVE Counted'
  <2> DEFINE new  == [to |-> portal[w].tag, by |-> w]
             body == Append(rules, new)
  <2>1. /\ portal[w].st = "get" /\ Onward(w, "put") /\ portal'[w].body = body
        /\ UNCHANGED <<clients, rules, wiz, opened, unheard>>
    BY <1>9, ReadStep
  <2>2. new.by = w
    OBVIOUS
  <2> HIDE DEF new
  <2>3. ASSUME NEW v \in Wizards \ unheard PROVE CountedFor(v)'
    <3>1. CountedFor(v)
      BY <1>c
    <3>2. /\ ClientToCome(v)' => ClientToCome(v)
          /\ RuleToCome(v)' => RuleToCome(v)
          /\ v = w => RuleToCome(v)
      BY <1>0, <1>m, <2>1 DEF ClientToCome, RuleToCome, Live, Onward, Marked
    <3>3. AtMostOne(body, v) /\ ((RuleToCome(v) /\ v # w) => NoneBy(body, v))
      BY <1>0, <2>2, <3>1, <3>2, AppendCount DEF CountedFor
    <3> HIDE DEF body
    <3> QED
      BY <2>1, <3>1, <3>2, <3>3 DEF CountedFor, Onward
  <2> QED
    BY <2>1, <2>3 DEF Counted
<1>10. ASSUME NEW w \in Wizards, RulesStored(w) PROVE Counted'
  <2>1. /\ portal[w].st = "put" /\ Onward(w, "ruled") /\ portal'[w].body = <<>>
        /\ rules' = portal[w].body /\ UNCHANGED <<clients, wiz, opened, unheard>>
    BY <1>10, RulesStoredStep
  <2>2. ASSUME NEW v \in Wizards \ unheard PROVE CountedFor(v)'
    <3>1. CountedFor(v)
      BY <1>c
    <3>2. /\ ClientToCome(v)' => ClientToCome(v)
          /\ RuleToCome(v)' => (RuleToCome(v) /\ v # w)
      BY <1>0, <1>m, <2>1 DEF ClientToCome, RuleToCome, Live, Onward, Marked
    <3> QED
      BY <1>0, <2>1, <3>1, <3>2 DEF CountedFor, Onward
  <2> QED
    BY <2>1, <2>2 DEF Counted
<1>11. ASSUME NEW w \in Wizards, RulesAnswered(w) PROVE Counted'
  <2>1. /\ portal[w].st = "ruled" /\ Onward(w, "link") /\ portal'[w].body = portal[w].body
        /\ Live(w) => Hears(wiz.client, TRUE, wiz.step, wiz.invite)
        /\ ~Live(w) => wiz' = wiz
        /\ UNCHANGED <<clients, rules, opened, unheard>>
    BY <1>11, RulesAnsweredStep
  <2>2. ASSUME NEW v \in Wizards \ unheard PROVE CountedFor(v)'
    <3>1. CountedFor(v)
      BY <1>c
    <3>2. (ClientToCome(v)' => ClientToCome(v)) /\ (RuleToCome(v)' => RuleToCome(v))
      BY <1>0, <1>m, <2>1 DEF ClientToCome, RuleToCome, Live, Onward, Hears, Marked
    <3>3. \A u \in Wizards : portal'[u].body = portal[u].body
      BY <2>1 DEF Onward
    <3> QED
      BY <2>1, <3>1, <3>2, <3>3 DEF CountedFor
  <2> QED
    BY <2>1, <2>2 DEF Counted
<1>12. ASSUME NEW w \in Wizards, LinkAnswered(w) PROVE Counted'
  <2>1. /\ portal[w].st = "link" /\ Ended(w)
        /\ Live(w) => Hears(wiz.client, wiz.ruled, 2, portal[w].client)
        /\ ~Live(w) => wiz' = wiz
        /\ UNCHANGED <<clients, rules, opened, unheard>>
    BY <1>12, LinkStep
  <2>2. ASSUME NEW v \in Wizards \ unheard PROVE CountedFor(v)'
    <3>1. CountedFor(v)
      BY <1>c
    <3>2. (ClientToCome(v)' => ClientToCome(v)) /\ (RuleToCome(v)' => RuleToCome(v))
      BY <1>0, <1>m, <2>1 DEF ClientToCome, RuleToCome, Live, Ended, Hears, Marked
    <3> QED
      BY <1>0, <2>1, <3>1, <3>2 DEF CountedFor, Ended
  <2> QED
    BY <2>1, <2>2 DEF Counted
<1>13. ASSUME NEW w \in Wizards, ClientRefused(w) \/ RulesRefused(w) \/ PortalLost(w) PROVE Counted'
  <2>1. /\ portal[w].st # "idle" /\ Ended(w) /\ UNCHANGED <<clients, rules, wiz, opened>>
        /\ unheard \subseteq unheard'
        /\ portal[w].st \in {"posted", "ruled"} => w \in unheard'
    BY <1>13, EndStep
  <2>2. ASSUME NEW v \in Wizards \ unheard' PROVE CountedFor(v)'
    <3>1. CountedFor(v)
      BY <1>c, <2>1
    <3>2. (ClientToCome(v)' => ClientToCome(v)) /\ (RuleToCome(v)' => RuleToCome(v))
      BY <1>0, <2>1 DEF ClientToCome, RuleToCome, Live, Ended
    <3> QED
      BY <1>0, <2>1, <3>1, <3>2 DEF CountedFor, Ended
  <2> QED
    BY <2>2 DEF Counted
<1>14. ASSUME NEW w \in Wizards, TagChecked(w) PROVE Counted'
  <2>1. /\ portal[w].st = "post" /\ Onward(w, "checked") /\ portal'[w].body = portal[w].body
        /\ UNCHANGED <<clients, rules, wiz, opened, unheard>>
    BY <1>14, CheckedStep
  <2>2. ASSUME NEW v \in Wizards \ unheard PROVE CountedFor(v)'
    <3>1. CountedFor(v)
      BY <1>c
    <3>2. (ClientToCome(v)' => ClientToCome(v)) /\ (RuleToCome(v)' => RuleToCome(v))
      BY <1>0, <1>m, <2>1 DEF ClientToCome, RuleToCome, Live, Onward, Marked
    <3>3. \A u \in Wizards : portal'[u].body = portal[u].body
      BY <2>1 DEF Onward
    <3> QED
      BY <2>1, <3>1, <3>2, <3>3 DEF CountedFor
  <2> QED
    BY <2>1, <2>2 DEF Counted
<1> QED
  BY <1>1, <1>2, <1>3, <1>4, <1>5, <1>6, <1>7, <1>8, <1>9, <1>10, <1>11, <1>12, <1>13, <1>14, KindsOfSteps

LEMMA OneAtMost ==
    ASSUME NEW s, NEW w, AtMostOne(s, w)
    PROVE  Cardinality({n \in DOMAIN s : s[n].by = w}) <= 1
<1> DEFINE S == {n \in DOMAIN s : s[n].by = w}
<1>1. Single(S)
  BY DEF AtMostOne, Single
<1> HIDE DEF S
<1>2. Cardinality(S) <= 1
  BY <1>1, SmallSingle
<1> QED
  BY <1>2 DEF S

\* However often a wizard is retried, and whatever the other wizards' attempts
\* do meanwhile, it makes one client and adds one rule, unless an answer that
\* told it what it had done was lost (ReverseWizard.tsx, createdIdRef and
\* ruleDoneRef).
THEOREM RetryRepeatsNothing == Spec => []OneClientOneRule
<1>1. Init => Counted
  <2> SUFFICES ASSUME Init PROVE Counted
    OBVIOUS
  <2>1. /\ clients = <<>> /\ rules = <<>> /\ NoPortal.body = <<>>
        /\ \A v \in Wizards : portal[v] = NoPortal
    BY BlankWizard DEF Init
  <2> QED
    BY <2>1 DEF Counted, CountedFor, AtMostOne, NoneBy
<1>2. Counted => OneClientOneRule
  BY OneAtMost DEF Counted, CountedFor, OneClientOneRule
<1> QED
  BY <1>1, <1>2, SpecMarked, StepCounted, PTL DEF Spec
=============================================================================
