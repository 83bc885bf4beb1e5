-------------------------- MODULE SettingsPageProofs --------------------------
(***************************************************************************)
(* For every set of sections, values and bounds: no PUT of the page lacks  *)
(* the key of a switch it has on, a section's save leaves the fields of    *)
(* the others as they are stored, what a section shows and does not offer  *)
(* to save is stored, and a restart that a save owes is offered.           *)
(***************************************************************************)
EXTENDS SettingsPage, TLAPS

Switches == {Switch(s) : s \in KeySections}

\* The records and functions have the fields the actions update.
Shape ==
    /\ DOMAIN row = {"vals", "keys"} /\ DOMAIN row.vals = Fields
    /\ DOMAIN fetch = {"st", "for", "copy"}
    /\ DOMAIN page = {"at", "leaving", "restartTo", "xrayPrompt"}
    /\ DOMAIN savers = Runs
    /\ \A r \in Runs : /\ DOMAIN savers[r] = {"pc", "todo", "vals", "keys", "report"}
                       /\ DOMAIN savers[r].vals = Fields

\* A copy of the row knows of a key wherever it shows a switch on, and only of
\* keys that are stored.
HonestCopy(c) ==
    \A s \in KeySections : /\ c.vals[Switch(s)] # 0 => c.keySet[s]
                           /\ c.keySet[s] => row.keys[s]

KeysKept ==
    /\ \A s \in KeySections : row.vals[Switch(s)] # 0 => row.keys[s]
    /\ HonestCopy(cache)
    /\ HonestCopy(fetch.copy)
    /\ NeverWantsKey

\* One pass of saveAll at a time, started only from a copy of the row.
OnePass ==
    /\ \A r, q \in Runs : (savers[r].pc # "idle" /\ savers[q].pc # "idle") => r = q
    /\ \A r \in Runs : savers[r].pc # "idle" => (savingAll /\ cache.have)
    /\ dirty # <<>> => cache.have
    /\ fetch.st = "read" => fetch.copy.have

\* With no other writer and no failure, on a page that reaches the panel: the
\* copy on its way is the row, so is the cache, and so is what a PUT carries of
\* the other sections; between a write and its refetch none of that is promised.
Applied == \E r \in Runs : savers[r].pc = "applied"
Awaited == \E r \in Runs : savers[r].pc = "refetch" /\ fetch.st # "idle" /\ fetch.for = r

Fresh ==
    (Undisturbed /\ Reachable) =>
        /\ fetch.st = "read" => (Applied \/ fetch.copy.vals = row.vals)
        /\ cache.have => (Applied \/ Awaited \/ cache.vals = row.vals)
        /\ \A r \in Runs : savers[r].pc = "put" =>
              \A f \in Fields \ Owned(Section(r)) : savers[r].vals[f] = row.vals[f]

IInv == Shape /\ KeysKept /\ OnePass /\ Fresh

-----------------------------------------------------------------------------
LEMMA SwitchOwner ==
    /\ Fields = {"port", "https", "subPort", "custom", "strategy", "rules"}
    /\ \A s \in KeySections : /\ Switch(s) \in Fields /\ Switch(s) # "rules"
                              /\ \A t : Switch(s) \in Owned(t) <=> t = s
BY DEF Fields, OwnerOf, Owned, Switch, KeySections

LEMMA InitIInv == Init => IInv
<1> SUFFICES ASSUME Init PROVE IInv
  OBVIOUS
<1> USE DEF Init
<1>1. Shape
  BY DEF Shape, Asked, FreshPage, IdleSaver, EmptyForm
<1>2. KeysKept
  <2>1. HonestCopy(NoCopy)
    BY SwitchOwner DEF HonestCopy, NoCopy, NoKeys
  <2> QED
    BY <2>1, SwitchOwner DEF KeysKept, Asked, NeverWantsKey, IdleSaver, NoKeys
<1>3. OnePass
  BY DEF OnePass, IdleSaver, Asked
<1>4. Fresh
  BY DEF Fresh, IdleSaver, Asked, NoCopy
<1> QED
  BY <1>1, <1>2, <1>3, <1>4 DEF IInv
-----------------------------------------------------------------------------
(* One lemma per kind of step.                                              *)

\* Steps that touch neither the row, nor a copy of it, nor a pass.
LEMMA QuietStep ==
    ASSUME IInv, UNCHANGED <<row, cache, fetch, savers, savingAll>>,
           Undisturbed' => Undisturbed, Reachable' => Reachable,
           DOMAIN page' = DOMAIN page, dirty' # <<>> => cache.have
    PROVE  IInv'
<1> USE DEF IInv
<1>1. Shape' /\ KeysKept'
  BY DEF Shape, KeysKept, HonestCopy, NeverWantsKey, Acceptable, KeepStored
<1>2. OnePass'
  BY DEF OnePass
<1>3. Fresh'
  BY DEF Fresh, Applied, Awaited, Section
<1> QED
  BY <1>1, <1>2, <1>3

LEMMA SeenGrows ==
    ASSUME NEW k, Suffer(k) \/ Calmly
    PROVE  /\ Undisturbed' => Undisturbed
           /\ (Suffer(k) /\ k \in {"foreign", "fault"}) => ~Undisturbed'
BY DEF Suffer, Calmly, Undisturbed

\* An edit: only a loaded page takes one.
LEMMA TouchStep ==
    ASSUME IInv, NEW s, NEW shown, NEW keys, Touch(s, shown, keys)
    PROVE  IInv'
<1>1. UNCHANGED <<row, served, cache, fetch, savers, savingAll, page, seen>> /\ cache.have
  BY DEF Touch, server
<1> QED
  BY <1>1, QuietStep DEF Undisturbed, Reachable

LEMMA EditStep ==
    ASSUME IInv,
           (\E v \in Values : \/ EditAccess(v) \/ EditTls(v) \/ EditSubPort(v) \/ EditSubMode(v)
                              \/ EditStrategy(v) \/ EditRules(v))
           \/ \E s \in KeySections : PasteKey(s)
    PROVE  IInv'
BY TouchStep DEF EditAccess, EditTls, EditSubPort, EditSubMode, EditStrategy, EditRules, Type, PasteKey

LEMMA DiscardStep ==
    ASSUME IInv, DiscardAll
    PROVE  IInv'
<1>1. UNCHANGED <<row, served, cache, fetch, savers, savingAll, page, seen>> /\ dirty' = <<>>
  BY DEF DiscardAll, server
<1> QED
  BY <1>1, QuietStep DEF Undisturbed, Reachable

LEMMA RestartStep ==
    ASSUME IInv, RestartPanel \/ RestartXray \/ RestartLater
    PROVE  IInv'
<1>1. /\ UNCHANGED <<row, cache, fetch, savers, savingAll, seen, dirty>>
      /\ page'.at = page.at /\ DOMAIN page' = DOMAIN page
      /\ Reachable \/ UNCHANGED served
  BY DEF RestartPanel, RestartXray, RestartLater, server, IInv, Shape
<1>2. Reachable' => Reachable
  BY <1>1 DEF Reachable
<1>3. dirty' # <<>> => cache.have
  BY <1>1 DEF IInv, OnePass
<1> QED
  BY <1>1, <1>2, <1>3, QuietStep DEF Undisturbed

-----------------------------------------------------------------------------
(* The query.                                                               *)

\* What may become of the request under way: nothing read, or the row as it is.
LEMMA FetchStep ==
    ASSUME IInv, UNCHANGED <<row, served, cache, savers, savingAll, page, dirty>>,
           Undisturbed' => Undisturbed,
           \/ fetch' = Asked(ByPage) /\ fetch.st = "idle"
           \/ fetch' = Asked(ByPage) /\ ~Undisturbed'
           \/ fetch' = NoFetch /\ (~Undisturbed' \/ ~Reachable')
           \/ fetch' = [fetch EXCEPT !.st = "read",
                          !.copy = [have |-> TRUE, vals |-> row.vals, keySet |-> row.keys]]
              /\ fetch.st = "asked"
    PROVE  IInv'
<1> USE DEF IInv
<1>1. /\ DOMAIN fetch' = {"st", "for", "copy"}
      /\ \/ fetch'.copy = NoCopy /\ fetch'.st # "read"
         \/ fetch'.copy = [have |-> TRUE, vals |-> row.vals, keySet |-> row.keys]
      /\ \/ ~Undisturbed' \/ ~Reachable'
         \/ fetch.st = "idle"
         \/ fetch'.st # "idle" /\ fetch.st # "idle" /\ fetch'.for = fetch.for
  <2>1. CASE fetch' = Asked(ByPage)
    BY <2>1 DEF Asked
  <2>2. CASE fetch' = NoFetch
    BY <2>2 DEF NoFetch
  <2>3. CASE fetch' = [fetch EXCEPT !.st = "read",
                         !.copy = [have |-> TRUE, vals |-> row.vals, keySet |-> row.keys]]
             /\ fetch.st = "asked"
    <3>1. /\ DOMAIN fetch' = {"st", "for", "copy"} /\ fetch'.st = "read"
          /\ fetch'.copy = [have |-> TRUE, vals |-> row.vals, keySet |-> row.keys]
          /\ fetch'.for = fetch.for
      BY <2>3 DEF Shape
    <3> QED
      BY <2>3, <3>1
  <2> QED
    BY <2>1, <2>2, <2>3
<1>2. Shape'
  BY <1>1 DEF Shape
<1>3. KeysKept'
  <2>1. HonestCopy(NoCopy)'
    BY SwitchOwner DEF HonestCopy, NoCopy, NoKeys
  <2>2. HonestCopy(fetch.copy)'
    <3>1. CASE fetch'.copy = NoCopy
      BY <2>1, <3>1 DEF HonestCopy
    <3>2. CASE fetch'.copy = [have |-> TRUE, vals |-> row.vals, keySet |-> row.keys]
      BY <3>2 DEF HonestCopy, KeysKept
    <3> QED
      BY <1>1, <3>1, <3>2
  <2>3. HonestCopy(cache)' /\ NeverWantsKey'
    BY DEF KeysKept, HonestCopy, NeverWantsKey, Acceptable, KeepStored
  <2> QED
    BY <2>2, <2>3 DEF KeysKept
<1>4. OnePass'
  BY <1>1 DEF OnePass
<1>5. Fresh'
  <2> SUFFICES ASSUME Undisturbed', Reachable' PROVE
        /\ fetch'.st = "read" => (Applied' \/ fetch'.copy.vals = row'.vals)
        /\ cache'.have => (Applied' \/ Awaited' \/ cache'.vals = row'.vals)
        /\ \A r \in Runs : savers'[r].pc = "put" =>
              \A f \in Fields \ Owned(Section(r)') : savers'[r].vals[f] = row'.vals[f]
    BY DEF Fresh
  <2>1. Undisturbed /\ Reachable
    BY DEF Reachable
  <2>2. fetch'.st = "read" => fetch'.copy.vals = row.vals
    BY <1>1
  <2>3. Awaited => Awaited'
    BY <1>1 DEF Awaited
  <2> QED
    BY <2>1, <2>2, <2>3 DEF Fresh, Applied, Section
<1> QED
  BY <1>2, <1>3, <1>4, <1>5

LEMMA QueryStep ==
    ASSUME IInv, Refetch \/ GetAnswered \/ GetFails
    PROVE  IInv'
<1>1. CASE Refetch
  BY <1>1, FetchStep, SeenGrows DEF Refetch, server
<1>2. CASE GetAnswered
  BY <1>2, FetchStep DEF GetAnswered, server, Undisturbed
<1>3. CASE GetFails
  <2>1. UNCHANGED <<row, served, cache, savers, savingAll, page, dirty>> /\ fetch' = NoFetch
    BY <1>3 DEF GetFails, server
  <2>2. (Undisturbed' => Undisturbed) /\ (~Undisturbed' \/ ~Reachable')
    BY <1>3, <2>1, SeenGrows DEF GetFails, Reachable
  <2> QED
    BY <2>1, <2>2, FetchStep
<1> QED
  BY <1>1, <1>2, <1>3

LEMMA DeliverStep ==
    ASSUME IInv, GetDelivered
    PROVE  IInv'
<1> USE DEF IInv
<1>1. /\ UNCHANGED <<row, served, savers, savingAll, page, dirty, seen>>
      /\ fetch.st = "read" /\ cache' = fetch.copy /\ fetch' = NoFetch
      /\ fetch'.st = "idle" /\ fetch'.copy = NoCopy
  BY DEF GetDelivered, server, NoFetch
<1>2. Shape'
  BY <1>1 DEF Shape, NoFetch
<1>3. KeysKept'
  <2>1. HonestCopy(NoCopy)'
    BY SwitchOwner DEF HonestCopy, NoCopy, NoKeys
  <2> QED
    BY <1>1, <2>1 DEF KeysKept, HonestCopy, NeverWantsKey, Acceptable, KeepStored
<1>4. OnePass'
  BY <1>1 DEF OnePass
<1>5. Fresh'
  BY <1>1 DEF Fresh, Applied, Awaited, Section, Undisturbed, Reachable
<1> QED
  BY <1>2, <1>3, <1>4, <1>5

-----------------------------------------------------------------------------
(* The passes of saveAll.                                                   *)

LEMMA SaveAllStep ==
    ASSUME IInv, NEW r \in Runs, SaveAll(r)
    PROVE  IInv'
<1> USE DEF IInv
<1>1. /\ UNCHANGED <<row, served, cache, fetch, page, dirty, seen>>
      /\ ~savingAll /\ savingAll' /\ cache.have
      /\ savers' = [savers EXCEPT ![r].pc = "next", ![r].todo = dirty]
  BY DEF SaveAll, SaveGuard, server, OnePass
<1>2. /\ \A q \in Runs : savers[q].pc = "idle"
      /\ savers'[r].pc = "next" /\ savers'[r].vals = savers[r].vals
      /\ DOMAIN savers' = Runs /\ DOMAIN savers'[r] = DOMAIN savers[r]
      /\ \A q \in Runs \ {r} : savers'[q] = savers[q]
  BY <1>1 DEF Shape, OnePass
<1>3. Shape'
  BY <1>1, <1>2 DEF Shape
<1>4. KeysKept'
  BY <1>1, <1>2 DEF KeysKept, HonestCopy, NeverWantsKey
<1>5. OnePass'
  BY <1>1, <1>2 DEF OnePass
<1>6. Fresh'
  BY <1>1, <1>2 DEF Fresh, Applied, Awaited, Undisturbed, Reachable
<1> QED
  BY <1>3, <1>4, <1>5, <1>6

\* A section is sent from a copy that is fresh and honest.
LEMMA SendStep ==
    ASSUME IInv, NEW r \in Runs, Send(r)
    PROVE  IInv'
<1> USE DEF IInv
<1>1. /\ UNCHANGED <<row, served, cache, fetch, form, typed, page, dirty, seen, savingAll>>
      /\ savers[r].pc = "next" /\ Valid(Section(r))
      /\ savers' = [savers EXCEPT ![r].pc = "put",
                      ![r].vals = MergePanelSettings(Section(r)),
                      ![r].keys = SentKeys(Section(r))]
  BY DEF Send, server
<1>2. /\ savers'[r].pc = "put"
      /\ savers'[r].vals = MergePanelSettings(Section(r))
      /\ savers'[r].keys = SentKeys(Section(r))
      /\ Section(r)' = Section(r)
      /\ DOMAIN savers' = Runs /\ DOMAIN savers'[r] = DOMAIN savers[r]
      /\ \A q \in Runs \ {r} : savers'[q] = savers[q]
  BY <1>1 DEF Shape, Section
<1>3. \A q \in Runs \ {r} : savers[q].pc = "idle"
  BY <1>1 DEF OnePass
<1>4. Shape'
  BY <1>1, <1>2 DEF Shape, MergePanelSettings
<1>5. KeysKept'
  <2>1. Acceptable(r)'
    <3> SUFFICES ASSUME NEW s \in KeySections, savers'[r].vals[Switch(s)] # 0
                 PROVE  savers'[r].keys[s] \/ row.keys[s]
      BY <1>1 DEF Acceptable, KeepStored
    <3>1. CASE s = Section(r)
      <4>1. form[Switch(s)] # 0
        BY <1>2, <3>1, SwitchOwner DEF MergePanelSettings
      <4>2. cache.keySet[s] \/ typed[s]
        BY <1>1, <3>1, <4>1 DEF Valid
      <4> QED
        BY <1>2, <3>1, <4>2 DEF SentKeys, KeysKept, HonestCopy
    <3>2. CASE s # Section(r)
      <4>1. cache.vals[Switch(s)] # 0
        BY <1>2, <3>2, SwitchOwner DEF MergePanelSettings
      <4> QED
        BY <4>1 DEF KeysKept, HonestCopy
    <3> QED
      BY <3>1, <3>2
  <2>2. NeverWantsKey'
    BY <1>2, <1>3, <2>1 DEF NeverWantsKey
  <2> QED
    BY <1>1, <2>2 DEF KeysKept, HonestCopy
<1>6. OnePass'
  BY <1>1, <1>2, <1>3 DEF OnePass
<1>7. Fresh'
  <2> SUFFICES ASSUME Undisturbed, Reachable PROVE
        /\ fetch.st = "read" => (Applied' \/ fetch.copy.vals = row.vals)
        /\ cache.have => (Applied' \/ Awaited' \/ cache.vals = row.vals)
        /\ \A q \in Runs : savers'[q].pc = "put" =>
              \A f \in Fields \ Owned(Section(q)') : savers'[q].vals[f] = row.vals[f]
    BY <1>1 DEF Fresh, Undisturbed, Reachable
  <2>1. ~Applied /\ ~Awaited
    BY <1>1, <1>3 DEF Applied, Awaited
  <2>2. cache.have /\ cache.vals = row.vals
    BY <1>1, <2>1 DEF Fresh, OnePass
  <2>3. \A f \in Fields \ Owned(Section(r)) : savers'[r].vals[f] = row.vals[f]
    BY <1>2, <2>2 DEF MergePanelSettings
  <2>4. \A q \in Runs : savers'[q].pc = "put" => q = r
    BY <1>2, <1>3
  <2>5. fetch.st = "read" => fetch.copy.vals = row.vals
    BY <2>1 DEF Fresh
  <2> QED
    BY <1>2, <2>2, <2>3, <2>4, <2>5
<1> QED
  BY <1>4, <1>5, <1>6, <1>7

\* A pass that goes on, ends, or drops a section, with nothing else changed.
LEMMA PassMoves ==
    ASSUME IInv, NEW r \in Runs, UNCHANGED <<row, served, cache, fetch, page, dirty>>,
           Undisturbed' => Undisturbed, NEW t,
           savers[r].pc # "idle",
           savers[r].pc = "applied" => ~Undisturbed',
           savers[r].pc = "refetch" => fetch.st = "idle" \/ fetch.for # r,
           \/ savers' = [savers EXCEPT ![r] = [IdleSaver EXCEPT !.pc = "next", !.todo = t]]
              /\ savingAll' = savingAll
           \/ savers' = [savers EXCEPT ![r] = IdleSaver] /\ savingAll' = FALSE
    PROVE  IInv'
<1> USE DEF IInv
<1>1. /\ savers'[r].pc = "idle" \/ (savers'[r].pc = "next" /\ savingAll' = savingAll)
      /\ DOMAIN savers' = Runs
      /\ DOMAIN savers'[r] = {"pc", "todo", "vals", "keys", "report"}
      /\ DOMAIN savers'[r].vals = Fields
      /\ \A q \in Runs \ {r} : savers'[q] = savers[q]
  <2> DEFINE next == [IdleSaver EXCEPT !.pc = "next", !.todo = t]
  <2>1. /\ DOMAIN IdleSaver = {"pc", "todo", "vals", "keys", "report"}
        /\ IdleSaver.pc = "idle" /\ DOMAIN IdleSaver.vals = Fields
    BY DEF IdleSaver, EmptyForm
  <2>2. /\ DOMAIN next = {"pc", "todo", "vals", "keys", "report"}
        /\ next.pc = "next" /\ DOMAIN next.vals = Fields
    BY <2>1
  <2> HIDE DEF next
  <2>3. CASE savers' = [savers EXCEPT ![r] = next] /\ savingAll' = savingAll
    BY <2>2, <2>3 DEF Shape
  <2>4. CASE savers' = [savers EXCEPT ![r] = IdleSaver] /\ savingAll' = FALSE
    BY <2>1, <2>4 DEF Shape
  <2> QED
    BY <2>3, <2>4 DEF next
<1>2. \A q \in Runs \ {r} : savers[q].pc = "idle"
  BY DEF OnePass
<1>3. Shape'
  BY <1>1 DEF Shape
<1>4. KeysKept'
  BY <1>1, <1>2 DEF KeysKept, HonestCopy, NeverWantsKey
<1>5. OnePass'
  BY <1>1, <1>2 DEF OnePass
<1>6. Fresh'
  <2>1. \A q \in Runs : savers'[q].pc # "put"
    BY <1>1, <1>2
  <2>2. Undisturbed' => ~Applied /\ ~Awaited
    BY <1>2 DEF Applied, Awaited
  <2>3. Reachable' => Reachable
    BY DEF Reachable
  <2> QED
    BY <2>1, <2>2, <2>3 DEF Fresh
<1> QED
  BY <1>3, <1>4, <1>5, <1>6

LEMMA PassStep ==
    ASSUME IInv, NEW r \in Runs, SkipInvalid(r) \/ Settled(r) \/ Finish(r) \/ PutFails(r)
    PROVE  IInv'
<1>1. CASE SkipInvalid(r)
  BY <1>1, PassMoves DEF SkipInvalid, Advance, server, Undisturbed
<1>2. CASE Settled(r)
  BY <1>2, PassMoves DEF Settled, Advance, server, Undisturbed
<1>3. CASE Finish(r)
  BY <1>3, PassMoves DEF Finish, server, Undisturbed
<1>4. CASE PutFails(r)
  <2>1. /\ UNCHANGED <<row, served, cache, fetch, page, dirty, savingAll>>
        /\ savers[r].pc \in {"put", "applied"}
        /\ savers' = [savers EXCEPT ![r] =
                        [IdleSaver EXCEPT !.pc = "next", !.todo = Tail(savers[r].todo)]]
    BY <1>4 DEF PutFails, Advance, InPut, server
  <2>2. (Undisturbed' => Undisturbed) /\ (savers[r].pc = "applied" => ~Undisturbed')
    BY <1>4, <2>1, SeenGrows DEF PutFails
  <2> QED
    BY <2>1, <2>2, PassMoves
<1> QED
  BY <1>1, <1>2, <1>3, <1>4

-----------------------------------------------------------------------------
(* The panel's side, and a page that is loaded again.                       *)

\* A PUT becomes the row: every switch it has on finds its key.
LEMMA WriteStep ==
    ASSUME IInv, NEW r \in Runs, NEW report, WriteRow(r, report)
    PROVE  IInv'
<1> USE DEF IInv
<1>1. /\ UNCHANGED <<cache, fetch, page, dirty, savingAll, seen>>
      /\ savers[r].pc = "put" /\ Acceptable(r) /\ Reachable
      /\ row' = [vals |-> savers[r].vals, keys |-> KeepStored(savers[r].keys)]
      /\ savers' = [savers EXCEPT ![r].pc = "applied", ![r].report = report]
  BY DEF WriteRow
<1>2. /\ savers'[r].pc = "applied" /\ savers'[r].vals = savers[r].vals
      /\ DOMAIN savers' = Runs /\ DOMAIN savers'[r] = DOMAIN savers[r]
      /\ \A q \in Runs \ {r} : savers'[q] = savers[q]
      /\ \A q \in Runs \ {r} : savers[q].pc = "idle"
  BY <1>1 DEF Shape, OnePass
<1>3. \A s \in KeySections : row.keys[s] => row'.keys[s]
  BY <1>1 DEF KeepStored
<1>4. Shape'
  BY <1>1, <1>2 DEF Shape
<1>5. KeysKept'
  <2>1. \A s \in KeySections : row'.vals[Switch(s)] # 0 => row'.keys[s]
    BY <1>1 DEF Acceptable
  <2> QED
    BY <1>1, <1>2, <1>3, <2>1 DEF KeysKept, HonestCopy, NeverWantsKey
<1>6. OnePass'
  BY <1>1, <1>2 DEF OnePass
<1>7. Fresh'
  BY <1>1, <1>2 DEF Fresh, Applied
<1> QED
  BY <1>4, <1>5, <1>6, <1>7

LEMMA AnswerStep ==
    ASSUME IInv, NEW r \in Runs, PutAnswered(r)
    PROVE  IInv'
<1> USE DEF IInv
<1>1. /\ UNCHANGED <<row, served, cache, savingAll, seen>>
      /\ savers[r].pc = "applied"
      /\ fetch' = Asked(r)
      /\ savers' = [savers EXCEPT ![r].pc = "refetch"]
  BY DEF PutAnswered, server
<1>2. page'.at = page.at /\ DOMAIN page' = DOMAIN page
  <2>1. AccessSaved(r) \/ TlsSaved(r) \/ XraySaved(r) \/ UNCHANGED page
    BY DEF PutAnswered
  <2> QED
    BY <2>1 DEF AccessSaved, TlsSaved, XraySaved, Shape
<1>3. /\ savers'[r].pc = "refetch" /\ savers'[r].vals = savers[r].vals
      /\ DOMAIN savers' = Runs /\ DOMAIN savers'[r] = DOMAIN savers[r]
      /\ \A q \in Runs \ {r} : savers'[q] = savers[q]
      /\ \A q \in Runs \ {r} : savers[q].pc = "idle"
      /\ cache.have
  BY <1>1 DEF Shape, OnePass
<1>4. fetch'.st = "asked" /\ fetch'.for = r /\ fetch'.copy = NoCopy /\ DOMAIN fetch' = DOMAIN fetch
  BY <1>1 DEF Asked, Shape
<1>5. Shape'
  BY <1>1, <1>2, <1>3, <1>4 DEF Shape
<1>6. KeysKept'
  <2>1. HonestCopy(NoCopy)'
    BY SwitchOwner DEF HonestCopy, NoCopy, NoKeys
  <2> QED
    BY <1>1, <1>3, <1>4, <2>1 DEF KeysKept, HonestCopy, NeverWantsKey
<1>7. OnePass'
  BY <1>1, <1>3, <1>4 DEF OnePass
<1>8. Fresh'
  BY <1>1, <1>3, <1>4 DEF Fresh, Awaited
<1> QED
  BY <1>5, <1>6, <1>7, <1>8

LEMMA NavigateStep ==
    ASSUME IInv, Navigate
    PROVE  IInv'
<1> USE DEF IInv
<1>1. /\ UNCHANGED <<row, served>>
      /\ cache' = NoCopy /\ fetch' = Asked(ByPage) /\ dirty' = <<>>
      /\ savers' = [r \in Runs |-> IdleSaver]
      /\ \E a : page' = FreshPage(a)
  BY DEF Navigate, server
<1>2. /\ \A r \in Runs : savers'[r].pc = "idle"
      /\ fetch'.st = "asked" /\ fetch'.copy = NoCopy /\ ~cache'.have
  BY <1>1 DEF IdleSaver, Asked, NoCopy
<1>3. Shape'
  BY <1>1 DEF Shape, IdleSaver, EmptyForm, Asked, FreshPage
<1>4. KeysKept'
  <2>1. HonestCopy(NoCopy)'
    BY SwitchOwner DEF HonestCopy, NoCopy, NoKeys
  <2> QED
    BY <1>1, <1>2, <2>1 DEF KeysKept, HonestCopy, NeverWantsKey
<1>5. OnePass'
  BY <1>1, <1>2 DEF OnePass
<1>6. Fresh'
  BY <1>2 DEF Fresh
<1> QED
  BY <1>3, <1>4, <1>5, <1>6

LEMMA ForeignStep ==
    ASSUME IInv, NEW v, NEW here, ForeignWrite(v, here)
    PROVE  IInv'
<1> USE DEF IInv
<1>1. /\ UNCHANGED <<cache, savers, savingAll, page, dirty>>
      /\ row' = [row EXCEPT !.vals["rules"] = v]
      /\ fetch' = fetch \/ fetch' = Asked(ByPage)
      /\ ~Undisturbed'
  BY SeenGrows DEF ForeignWrite
<1>2. /\ DOMAIN row' = DOMAIN row /\ row'.keys = row.keys /\ DOMAIN row'.vals = DOMAIN row.vals
      /\ \A f \in Fields \ {"rules"} : row'.vals[f] = row.vals[f]
  BY <1>1 DEF Shape
<1>3. /\ DOMAIN fetch' = {"st", "for", "copy"}
      /\ fetch' = fetch \/ (fetch'.copy = NoCopy /\ fetch'.st = "asked")
  BY <1>1 DEF Asked, Shape
<1>4. Shape'
  BY <1>1, <1>2, <1>3 DEF Shape
<1>5. KeysKept'
  <2>1. HonestCopy(NoCopy)'
    BY SwitchOwner DEF HonestCopy, NoCopy, NoKeys
  <2>2. HonestCopy(fetch.copy)' /\ HonestCopy(cache)'
    BY <1>1, <1>2, <1>3, <2>1 DEF KeysKept, HonestCopy
  <2>3. \A s \in KeySections : row'.vals[Switch(s)] # 0 => row'.keys[s]
    BY <1>2, SwitchOwner DEF KeysKept
  <2>4. NeverWantsKey'
    BY <1>1, <1>2 DEF KeysKept, NeverWantsKey, Acceptable, KeepStored
  <2> QED
    BY <2>2, <2>3, <2>4 DEF KeysKept
<1>6. OnePass'
  BY <1>1, <1>3 DEF OnePass
<1>7. Fresh'
  BY <1>1 DEF Fresh
<1> QED
  BY <1>4, <1>5, <1>6, <1>7

-----------------------------------------------------------------------------
LEMMA StepIInv == IInv /\ [Next]_vars => IInv'
<1> SUFFICES ASSUME IInv, [Next]_vars PROVE IInv'
  OBVIOUS
<1>1. CASE Refetch \/ Query
  BY <1>1, QueryStep, DeliverStep DEF Query
<1>2. CASE \/ \E v \in Values : \/ EditAccess(v) \/ EditTls(v) \/ EditSubPort(v) \/ EditSubMode(v)
                                \/ EditStrategy(v) \/ EditRules(v)
           \/ \E s \in KeySections : PasteKey(s)
  BY <1>2, EditStep
<1>3. CASE DiscardAll
  BY <1>3, DiscardStep
<1>4. CASE \E r \in Runs : SaveAll(r) \/ Loop(r) \/ Network(r)
  BY <1>4, SaveAllStep, SendStep, PassStep, WriteStep, AnswerStep DEF Loop, Network
<1>5. CASE Navigate
  BY <1>5, NavigateStep
<1>6. CASE RestartPanel \/ RestartXray \/ RestartLater
  BY <1>6, RestartStep
<1>7. CASE \E v \in Values, here \in BOOLEAN : ForeignWrite(v, here)
  BY <1>7, ForeignStep
<1>8. CASE UNCHANGED vars
  BY <1>8, QuietStep DEF vars, Undisturbed, Reachable, IInv, OnePass
<1> QED
  BY <1>1, <1>2, <1>3, <1>4, <1>5, <1>6, <1>7, <1>8 DEF Next

LEMMA SpecIInv == Spec => []IInv
BY InitIInv, StepIInv, PTL DEF Spec

\* No PUT under way lacks the key of a switch it has on, whatever the tab's copy
\* of the row was worth (Settings.tsx:1232 and the backend's ensure_* checks).
THEOREM KeyNeverWanting == Spec => []NeverWantsKey
<1>1. IInv => NeverWantsKey
  BY DEF IInv, KeysKept
<1> QED
  BY <1>1, SpecIInv, PTL

\* With the page the only writer and every request answered, a PUT leaves the
\* fields of the other sections as they are stored (Settings.tsx:263).
THEOREM SavesOwnFieldsOnly == Spec => OnlyOwnFields
<1> DEFINE A == \A r \in Runs :
                  (Undisturbed /\ savers[r].pc = "put" /\ savers'[r].pc = "applied")
                     => \A f \in Fields \ Owned(Section(r)) : row'.vals[f] = row.vals[f]
<1>1. ASSUME IInv, [Next]_vars, NEW r \in Runs, Undisturbed,
             savers[r].pc = "put", savers'[r].pc = "applied"
      PROVE  \A f \in Fields \ Owned(Section(r)) : row'.vals[f] = row.vals[f]
  <2> USE <1>1 DEF IInv
  <2>1. CASE \E report : WriteRow(r, report)
    BY <2>1 DEF WriteRow, Fresh
  <2>2. CASE UNCHANGED savers
    BY <2>2
  <2>3. CASE UNCHANGED row
    BY <2>3
  <2>4. CASE \E q \in Runs : \E report : q # r /\ WriteRow(q, report)
    BY <2>4 DEF WriteRow, OnePass
  <2> QED
    <3>1. CASE Refetch \/ Query
      BY <3>1, <2>2 DEF Refetch, Query, GetAnswered, GetDelivered, GetFails
    <3>2. CASE \/ \E v \in Values : \/ EditAccess(v) \/ EditTls(v) \/ EditSubPort(v) \/ EditSubMode(v)
                                    \/ EditStrategy(v) \/ EditRules(v)
               \/ \E s \in KeySections : PasteKey(s)
      BY <3>2, <2>2 DEF EditAccess, EditTls, EditSubPort, EditSubMode, EditStrategy, EditRules, Type,
                        PasteKey, Touch
    <3>3. CASE DiscardAll \/ RestartPanel \/ RestartXray \/ RestartLater
      BY <3>3, <2>2 DEF DiscardAll, RestartPanel, RestartXray, RestartLater
    <3>4. CASE \E q \in Runs : SaveAll(q) \/ Loop(q)
      BY <3>4, <2>3 DEF SaveAll, Loop, Send, SkipInvalid, Settled, Finish, server
    <3>5. CASE \E q \in Runs : Network(q)
      BY <3>5, <2>1, <2>3, <2>4 DEF Network, PutAnswered, PutFails, server
    <3>6. CASE Navigate
      BY <3>6, <2>3 DEF Navigate, server
    <3>7. CASE \E v \in Values, here \in BOOLEAN : ForeignWrite(v, here)
      BY <3>7, <2>2 DEF ForeignWrite
    <3>8. CASE UNCHANGED vars
      BY <3>8, <2>2 DEF vars
    <3> QED
      BY <3>1, <3>2, <3>3, <3>4, <3>5, <3>6, <3>7, <3>8 DEF Next
<1>2. IInv /\ [Next]_vars => [A]_vars
  BY <1>1
<1> QED
  BY <1>2, SpecIInv, PTL DEF Spec, OnlyOwnFields

-----------------------------------------------------------------------------
(* Types.                                                                   *)

\* The bar lists a section once, and a pass that has sent something knows which
\* section it was.
Placed ==
    /\ \A i, j \in DOMAIN dirty : dirty[i] = dirty[j] => i = j
    /\ \A r \in Runs : savers[r].pc \in {"put", "applied", "refetch"} => savers[r].todo # <<>>

Typed == TypeOK /\ Placed

LEMMA Joined ==
    ASSUME NEW S, NEW a \in Seq(S), NEW b \in Seq(S)
    PROVE  /\ a \o b \in Seq(S) /\ Len(a \o b) = Len(a) + Len(b)
           /\ \A i \in 1..Len(a) : (a \o b)[i] = a[i]
           /\ \A i \in 1..Len(b) : (a \o b)[Len(a) + i] = b[i]
OBVIOUS

\* Dropping a section from the bar drops that one.
LEMMA DropFromBar ==
    ASSUME dirty \in Seq(Sections), \A i, j \in DOMAIN dirty : dirty[i] = dirty[j] => i = j,
           NEW s, Contains(dirty, s)
    PROVE  LET bar == RemoveAt(dirty, Place(s)) IN
           /\ bar \in Seq(Sections)
           /\ ToSet(bar) = ToSet(dirty) \ {s}
           /\ \A i, j \in DOMAIN bar : bar[i] = bar[j] => i = j
<1> DEFINE p == Place(s)
           bar == RemoveAt(dirty, p)
<1>1. p \in 1..Len(dirty) /\ dirty[p] = s
  BY DEF Place, Contains
<1> HIDE DEF p
<1>2. /\ bar \in Seq(Sections) /\ Len(bar) = Len(dirty) - 1
      /\ \A i \in 1..Len(bar) : bar[i] = IF i < p THEN dirty[i] ELSE dirty[i + 1]
  <2> DEFINE front == SubSeq(dirty, 1, p - 1)
             back == SubSeq(dirty, p + 1, Len(dirty))
  <2>1. /\ front \in Seq(Sections) /\ Len(front) = p - 1
        /\ \A i \in 1..(p - 1) : front[i] = dirty[i]
    BY <1>1
  <2>2. /\ back \in Seq(Sections) /\ Len(back) = Len(dirty) - p
        /\ \A i \in 1..(Len(dirty) - p) : back[i] = dirty[p + i]
    BY <1>1
  <2> HIDE DEF front, back
  <2>3. bar = front \o back
    BY DEF RemoveAt, front, back
  <2> HIDE DEF bar
  <2>4. bar \in Seq(Sections) /\ Len(bar) = Len(front) + Len(back)
    BY <2>1, <2>2, <2>3, Joined
  <2>5. /\ \A i \in 1..Len(front) : bar[i] = front[i]
        /\ \A i \in 1..Len(back) : bar[Len(front) + i] = back[i]
    BY <2>1, <2>2, <2>3, Joined
  <2>6. ASSUME NEW i \in 1..Len(bar) PROVE bar[i] = IF i < p THEN dirty[i] ELSE dirty[i + 1]
    <3>1. CASE i < p
      BY <1>1, <2>1, <2>5, <3>1
    <3>2. CASE i >= p
      <4>1. i - (p - 1) \in 1..(Len(dirty) - p)
        BY <1>1, <2>1, <2>2, <2>4, <3>2
      <4>2. bar[Len(front) + (i - (p - 1))] = back[i - (p - 1)]
        BY <2>2, <2>5, <4>1
      <4>3. bar[i] = dirty[p + (i - (p - 1))]
        BY <1>1, <2>1, <2>2, <4>1, <4>2
      <4> QED
        BY <1>1, <3>2, <4>3
    <3> QED
      BY <1>1, <3>1, <3>2
  <2> QED
    BY <1>1, <2>1, <2>2, <2>4, <2>6
<1> HIDE DEF bar
<1>3. ToSet(bar) = ToSet(dirty) \ {s}
  <2>1. ASSUME NEW x \in ToSet(bar) PROVE x \in ToSet(dirty) \ {s}
    <3>1. PICK i \in 1..Len(bar) : x = bar[i]
      BY <1>2 DEF ToSet
    <3>2. PICK j \in 1..Len(dirty) : j # p /\ x = dirty[j]
      BY <1>1, <1>2, <3>1
    <3> QED
      BY <1>1, <3>2 DEF ToSet
  <2>2. ASSUME NEW x \in ToSet(dirty), x # s PROVE x \in ToSet(bar)
    <3>1. PICK i \in 1..Len(dirty) : x = dirty[i]
      BY DEF ToSet
    <3>2. CASE i < p
      <4>1. i \in 1..Len(bar) /\ bar[i] = x
        BY <1>1, <1>2, <3>1, <3>2
      <4> QED
        BY <1>2, <4>1 DEF ToSet
    <3>3. CASE i > p
      <4>1. i - 1 \in 1..Len(bar) /\ bar[i - 1] = x
        BY <1>1, <1>2, <3>1, <3>3
      <4> QED
        BY <1>2, <4>1 DEF ToSet
    <3> QED
      BY <1>1, <2>2, <3>1, <3>2, <3>3
  <2> QED
    BY <2>1, <2>2
<1>4. \A i, j \in DOMAIN bar : bar[i] = bar[j] => i = j
  BY <1>1, <1>2
<1> QED
  BY <1>2, <1>3, <1>4 DEF bar, p

\* What a flag does to the bar.
LEMMA FlagStep ==
    ASSUME Typed, NEW s, NEW isDirty \in BOOLEAN, Flag(s, isDirty), isDirty => s \in Sections
    PROVE  /\ dirty' \in Seq(Sections)
           /\ \A i, j \in DOMAIN dirty' : dirty'[i] = dirty'[j] => i = j
           /\ ToSet(dirty') = IF isDirty THEN ToSet(dirty) \cup {s} ELSE ToSet(dirty) \ {s}
<1> USE DEF Typed, TypeOK, Placed
<1>1. CASE Contains(dirty, s) /\ ~isDirty
  BY <1>1, DropFromBar DEF Flag
<1>2. CASE Contains(dirty, s) /\ isDirty
  <2>1. s \in ToSet(dirty)
    BY <1>2 DEF Contains, ToSet
  <2> QED
    BY <1>2, <2>1 DEF Flag
<1>3. CASE ~Contains(dirty, s)
  <2>1. s \notin ToSet(dirty)
    BY <1>3 DEF Contains, ToSet
  <2>2. CASE ~isDirty
    BY <1>3, <2>1, <2>2 DEF Flag
  <2>3. CASE isDirty
    <3>1. /\ dirty' = Append(dirty, s) /\ Len(dirty') = Len(dirty) + 1
          /\ dirty' \in Seq(Sections)
          /\ \A i \in 1..Len(dirty) : dirty'[i] = dirty[i] /\ dirty[i] # s
          /\ dirty'[Len(dirty) + 1] = s
      BY <1>3, <2>3 DEF Flag, Contains
    <3>2. ToSet(dirty') = ToSet(dirty) \cup {s}
      <4>1. ToSet(dirty') \subseteq ToSet(dirty) \cup {s}
        BY <3>1 DEF ToSet
      <4>2. ASSUME NEW x \in ToSet(dirty) PROVE x \in ToSet(dirty')
        <5>1. PICK i \in 1..Len(dirty) : x = dirty[i]
          BY DEF ToSet
        <5> QED
          BY <3>1, <5>1 DEF ToSet
      <4>3. s \in ToSet(dirty')
        BY <3>1 DEF ToSet
      <4> QED
        BY <4>1, <4>2, <4>3
    <3> QED
      BY <2>3, <3>1, <3>2
  <2> QED
    BY <2>2, <2>3
<1> QED
  BY <1>1, <1>2, <1>3

LEMMA InitTyped == Init => Typed
<1> SUFFICES ASSUME Init PROVE Typed
  OBVIOUS
<1>1. NoKeys \in Keys /\ EmptyForm \in Row /\ NoCopy \in Copy
  BY SettingsAssumption DEF NoKeys, EmptyForm, NoCopy, Keys, Row, Copy
<1>2. IdleSaver \in SaverType
  BY <1>1 DEF IdleSaver, SaverType
<1>3. /\ row \in [vals : Row, keys : Keys] /\ served \in Address /\ loaded \in Values
      /\ cache \in Copy /\ form \in Row /\ typed \in Keys
  BY <1>1, SettingsAssumption DEF Init, Address, EmptyForm
<1>7. dirty \in Seq(Sections) /\ savers \in [Runs -> SaverType] /\ savingAll \in BOOLEAN
  <2>1. dirty = <<>> /\ savers = [r \in Runs |-> IdleSaver] /\ savingAll = FALSE
    BY DEF Init
  <2>2. dirty \in Seq(Sections)
    BY <2>1
  <2>3. savers \in [Runs -> SaverType]
    BY <1>2, <2>1
  <2> QED
    BY <2>1, <2>2, <2>3
<1>4. fetch \in [st : {"idle", "asked", "read"}, for : {ByPage} \cup Runs, copy : Copy]
  BY <1>1 DEF Init, Asked
<1>5. /\ page \in [at : Address, leaving : SUBSET Address, restartTo : SUBSET Address,
                   xrayPrompt : {"none", "open", "later"}]
      /\ raced \in SUBSET AllSections
      /\ seen \in SUBSET {"focus", "fault", "foreign", "reload"}
      /\ budget \in [{"edit", "save", "trouble"} -> Nat]
  BY SettingsAssumption DEF Init, FreshPage, Address
<1>6. Placed
  BY DEF Init, Placed, IdleSaver
<1> QED
  BY <1>3, <1>4, <1>5, <1>6, <1>7 DEF Typed, TypeOK

LEMMA SpendType ==
    ASSUME Typed, NEW k \in {"edit", "save", "trouble"}, Spend(k)
    PROVE  budget' \in [{"edit", "save", "trouble"} -> Nat]
BY DEF Typed, TypeOK, Spend

LEMMA TroubleType ==
    ASSUME Typed, NEW k \in {"focus", "fault", "foreign"}, Suffer(k) \/ Calmly
    PROVE  /\ budget' \in [{"edit", "save", "trouble"} -> Nat]
           /\ seen' \in SUBSET {"focus", "fault", "foreign", "reload"}
BY SpendType DEF Typed, TypeOK, Suffer, Calmly

\* The page's own steps: an edit keeps the types, and the bar follows the form.
LEMMA TouchTyped ==
    ASSUME Typed, NEW s, NEW shown \in Row, NEW keys \in Keys, Touch(s, shown, keys)
    PROVE  Typed'
<1> USE DEF Typed
<1>1. /\ s \in Sections /\ form' = shown /\ typed' = keys
      /\ UNCHANGED <<row, served, loaded, cache, fetch, savers, savingAll, page, seen>>
  BY DEF Touch, server
<1>2. budget' \in [{"edit", "save", "trouble"} -> Nat]
  BY SpendType DEF Touch
<1>3. /\ dirty' \in Seq(Sections)
      /\ \A i, j \in DOMAIN dirty' : dirty'[i] = dirty'[j] => i = j
  BY <1>1, FlagStep DEF Touch, DiffersFromSaved
<1>4. raced' \in SUBSET AllSections
  BY <1>1, SettingsAssumption DEF Touch, TypeOK
<1>5. TypeOK'
  BY <1>1, <1>2, <1>3, <1>4 DEF TypeOK
<1> QED
  BY <1>1, <1>3, <1>5 DEF Placed

LEMMA EditTyped ==
    ASSUME Typed,
           (\E v \in Values : \/ EditAccess(v) \/ EditTls(v) \/ EditSubPort(v) \/ EditSubMode(v)
                              \/ EditStrategy(v) \/ EditRules(v))
           \/ \E s \in KeySections : PasteKey(s)
    PROVE  Typed'
<1>1. form \in Row /\ typed \in Keys
  BY DEF Typed, TypeOK
<1>2. ASSUME NEW s, NEW f, NEW v \in Values, Type(s, f, v) PROVE Typed'
  <2>1. [form EXCEPT ![f] = v] \in Row
    BY <1>1 DEF Row
  <2> QED
    BY <1>1, <1>2, <2>1, TouchTyped DEF Type
<1>3. ASSUME NEW s \in KeySections, PasteKey(s) PROVE Typed'
  <2>1. [typed EXCEPT ![s] = ~@] \in Keys
    BY <1>1 DEF Keys
  <2> QED
    BY <1>1, <1>3, <2>1, TouchTyped DEF PasteKey
<1> QED
  BY <1>2, <1>3 DEF EditAccess, EditTls, EditSubPort, EditSubMode, EditStrategy, EditRules

LEMMA DiscardTyped ==
    ASSUME Typed, DiscardAll
    PROVE  Typed'
<1> USE DEF Typed
<1>1. /\ UNCHANGED <<row, served, loaded, cache, fetch, savers, savingAll, page, seen, budget>>
      /\ dirty' = <<>>
  BY DEF DiscardAll, server
<1>2. form' \in Row
  BY DEF DiscardAll, TypeOK, Row, Copy
<1>3. typed' \in Keys
  BY DEF DiscardAll, TypeOK, Keys
<1>4. raced' \in SUBSET AllSections
  BY SettingsAssumption DEF DiscardAll, TypeOK, ToSet
<1>5. dirty' \in Seq(Sections)
  BY <1>1
<1>6. TypeOK'
  BY <1>1, <1>2, <1>3, <1>4, <1>5 DEF TypeOK
<1> QED
  BY <1>1, <1>6 DEF Placed

LEMMA RestartTyped ==
    ASSUME Typed, RestartPanel \/ RestartXray \/ RestartLater
    PROVE  Typed'
<1> USE DEF Typed
<1>1. UNCHANGED <<row, cache, fetch, form, typed, dirty, savers, savingAll, raced, seen, budget>>
  BY DEF RestartPanel, RestartXray, RestartLater, server
<1>2. served' \in Address /\ loaded' \in Values
  BY DEF RestartPanel, RestartXray, RestartLater, server, TypeOK, Address, Row, Fields, OwnerOf
<1>3. page' \in [at : Address, leaving : SUBSET Address, restartTo : SUBSET Address,
                 xrayPrompt : {"none", "open", "later"}]
  BY DEF RestartPanel, RestartXray, RestartLater, TypeOK
<1>4. TypeOK'
  BY <1>1, <1>2, <1>3 DEF TypeOK
<1> QED
  BY <1>1, <1>4 DEF Placed

LEMMA NoCopyTyped == NoKeys \in Keys /\ EmptyForm \in Row /\ NoCopy \in Copy /\ IdleSaver \in SaverType
<1>1. NoKeys \in Keys /\ EmptyForm \in Row /\ NoCopy \in Copy
  BY SettingsAssumption DEF NoKeys, EmptyForm, NoCopy, Keys, Row, Copy
<1> QED
  BY <1>1 DEF IdleSaver, SaverType

LEMMA QueryTyped ==
    ASSUME Typed, Refetch \/ Query
    PROVE  Typed'
<1> USE DEF Typed
<1>1. /\ UNCHANGED <<row, served, loaded, typed, dirty, savers, savingAll, page>>
  BY DEF Refetch, Query, GetAnswered, GetDelivered, GetFails, server
<1>2. fetch' \in [st : {"idle", "asked", "read"}, for : {ByPage} \cup Runs, copy : Copy]
  <2>1. [have |-> TRUE, vals |-> row.vals, keySet |-> row.keys] \in Copy
    BY DEF TypeOK, Copy, Keys
  <2>2. CASE GetAnswered
    BY <2>1, <2>2 DEF GetAnswered, TypeOK
  <2>3. CASE ~GetAnswered
    <3>1. fetch' = Asked(ByPage) \/ fetch' = NoFetch
      BY <2>3 DEF Refetch, Query, GetDelivered, GetFails
    <3> QED
      BY <3>1, NoCopyTyped DEF Asked, NoFetch
  <2> QED
    BY <2>2, <2>3
<1>3. cache' \in Copy /\ form' \in Row
  BY DEF Refetch, Query, GetAnswered, GetDelivered, GetFails, TypeOK, Copy
<1>4. raced' \in SUBSET AllSections
  BY DEF Refetch, Query, GetAnswered, GetDelivered, GetFails, TypeOK, AllSections
<1>5. /\ budget' \in [{"edit", "save", "trouble"} -> Nat]
      /\ seen' \in SUBSET {"focus", "fault", "foreign", "reload"}
  <2>1. Suffer("focus") \/ Suffer("fault") \/ Calmly
    BY DEF Refetch, Query, GetAnswered, GetDelivered, GetFails, Calmly
  <2> QED
    BY <2>1, TroubleType
<1>6. TypeOK'
  BY <1>1, <1>2, <1>3, <1>4, <1>5 DEF TypeOK
<1> QED
  BY <1>1, <1>6 DEF Placed

LEMMA PassTyped ==
    ASSUME Typed, NEW r \in Runs, SaveAll(r) \/ Loop(r)
    PROVE  Typed'
<1> USE DEF Typed
<1>1. /\ UNCHANGED <<row, served, loaded, cache, fetch, form, typed, dirty, page, raced, seen>>
      /\ savingAll' \in BOOLEAN
  BY DEF SaveAll, Loop, Send, SkipInvalid, Settled, Finish, server, TypeOK
<1>2. budget' \in [{"edit", "save", "trouble"} -> Nat]
  BY SpendType DEF SaveAll, Loop, Send, SkipInvalid, Settled, Finish, TypeOK
<1>3. savers[r] \in SaverType
  BY DEF TypeOK
<1>4. \E new \in SaverType : /\ savers' = [savers EXCEPT ![r] = new]
                             /\ new.pc = "put" => new.todo # <<>>
                             /\ new.pc \notin {"applied", "refetch"}
  <2>1. CASE SaveAll(r)
    <3> DEFINE new == [savers[r] EXCEPT !.pc = "next", !.todo = dirty]
    <3>1. new \in SaverType /\ new.pc = "next"
      BY <1>3 DEF SaverType, TypeOK
    <3>2. savers' = [savers EXCEPT ![r] = new]
      BY <2>1 DEF SaveAll, TypeOK
    <3> QED
      BY <3>1, <3>2
  <2>2. CASE Send(r)
    <3> DEFINE new == [savers[r] EXCEPT !.pc = "put", !.vals = MergePanelSettings(Section(r)),
                                        !.keys = SentKeys(Section(r))]
    <3>1. MergePanelSettings(Section(r)) \in Row
      BY DEF MergePanelSettings, TypeOK, Row, Copy
    <3>2. SentKeys(Section(r)) \in Keys
      BY DEF SentKeys, TypeOK, Keys
    <3>3. new \in SaverType /\ new.pc = "put" /\ new.todo = savers[r].todo
      BY <1>3, <3>1, <3>2 DEF SaverType
    <3>4. savers' = [savers EXCEPT ![r] = new] /\ savers[r].todo # <<>>
      BY <2>2 DEF Send, TypeOK
    <3> QED
      BY <3>3, <3>4
  <2>3. CASE SkipInvalid(r) \/ Settled(r)
    <3> DEFINE new == [IdleSaver EXCEPT !.pc = "next", !.todo = Tail(savers[r].todo)]
    <3>1. savers' = [savers EXCEPT ![r] = new] /\ savers[r].todo # <<>>
      BY <2>3 DEF SkipInvalid, Settled, Advance, Placed
    <3>2. Tail(savers[r].todo) \in Seq(Sections)
      BY <1>3, <3>1 DEF SaverType
    <3>3. new \in SaverType /\ new.pc = "next"
      BY <3>2, NoCopyTyped DEF SaverType
    <3> QED
      BY <3>1, <3>3
  <2>4. CASE Finish(r)
    BY <2>4, NoCopyTyped DEF Finish, IdleSaver
  <2> QED
    BY <2>1, <2>2, <2>3, <2>4 DEF Loop
<1>5. savers' \in [Runs -> SaverType] /\ Placed'
  BY <1>1, <1>4 DEF TypeOK, Placed
<1>6. TypeOK'
  BY <1>1, <1>2, <1>5 DEF TypeOK
<1> QED
  BY <1>5, <1>6
LEMMA NetworkTyped ==
    ASSUME Typed, NEW r \in Runs, Network(r)
    PROVE  Typed'
<1> USE DEF Typed
<1>1. savers[r] \in SaverType
  BY DEF TypeOK
<1>2. CASE \E report \in {"clean", "warned", "restarted"} : WriteRow(r, report)
  <2>1. PICK report \in {"clean", "warned", "restarted"} : WriteRow(r, report)
    BY <1>2
  <2>2. /\ UNCHANGED <<cache, fetch, form, typed, dirty, savingAll, page, raced, seen, budget>>
        /\ savers[r].pc = "put"
    BY <2>1 DEF WriteRow
  <2>3. row' \in [vals : Row, keys : Keys]
    BY <1>1, <2>1 DEF WriteRow, SaverType, TypeOK, KeepStored, Keys
  <2>4. served' \in Address /\ loaded' \in Values
    BY <1>1, <2>1 DEF WriteRow, SaverType, TypeOK, Address, Row, Fields, OwnerOf
  <2> DEFINE new == [savers[r] EXCEPT !.pc = "applied", !.report = report]
  <2>5. new \in SaverType /\ new.todo = savers[r].todo /\ savers' = [savers EXCEPT ![r] = new]
    BY <1>1, <2>1 DEF WriteRow, SaverType, TypeOK
  <2> HIDE DEF new
  <2>6. savers' \in [Runs -> SaverType] /\ Placed'
    BY <2>2, <2>5 DEF TypeOK, Placed
  <2>7. TypeOK'
    BY <2>2, <2>3, <2>4, <2>6 DEF TypeOK
  <2> QED
    BY <2>6, <2>7
<1>3. CASE PutAnswered(r)
  <2>1. /\ UNCHANGED <<row, served, loaded, cache, form, savingAll, raced, seen, budget>>
        /\ savers[r].pc = "applied" /\ Flag(Section(r), FALSE)
        /\ AccessSaved(r) \/ TlsSaved(r) \/ XraySaved(r) \/ UNCHANGED page
    BY <1>3 DEF PutAnswered, server
  <2>2. typed' \in Keys
    BY <1>3 DEF PutAnswered, TypeOK, Keys
  <2>3. fetch' \in [st : {"idle", "asked", "read"}, for : {ByPage} \cup Runs, copy : Copy]
    BY <1>3, NoCopyTyped DEF PutAnswered, Asked
  <2>4. page' \in [at : Address, leaving : SUBSET Address, restartTo : SUBSET Address,
                   xrayPrompt : {"none", "open", "later"}]
    <3>1. /\ [port |-> Saved(r, "port"), https |-> page.at.https] \in Address
          /\ [port |-> cache.vals.port, https |-> Saved(r, "https")] \in Address
      BY <1>1 DEF TypeOK, SaverType, Saved, Address, Copy, Row, Fields, OwnerOf
    <3> QED
      BY <2>1, <3>1 DEF AccessSaved, TlsSaved, XraySaved, TypeOK
  <2>5. /\ dirty' \in Seq(Sections)
        /\ \A i, j \in DOMAIN dirty' : dirty'[i] = dirty'[j] => i = j
    BY <2>1, FlagStep
  <2> DEFINE new == [savers[r] EXCEPT !.pc = "refetch"]
  <2>6. new \in SaverType /\ new.todo = savers[r].todo /\ savers' = [savers EXCEPT ![r] = new]
    BY <1>1, <1>3 DEF PutAnswered, SaverType, TypeOK
  <2> HIDE DEF new
  <2>7. savers' \in [Runs -> SaverType] /\ Placed'
    BY <2>1, <2>5, <2>6 DEF TypeOK, Placed
  <2>8. TypeOK'
    BY <2>1, <2>2, <2>3, <2>4, <2>5, <2>7 DEF TypeOK
  <2> QED
    BY <2>7, <2>8
<1>4. CASE PutFails(r)
  <2>1. /\ UNCHANGED <<row, served, loaded, cache, fetch, form, typed, dirty, savingAll, page, raced>>
        /\ Suffer("fault") \/ Calmly
        /\ savers[r].pc \in {"put", "applied"} /\ Advance(r)
    BY <1>4 DEF PutFails, InPut, server
  <2>2. /\ budget' \in [{"edit", "save", "trouble"} -> Nat]
        /\ seen' \in SUBSET {"focus", "fault", "foreign", "reload"}
    BY <2>1, TroubleType
  <2> DEFINE new == [IdleSaver EXCEPT !.pc = "next", !.todo = Tail(savers[r].todo)]
  <2>3. Tail(savers[r].todo) \in Seq(Sections)
    BY <1>1, <2>1 DEF SaverType, Placed
  <2>4. new \in SaverType /\ new.pc = "next" /\ savers' = [savers EXCEPT ![r] = new]
    BY <2>1, <2>3, NoCopyTyped DEF SaverType, Advance
  <2> HIDE DEF new
  <2>5. savers' \in [Runs -> SaverType] /\ Placed'
    BY <2>1, <2>4 DEF TypeOK, Placed
  <2>6. TypeOK'
    BY <2>1, <2>2, <2>5 DEF TypeOK
  <2> QED
    BY <2>5, <2>6
<1> QED
  BY <1>2, <1>3, <1>4 DEF Network

LEMMA NavigateTyped ==
    ASSUME Typed, Navigate
    PROVE  Typed'
<1> USE DEF Typed
<1>1. /\ UNCHANGED <<row, served, loaded, raced, budget>>
      /\ cache' = NoCopy /\ fetch' = Asked(ByPage) /\ form' = EmptyForm /\ typed' = NoKeys
      /\ dirty' = <<>> /\ savingAll' = FALSE /\ savers' = [r \in Runs |-> IdleSaver]
      /\ seen' = seen \cup {"reload"}
  BY DEF Navigate, server
<1>2. fetch' \in [st : {"idle", "asked", "read"}, for : {ByPage} \cup Runs, copy : Copy]
  BY <1>1, NoCopyTyped DEF Asked
<1>3. page' \in [at : Address, leaving : SUBSET Address, restartTo : SUBSET Address,
                 xrayPrompt : {"none", "open", "later"}]
  BY DEF Navigate, FreshPage, TypeOK
<1>4. savers' \in [Runs -> SaverType]
  BY <1>1, NoCopyTyped
<1>5. dirty' \in Seq(Sections)
  BY <1>1
<1>6. cache' \in Copy /\ form' \in Row /\ typed' \in Keys
  BY <1>1, NoCopyTyped
<1>7. TypeOK'
  BY <1>1, <1>2, <1>3, <1>4, <1>5, <1>6 DEF TypeOK
<1>8. Placed'
  BY <1>1 DEF Placed, IdleSaver
<1> QED
  BY <1>7, <1>8

LEMMA ForeignTyped ==
    ASSUME Typed, NEW v \in Values, NEW here, ForeignWrite(v, here)
    PROVE  Typed'
<1> USE DEF Typed
<1>1. /\ UNCHANGED <<served, loaded, cache, form, typed, dirty, savers, savingAll, page, raced>>
      /\ row' = [row EXCEPT !.vals["rules"] = v]
      /\ fetch' = fetch \/ fetch' = Asked(ByPage)
      /\ Suffer("foreign")
  BY DEF ForeignWrite
<1>2. row' \in [vals : Row, keys : Keys]
  BY <1>1 DEF TypeOK, Row
<1>3. fetch' \in [st : {"idle", "asked", "read"}, for : {ByPage} \cup Runs, copy : Copy]
  BY <1>1, NoCopyTyped DEF Asked, TypeOK
<1>4. /\ budget' \in [{"edit", "save", "trouble"} -> Nat]
      /\ seen' \in SUBSET {"focus", "fault", "foreign", "reload"}
  BY <1>1, TroubleType
<1>5. TypeOK'
  BY <1>1, <1>2, <1>3, <1>4 DEF TypeOK
<1> QED
  BY <1>1, <1>5 DEF Placed

LEMMA StepTyped == Typed /\ [Next]_vars => Typed'
<1> SUFFICES ASSUME Typed, [Next]_vars PROVE Typed'
  OBVIOUS
<1>1. CASE Refetch \/ Query
  BY <1>1, QueryTyped
<1>2. CASE \/ \E v \in Values : \/ EditAccess(v) \/ EditTls(v) \/ EditSubPort(v) \/ EditSubMode(v)
                                \/ EditStrategy(v) \/ EditRules(v)
           \/ \E s \in KeySections : PasteKey(s)
  BY <1>2, EditTyped
<1>3. CASE DiscardAll
  BY <1>3, DiscardTyped
<1>4. CASE \E r \in Runs : SaveAll(r) \/ Loop(r) \/ Network(r)
  BY <1>4, PassTyped, NetworkTyped
<1>5. CASE Navigate
  BY <1>5, NavigateTyped
<1>6. CASE RestartPanel \/ RestartXray \/ RestartLater
  BY <1>6, RestartTyped
<1>7. CASE \E v \in Values, here \in BOOLEAN : ForeignWrite(v, here)
  BY <1>7, ForeignTyped
<1>8. CASE UNCHANGED vars
  BY <1>8 DEF vars, Typed, TypeOK, Placed
<1> QED
  BY <1>1, <1>2, <1>3, <1>4, <1>5, <1>6, <1>7, <1>8 DEF Next

LEMMA SpecTyped == Spec => []Typed
BY InitTyped, StepTyped, PTL DEF Spec

\* The rows, copies, forms and passes stay well typed.
THEOREM TypeCorrect == Spec => []TypeOK
<1>1. Typed => TypeOK
  BY DEF Typed
<1> QED
  BY <1>1, SpecTyped, PTL

-----------------------------------------------------------------------------
(* What is on screen.                                                       *)

\* While nobody disturbs the page: a page that has nothing yet receives the row,
\* a section's inputs are what its PUT carries, and what that PUT has stored.
Carried ==
    Undisturbed =>
        /\ (fetch.st = "read" /\ ~cache.have) => fetch.copy.vals = row.vals
        /\ \A r \in Runs : savers[r].pc = "put" =>
              \A f \in Owned(Section(r)) : form[f] = savers[r].vals[f]
        /\ \A r \in Runs : savers[r].pc = "applied" =>
              \A f \in Owned(Section(r)) : form[f] = row.vals[f]

Mirrored == Carried /\ ShownIsSaved

LEMMA OneOwner == \A f, s, t : (f \in Owned(s) /\ f \in Owned(t)) => s = t
BY DEF Owned

\* Steps that leave the row and the inputs alone, start no PUT and take no
\* section off the bar.
LEMMA MirrorQuiet ==
    ASSUME Mirrored, UNCHANGED <<row, form>>, cache'.have = cache.have,
           raced \subseteq raced', ToSet(dirty') = ToSet(dirty), Undisturbed' => Undisturbed,
           \A r \in Runs : savers'[r].pc \in {"put", "applied"} => savers'[r] = savers[r],
           fetch'.st = "read" => (fetch' = fetch \/ fetch'.copy.vals = row.vals)
    PROVE  Mirrored'
<1> USE DEF Mirrored
<1>1. Carried'
  BY DEF Carried, Section
<1>2. ShownIsSaved'
  BY DEF ShownIsSaved
<1> QED
  BY <1>1, <1>2

LEMMA TouchMirror ==
    ASSUME Typed, Mirrored, NEW s, NEW shown, NEW keys, Touch(s, shown, keys),
           \A f \in Fields \ Owned(s) : shown[f] = form[f]
    PROVE  Mirrored'
<1> USE DEF Mirrored
<1>1. /\ s \in Sections /\ form' = shown /\ ~Pending(s)
      /\ UNCHANGED <<row, cache, fetch, savers, seen>>
      /\ raced' = IF Behind(s) THEN raced \cup {s} ELSE raced
      /\ Flag(s, DiffersFromSaved(s, shown, keys))
  BY DEF Touch, server
<1>2. ToSet(dirty') = IF DiffersFromSaved(s, shown, keys) THEN ToSet(dirty) \cup {s}
                                                          ELSE ToSet(dirty) \ {s}
  BY <1>1, FlagStep DEF DiffersFromSaved
<1>3. Carried'
  <2>1. \A r \in Runs : savers[r].pc \in {"put", "applied"} =>
           \A f \in Owned(Section(r)) : form'[f] = form[f]
    BY <1>1, OneOwner DEF Pending, InPut, Owned
  <2> QED
    BY <1>1, <2>1 DEF Carried, Undisturbed, Section
<1>4. ShownIsSaved'
  <2> SUFFICES ASSUME Undisturbed, cache.have, NEW t \in Sections, t \notin raced',
                      t \notin ToSet(dirty'), NEW f \in Owned(t)
               PROVE  form'[f] = row.vals[f]
    BY <1>1 DEF ShownIsSaved, Undisturbed
  <2>1. CASE t = s
    BY <1>1, <1>2, <2>1 DEF DiffersFromSaved, Behind
  <2>2. CASE t # s
    <3>1. form'[f] = form[f] /\ t \notin raced /\ t \notin ToSet(dirty)
      BY <1>1, <1>2, <2>2, OneOwner DEF Owned
    <3> QED
      BY <3>1 DEF ShownIsSaved
  <2> QED
    BY <2>1, <2>2
<1> QED
  BY <1>3, <1>4

LEMMA EditMirror ==
    ASSUME Typed, Mirrored,
           (\E v \in Values : \/ EditAccess(v) \/ EditTls(v) \/ EditSubPort(v) \/ EditSubMode(v)
                              \/ EditStrategy(v) \/ EditRules(v))
           \/ \E s \in KeySections : PasteKey(s)
    PROVE  Mirrored'
<1>1. ASSUME NEW s, NEW f \in Owned(s), NEW v, Type(s, f, v) PROVE Mirrored'
  <2>1. \A g \in Fields \ Owned(s) : [form EXCEPT ![f] = v][g] = form[g]
    BY DEF Typed, TypeOK, Row
  <2> QED
    BY <1>1, <2>1, TouchMirror DEF Type
<1>2. ASSUME NEW s, PasteKey(s) PROVE Mirrored'
  BY <1>2, TouchMirror DEF PasteKey
<1>3. /\ "port" \in Owned("access") /\ "https" \in Owned("tls")
      /\ {"subPort", "custom"} \subseteq Owned("subscription")
      /\ {"strategy", "rules"} \subseteq Owned("xray")
  BY DEF Owned, Fields, OwnerOf
<1> QED
  BY <1>1, <1>2, <1>3 DEF EditAccess, EditTls, EditSubPort, EditSubMode, EditStrategy, EditRules

\* Discarding takes a section to the copy, which is the row or is behind it.
LEMMA DiscardMirror ==
    ASSUME Typed, Mirrored, DiscardAll
    PROVE  Mirrored'
<1> USE DEF Mirrored
<1>1. /\ UNCHANGED <<row, cache, fetch, savers, seen>> /\ ~AnySaving /\ dirty' = <<>>
      /\ raced' = raced \cup {s \in ToSet(dirty) : Behind(s)}
      /\ form' = [f \in Fields |->
                    IF \E s \in ToSet(dirty) : f \in Owned(s) THEN cache.vals[f] ELSE form[f]]
  BY DEF DiscardAll, server
<1>2. Carried'
  BY <1>1 DEF Carried, AnySaving, InPut, Undisturbed
<1>3. ShownIsSaved'
  <2> SUFFICES ASSUME Undisturbed, cache.have, NEW t \in Sections, t \notin raced', NEW f \in Owned(t)
               PROVE  form'[f] = row.vals[f]
    BY <1>1 DEF ShownIsSaved, Undisturbed
  <2>1. f \in Fields
    BY DEF Owned
  <2>2. CASE t \in ToSet(dirty)
    BY <1>1, <2>1, <2>2 DEF Behind
  <2>3. CASE t \notin ToSet(dirty)
    <3>1. form'[f] = form[f]
      BY <1>1, <2>1, <2>3, OneOwner
    <3> QED
      BY <1>1, <2>3, <3>1 DEF ShownIsSaved
  <2> QED
    BY <2>2, <2>3
<1> QED
  BY <1>2, <1>3

\* The query: what arrives on an empty page is the row.
LEMMA QueryMirror ==
    ASSUME IInv, Typed, Mirrored, Refetch \/ Query
    PROVE  Mirrored'
<1>1. UNCHANGED <<row, savers, dirty>>
  BY DEF Refetch, Query, GetAnswered, GetDelivered, GetFails, server
<1>2. Undisturbed' => Undisturbed
  <2>1. Suffer("focus") \/ Suffer("fault") \/ Calmly
    BY DEF Refetch, Query, GetAnswered, GetDelivered, GetFails, Calmly
  <2> QED
    BY <2>1, SeenGrows
<1>3. CASE Refetch \/ GetAnswered \/ GetFails
  <2>1. UNCHANGED <<cache, form, raced>>
    BY <1>3 DEF Refetch, GetAnswered, GetFails
  <2>2. fetch'.st = "read" => fetch'.copy.vals = row.vals
    <3>1. CASE GetAnswered
      BY <3>1 DEF GetAnswered, Typed, TypeOK
    <3>2. CASE Refetch \/ GetFails
      BY <3>2 DEF Refetch, GetFails, Asked, NoFetch
    <3> QED
      BY <1>3, <3>1, <3>2
  <2> QED
    BY <1>1, <1>2, <2>1, <2>2, MirrorQuiet
<1>4. CASE GetDelivered
  <2>1. /\ fetch.st = "read" /\ cache' = fetch.copy /\ fetch'.st # "read" /\ cache'.have
        /\ raced \subseteq raced'
        /\ form' = IF cache.have THEN form ELSE fetch.copy.vals
    BY <1>4 DEF GetDelivered, NoFetch, IInv, OnePass
  <2>2. CASE cache.have
    BY <1>1, <1>2, <2>1, <2>2, MirrorQuiet
  <2>3. CASE ~cache.have
    <3>1. \A r \in Runs : savers[r].pc = "idle"
      BY <2>3 DEF IInv, OnePass
    <3>2. Undisturbed' => form' = row.vals
      BY <1>2, <2>1, <2>3 DEF Mirrored, Carried
    <3> QED
      BY <1>1, <2>1, <3>1, <3>2 DEF Mirrored, Carried, ShownIsSaved
  <2> QED
    BY <2>2, <2>3
<1> QED
  BY <1>3, <1>4 DEF Query

LEMMA PassMirror ==
    ASSUME Typed, Mirrored, NEW r \in Runs, SaveAll(r) \/ Loop(r) \/ PutFails(r)
    PROVE  Mirrored'
<1>1. UNCHANGED <<row, cache, fetch, form, dirty, raced>>
  BY DEF SaveAll, Loop, Send, SkipInvalid, Settled, Finish, PutFails, server
<1>2. Undisturbed' => Undisturbed
  <2>1. CASE PutFails(r)
    BY <2>1, SeenGrows DEF PutFails
  <2>2. CASE ~PutFails(r)
    BY <2>2 DEF SaveAll, Loop, Send, SkipInvalid, Settled, Finish, Undisturbed
  <2> QED
    BY <2>1, <2>2
<1>3. CASE ~Send(r)
  <2>1. \A q \in Runs \ {r} : savers'[q] = savers[q]
    BY <1>3 DEF SaveAll, Loop, SkipInvalid, Settled, Finish, PutFails, Advance, Typed, TypeOK
  <2>2. savers'[r].pc \in {"next", "idle"}
    <3>1. savers \in [Runs -> SaverType] /\ IdleSaver.pc = "idle"
      BY DEF Typed, TypeOK, IdleSaver
    <3>2. CASE SaveAll(r)
      BY <3>1, <3>2 DEF SaveAll, SaverType
    <3>3. CASE Advance(r)
      <4>1. [IdleSaver EXCEPT !.pc = "next", !.todo = Tail(savers[r].todo)].pc = "next"
        BY DEF IdleSaver
      <4> QED
        BY <3>1, <3>3, <4>1 DEF Advance
    <3>4. CASE Finish(r)
      BY <3>1, <3>4 DEF Finish
    <3> QED
      BY <1>3, <3>2, <3>3, <3>4 DEF Loop, SkipInvalid, Settled, PutFails
  <2> QED
    BY <1>1, <1>2, <2>1, <2>2, MirrorQuiet
<1>4. CASE Send(r)
  <2>1. /\ \A q \in Runs \ {r} : savers'[q] = savers[q]
        /\ savers'[r].pc = "put" /\ savers'[r].vals = MergePanelSettings(Section(r))
        /\ savers'[r].todo = savers[r].todo
    BY <1>4 DEF Send, Typed, TypeOK, SaverType
  <2>2. \A f \in Owned(Section(r)) : savers'[r].vals[f] = form[f]
    BY <2>1 DEF MergePanelSettings, Owned
  <2>3. Carried'
    BY <1>1, <1>2, <2>1, <2>2 DEF Mirrored, Carried, Section
  <2> QED
    BY <1>1, <1>2, <2>3 DEF Mirrored, ShownIsSaved
<1> QED
  BY <1>3, <1>4

\* The write stores what is on screen in the section, and nothing else anew.
LEMMA WriteMirror ==
    ASSUME IInv, Typed, Mirrored, NEW r \in Runs, NEW report, WriteRow(r, report)
    PROVE  Mirrored'
<1>1. /\ UNCHANGED <<cache, fetch, form, dirty, raced, seen>>
      /\ savers[r].pc = "put" /\ Reachable /\ row'.vals = savers[r].vals
      /\ savers' = [savers EXCEPT ![r].pc = "applied", ![r].report = report]
  BY DEF WriteRow
<1>2. /\ savers'[r].pc = "applied" /\ savers'[r].todo = savers[r].todo
      /\ \A q \in Runs \ {r} : savers'[q] = savers[q] /\ savers[q].pc = "idle"
      /\ cache.have
  BY <1>1 DEF IInv, Shape, OnePass
<1>3. Undisturbed => \A f \in Owned(Section(r)) : form[f] = row'.vals[f]
  BY <1>1 DEF Mirrored, Carried
<1>4. Undisturbed => \A f \in Fields \ Owned(Section(r)) : row.vals[f] = row'.vals[f]
  BY <1>1 DEF IInv, Fresh
<1>5. Carried'
  BY <1>1, <1>2, <1>3 DEF Carried, Undisturbed, Section
<1>6. ShownIsSaved'
  <2> SUFFICES ASSUME Undisturbed, NEW t \in Sections, t \notin raced, t \notin ToSet(dirty),
                      NEW f \in Owned(t)
               PROVE  form[f] = row'.vals[f]
    BY <1>1 DEF ShownIsSaved, Undisturbed
  <2>1. form[f] = row.vals[f] /\ f \in Fields
    BY <1>2 DEF Mirrored, ShownIsSaved, Owned
  <2> QED
    BY <1>3, <1>4, <2>1
<1> QED
  BY <1>5, <1>6 DEF Mirrored

\* A saved section leaves the bar showing what was stored.
LEMMA AnswerMirror ==
    ASSUME IInv, Typed, Mirrored, NEW r \in Runs, PutAnswered(r)
    PROVE  Mirrored'
<1>1. /\ UNCHANGED <<row, cache, form, raced, seen>>
      /\ savers[r].pc = "applied" /\ Flag(Section(r), FALSE) /\ fetch'.st = "asked"
      /\ savers' = [savers EXCEPT ![r].pc = "refetch"]
  BY DEF PutAnswered, Asked, server
<1>2. /\ savers'[r].pc = "refetch"
      /\ \A q \in Runs \ {r} : savers'[q] = savers[q] /\ savers[q].pc = "idle"
  BY <1>1 DEF IInv, Shape, OnePass
<1>3. ToSet(dirty') = ToSet(dirty) \ {Section(r)}
  BY <1>1, FlagStep
<1>4. Carried'
  BY <1>1, <1>2 DEF Carried
<1>5. ShownIsSaved'
  BY <1>1, <1>3 DEF Mirrored, Carried, ShownIsSaved, Undisturbed
<1> QED
  BY <1>4, <1>5 DEF Mirrored

LEMMA StepMirrored == IInv /\ Typed /\ Mirrored /\ [Next]_vars => Mirrored'
<1> SUFFICES ASSUME IInv, Typed, Mirrored, [Next]_vars PROVE Mirrored'
  OBVIOUS
<1>1. CASE Refetch \/ Query
  BY <1>1, QueryMirror
<1>2. CASE \/ \E v \in Values : \/ EditAccess(v) \/ EditTls(v) \/ EditSubPort(v) \/ EditSubMode(v)
                                \/ EditStrategy(v) \/ EditRules(v)
           \/ \E s \in KeySections : PasteKey(s)
  BY <1>2, EditMirror
<1>3. CASE DiscardAll
  BY <1>3, DiscardMirror
<1>4. CASE \E r \in Runs : SaveAll(r) \/ Loop(r) \/ Network(r)
  BY <1>4, PassMirror, WriteMirror, AnswerMirror DEF Network
<1>5. CASE Navigate
  BY <1>5 DEF Navigate, NoCopy, Asked, IdleSaver, Mirrored, Carried, ShownIsSaved
<1>6. CASE RestartPanel \/ RestartXray \/ RestartLater
  BY <1>6, MirrorQuiet DEF RestartPanel, RestartXray, RestartLater, server, Undisturbed
<1>7. CASE \E v \in Values, here \in BOOLEAN : ForeignWrite(v, here)
  BY <1>7, SeenGrows DEF ForeignWrite, Mirrored, Carried, ShownIsSaved
<1>8. CASE UNCHANGED vars
  BY <1>8, MirrorQuiet DEF vars, Undisturbed
<1> QED
  BY <1>1, <1>2, <1>3, <1>4, <1>5, <1>6, <1>7, <1>8 DEF Next

LEMMA SpecMirrored == Spec => []Mirrored
<1>1. Init => Mirrored
  BY DEF Init, NoCopy, Asked, IdleSaver, Mirrored, Carried, ShownIsSaved
<1> QED
  BY <1>1, SpecIInv, SpecTyped, StepMirrored, PTL DEF Spec

\* What a section shows and does not offer to save is what is stored, unless it
\* was edited before the refetch of an earlier save arrived (Settings.tsx:263).
THEOREM ShownAsSaved == Spec => []ShownIsSaved
<1>1. Mirrored => ShownIsSaved
  BY DEF Mirrored
<1> QED
  BY <1>1, SpecMirrored, PTL

-----------------------------------------------------------------------------
(* The restart prompt.                                                      *)

\* While a save of the xray section waits for its answer, the strategy xray runs
\* with is the one the page still has in its copy: comparing what was saved with
\* the copy tells whether a restart is owed.
OwedByCopy(r) ==
    /\ savers[r].pc = "applied" /\ Section(r) = "xray" /\ savers[r].report # "restarted"
    /\ loaded = cache.vals["strategy"] /\ savers[r].vals = row.vals

Attentive == Undisturbed /\ "reload" \notin seen /\ "xray" \notin raced
InForce   == loaded = row.vals["strategy"] \/ page.xrayPrompt \in {"open", "later"}

Prompted == Attentive => (InForce \/ \E r \in Runs : OwedByCopy(r))

LEMMA PromptQuiet ==
    ASSUME Prompted, UNCHANGED <<row, loaded>>, page'.xrayPrompt = page.xrayPrompt,
           Attentive' => (Attentive /\ cache'.vals["strategy"] = cache.vals["strategy"])
                         \/ (Attentive /\ \A r \in Runs : savers[r].pc # "applied"),
           Attentive' => \A r \in Runs : savers[r].pc = "applied" => savers'[r] = savers[r]
    PROVE  Prompted'
BY DEF Prompted, InForce, OwedByCopy, Section

LEMMA AttentiveWas ==
    ASSUME Undisturbed' => Undisturbed, seen \subseteq seen', raced \subseteq raced'
    PROVE  Attentive' => Attentive
BY DEF Attentive

LEMMA QueryPrompt ==
    ASSUME IInv, Typed, Prompted, Refetch \/ Query
    PROVE  Prompted'
<1>1. UNCHANGED <<row, loaded, savers, page>>
  BY DEF Refetch, Query, GetAnswered, GetDelivered, GetFails, server
<1>2. Suffer("focus") \/ Suffer("fault") \/ Calmly
  BY DEF Refetch, Query, GetAnswered, GetDelivered, GetFails, Calmly
<1>3. raced \subseteq raced'
  BY DEF Refetch, Query, GetAnswered, GetDelivered, GetFails
<1>4. Attentive' => Attentive
  BY <1>2, <1>3, SeenGrows, AttentiveWas DEF Suffer, Calmly
<1>5. Attentive' => (cache' = cache \/ \A r \in Runs : savers[r].pc # "applied")
  BY DEF Refetch, Query, GetAnswered, GetDelivered, GetFails, Attentive
<1> QED
  BY <1>1, <1>4, <1>5, PromptQuiet

\* A write of another section keeps the strategy; one of the xray section is
\* compared with the row as it was, which the copy still shows.
LEMMA WritePrompt ==
    ASSUME IInv, Typed, Prompted, NEW r \in Runs, NEW report, WriteRow(r, report)
    PROVE  Prompted'
<1>1. /\ UNCHANGED <<cache, fetch, page, raced, seen>>
      /\ savers[r].pc = "put" /\ Reachable /\ row'.vals = savers[r].vals
      /\ savers' = [savers EXCEPT ![r].pc = "applied", ![r].report = report]
      /\ loaded' = IF report = "restarted" THEN savers[r].vals["strategy"] ELSE loaded
  BY DEF WriteRow
<1>2. /\ savers'[r].pc = "applied" /\ savers'[r].todo = savers[r].todo
      /\ savers'[r].vals = savers[r].vals /\ savers'[r].report = report
      /\ \A q \in Runs \ {r} : savers[q].pc = "idle"
      /\ cache.have
  BY <1>1 DEF IInv, Shape, OnePass
<1>3. ~Applied /\ ~Awaited
  BY <1>1, <1>2 DEF Applied, Awaited
<1> SUFFICES ASSUME Attentive PROVE InForce' \/ \E q \in Runs : OwedByCopy(q)'
  BY <1>1 DEF Prompted, Attentive, Undisturbed
<1>4. InForce /\ cache.vals = row.vals
  BY <1>1, <1>2, <1>3 DEF Prompted, OwedByCopy, Applied, Attentive, IInv, Fresh
<1>5. CASE report = "restarted"
  BY <1>1, <1>5 DEF InForce
<1>6. CASE report # "restarted" /\ Section(r) # "xray"
  <2>1. row'.vals["strategy"] = row.vals["strategy"]
    BY <1>1, <1>6 DEF IInv, Fresh, Attentive, Owned, Fields, OwnerOf
  <2> QED
    BY <1>1, <1>4, <1>6, <2>1 DEF InForce
<1>7. CASE report # "restarted" /\ Section(r) = "xray"
  <2>1. CASE page.xrayPrompt \in {"open", "later"}
    BY <1>1, <2>1 DEF InForce
  <2>2. CASE loaded = row.vals["strategy"]
    BY <1>1, <1>2, <1>4, <1>7, <2>2 DEF OwedByCopy, Section
  <2> QED
    BY <1>4, <2>1, <2>2 DEF InForce
<1> QED
  BY <1>5, <1>6, <1>7

\* The answer of a save of the xray section opens the prompt when one is owed.
LEMMA AnswerPrompt ==
    ASSUME IInv, Typed, Prompted, NEW r \in Runs, PutAnswered(r)
    PROVE  Prompted'
<1>1. /\ UNCHANGED <<row, loaded, cache, raced, seen>> /\ savers[r].pc = "applied"
      /\ Section(r) = "xray" => XraySaved(r)
  BY DEF PutAnswered, server
<1>2. page.xrayPrompt \in {"open", "later"} => page'.xrayPrompt \in {"open", "later"}
  <2>1. AccessSaved(r) \/ TlsSaved(r) \/ XraySaved(r) \/ UNCHANGED page
    BY DEF PutAnswered
  <2> QED
    BY <2>1 DEF AccessSaved, TlsSaved, XraySaved, Typed, TypeOK
<1> SUFFICES ASSUME Attentive PROVE InForce'
  BY <1>1 DEF Prompted, Attentive, Undisturbed
<1>3. CASE InForce
  BY <1>1, <1>2, <1>3 DEF InForce
<1>4. CASE \E q \in Runs : OwedByCopy(q)
  <2>1. OwedByCopy(r)
    BY <1>1, <1>4 DEF OwedByCopy, IInv, OnePass
  <2>2. CASE Moved(r, "strategy")
    BY <1>1, <2>1, <2>2 DEF OwedByCopy, XraySaved, InForce, Typed, TypeOK
  <2>3. CASE ~Moved(r, "strategy")
    BY <1>1, <2>1, <2>3 DEF OwedByCopy, Moved, Saved, InForce
  <2> QED
    BY <2>2, <2>3
<1> QED
  BY <1>3, <1>4 DEF Prompted

LEMMA PassPrompt ==
    ASSUME IInv, Typed, Prompted, NEW r \in Runs, SaveAll(r) \/ Loop(r) \/ PutFails(r)
    PROVE  Prompted'
<1>1. UNCHANGED <<row, loaded, cache, page, raced>>
  BY DEF SaveAll, Loop, Send, SkipInvalid, Settled, Finish, PutFails, server
<1>2. CASE PutFails(r) /\ savers[r].pc = "applied"
  BY <1>2, SeenGrows DEF PutFails, Prompted, Attentive
<1>3. CASE savers[r].pc # "applied"
  <2>1. \A q \in Runs : savers[q].pc = "applied" => savers'[q] = savers[q]
    BY <1>3 DEF SaveAll, Loop, Send, SkipInvalid, Settled, Finish, PutFails, Advance, Typed, TypeOK
  <2>2. seen \subseteq seen' /\ (Undisturbed' => Undisturbed)
    BY DEF SaveAll, Loop, Send, SkipInvalid, Settled, Finish, PutFails, Suffer, Calmly, Undisturbed
  <2> QED
    BY <1>1, <2>1, <2>2, AttentiveWas, PromptQuiet
<1> QED
  BY <1>2, <1>3 DEF SaveAll, Loop, Send, SkipInvalid, Settled, Finish

LEMMA StepPrompted == IInv /\ Typed /\ Prompted /\ [Next]_vars => Prompted'
<1> SUFFICES ASSUME IInv, Typed, Prompted, [Next]_vars PROVE Prompted'
  OBVIOUS
<1>1. CASE Refetch \/ Query
  BY <1>1, QueryPrompt
<1>2. CASE \/ \E v \in Values : \/ EditAccess(v) \/ EditTls(v) \/ EditSubPort(v) \/ EditSubMode(v)
                                \/ EditStrategy(v) \/ EditRules(v)
           \/ \E s \in KeySections : PasteKey(s)
           \/ DiscardAll
  <2>1. /\ UNCHANGED <<row, loaded, cache, savers, page, seen>>
        /\ raced \subseteq raced'
    BY <1>2 DEF EditAccess, EditTls, EditSubPort, EditSubMode, EditStrategy, EditRules, Type,
                PasteKey, Touch, DiscardAll, server
  <2> QED
    BY <2>1, AttentiveWas, PromptQuiet DEF Undisturbed
<1>3. CASE \E r \in Runs : SaveAll(r) \/ Loop(r) \/ Network(r)
  BY <1>3, PassPrompt, WritePrompt, AnswerPrompt DEF Network
<1>4. CASE Navigate
  BY <1>4 DEF Navigate, Prompted, Attentive
<1>5. CASE RestartXray
  BY <1>5 DEF RestartXray, Prompted, InForce
<1>6. CASE RestartPanel
  BY <1>6, AttentiveWas, PromptQuiet DEF RestartPanel, Undisturbed, Typed, TypeOK
<1>7. CASE RestartLater
  <2>1. UNCHANGED <<row, loaded, cache, savers, raced, seen>>
    BY <1>7 DEF RestartLater, server
  <2>2. page.xrayPrompt \in {"open", "later"} => page'.xrayPrompt \in {"open", "later"}
    BY <1>7 DEF RestartLater, Typed, TypeOK
  <2> QED
    BY <2>1, <2>2 DEF Prompted, Attentive, Undisturbed, InForce, OwedByCopy, Section
<1>8. CASE \E v \in Values, here \in BOOLEAN : ForeignWrite(v, here)
  BY <1>8, SeenGrows DEF ForeignWrite, Prompted, Attentive
<1>9. CASE UNCHANGED vars
  BY <1>9, PromptQuiet, AttentiveWas DEF vars, Undisturbed
<1> QED
  BY <1>1, <1>2, <1>3, <1>4, <1>5, <1>6, <1>7, <1>8, <1>9 DEF Next

LEMMA SpecPrompted == Spec => []Prompted
<1>1. Init => Prompted
  BY SwitchOwner DEF Init, Prompted, InForce
<1> QED
  BY <1>1, SpecIInv, SpecTyped, StepPrompted, PTL DEF Spec

\* A strategy stored by this page and not yet loaded by xray has been put to the
\* operator, unless the page was left or its copy was refreshed under the save
\* (Settings.tsx, the onSuccess of the xray section).
THEOREM RestartIsOffered == Spec => []RestartOffered
<1>1. Prompted => RestartOffered
  BY DEF Prompted, RestartOffered, Attentive, InForce, OwedByCopy
<1> QED
  BY <1>1, SpecPrompted, PTL
=============================================================================
