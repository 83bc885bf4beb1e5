------------------------------ MODULE ClientsPage ------------------------------
(***************************************************************************)
(* The clients page (frontend/src/pages/Clients.tsx).                      *)
(*                                                                         *)
(* A client of the panel is an email; what is stored is one row per        *)
(* inbound it is attached to.  The page lists the rows grouped by email    *)
(* from two cached queries that poll, fans the row actions out over a      *)
(* group with optimistic changes of the cache, saves a form that replaces  *)
(* the whole set of attachments of an email, and shows links that belong   *)
(* to single rows.  Every request is served and answered at its own time.  *)
(***************************************************************************)
EXTENDS Integers, FiniteSets, Functions

CONSTANTS
    Emails, Inbounds,
    Notes,        \* what the fields shared by an email's rows may hold
    MaxIds,       \* bound: rows ever created
    Ops,          \* fan-outs that may be under way together
    MaxActs,      \* bound: what the operator does
    MaxTurns,     \* bound: rotations of a subscription token
    MaxTrouble    \* bound: failed requests, and rows changed by somebody else

ASSUME ClientsAssumption ==
    /\ MaxIds \in Nat /\ Ops \subseteq Nat
    /\ {MaxActs, MaxTurns, MaxTrouble} \subseteq Nat
    /\ Notes # {} /\ "all" \notin Inbounds
    /\ Emails # {} /\ IsFiniteSet(Emails) /\ IsFiniteSet(Inbounds)

All  == "all"               \* the unfiltered list's key
Keys == Inbounds \cup {All} \* one list per value of the inbound filter

VARIABLES
    rows,     \* the stored rows
    lastId,   \* of the last row created; the list is sorted newest first
    filter,   \* the inbound filter
    shown,    \* the key whose data the table shows: a new filter keeps the old
              \* list on screen until its own arrives
    cache,    \* the lists the tab has, by key
    fetch,    \* their requests
    ops,      \* fan-outs: a toggle, a reset or a delete of a group
    modal,    \* the create/edit form
    save,     \* its request
    asks,     \* share-link requests under way: to open the dialog, or to switch in it
    share,    \* the share dialog
    rotate,   \* the subscription token rotation under way
    seen,     \* history: kinds of events the tab could not know of
    budget    \* what is left of each bound

vars == <<rows, lastId, filter, shown, cache, fetch, ops, modal, save, asks, share, rotate,
          seen, budget>>
lists == <<filter, shown, cache, fetch>>
forms == <<modal, save>>
links == <<asks, share, rotate>>

\* st: enabled, or why not.  token: which subscription token the row carries.
Client == [id : 1..MaxIds, email : Emails, inbound : Inbounds,
           st : {"on", "manual", "quota"}, note : Notes, token : Nat]

Spend(k)  == budget[k] > 0 /\ budget' = [budget EXCEPT ![k] = @ - 1]
Suffer(k) == Spend("trouble") /\ seen' = seen \cup {k}
Calmly    == UNCHANGED <<seen, budget>>

View(key)    == {c \in rows : key \in {All, c.inbound}}
Ids(cs)      == {c.id : c \in cs}
RowOf(i)     == CHOOSE c \in rows : c.id = i
Exists(i)    == i \in Ids(rows)
Attached(cs, e) == {c.inbound : c \in {d \in cs : d.email = e}}

NoList  == [have |-> FALSE, data |-> {}]
NoFetch == [st |-> "idle", data |-> {}]
Asked   == [st |-> "asked", data |-> {}]
IdleOp  == [st |-> "idle", kind |-> "toggle", email |-> CHOOSE e \in Emails : TRUE, ids |-> {},
            want |-> FALSE, todo |-> {}, failed |-> 0, before |-> [k \in Keys |-> NoList]]
Closed  == [st |-> "closed", email |-> CHOOSE e \in Emails : TRUE, targets |-> {},
            note |-> CHOOSE v \in Notes : TRUE, dropped |-> {}, fresh |-> FALSE]
NoSave  == [st |-> "idle", form |-> Closed]
NoShare == [open |-> FALSE, group |-> {}, current |-> 0, fresh |-> FALSE]
NoTurn  == [st |-> "idle", row |-> 0, got |-> {}]

Init ==
    /\ \E stored \in SUBSET (Emails \X Inbounds) :
          LET number == CHOOSE n \in [stored -> 1..Cardinality(stored)] : IsInjective(n) IN
          /\ stored # {} /\ Cardinality(stored) <= MaxIds
          /\ rows = {[id |-> number[a], email |-> a[1], inbound |-> a[2], st |-> "on",
                      note |-> CHOOSE v \in Notes : TRUE, token |-> 0] : a \in stored}
          /\ lastId = Cardinality(stored)
    /\ filter = All /\ shown = All
    /\ cache = [k \in Keys |-> NoList]
    /\ fetch = [k \in Keys |-> IF k = All THEN Asked ELSE NoFetch]
    /\ ops = [o \in Ops |-> IdleOp]
    /\ modal = Closed /\ save = NoSave
    /\ asks = {} /\ share = NoShare /\ rotate = NoTurn
    /\ seen = {}
    /\ budget = [act |-> MaxActs, turn |-> MaxTurns, trouble |-> MaxTrouble]

-----------------------------------------------------------------------------
(* The two lists: ['clients-global', filter] and ['clients-global', null]. *)

Watched == {filter, All}

Ask(ks) == fetch' = [k \in Keys |-> IF k \in ks THEN Asked ELSE fetch[k]]

\* invalidate(): every list is stale; the watched ones are asked for again at once.
Invalidate == Ask(Watched)

\* Mutant: a list is asked for only until it has arrived once.
PollUntilLoaded(k) ==
    /\ k \in Watched /\ fetch[k].st = "idle" /\ ~cache[k].have
    /\ Ask({k})
    /\ UNCHANGED <<rows, lastId, filter, shown, cache, ops, forms, links, seen, budget>>

\* Every five seconds, while nothing is under way for the key.
Poll(k) ==
    /\ k \in Watched /\ fetch[k].st = "idle"
    /\ Ask({k})
    /\ UNCHANGED <<rows, lastId, filter, shown, cache, ops, forms, links, seen, budget>>

GetAnswered(k) ==
    /\ fetch[k].st = "asked"
    /\ fetch' = [fetch EXCEPT ![k] = [st |-> "read", data |-> View(k)]]
    /\ UNCHANGED <<rows, lastId, filter, shown, cache, ops, forms, links, seen, budget>>

GetDelivered(k) ==
    /\ fetch[k].st = "read"
    /\ cache' = [cache EXCEPT ![k] = [have |-> TRUE, data |-> fetch[k].data]]
    /\ fetch' = [fetch EXCEPT ![k] = NoFetch]
    /\ shown' = IF k = filter THEN k ELSE shown
    /\ UNCHANGED <<rows, lastId, filter, ops, forms, links, seen, budget>>

GetFails(k) ==
    /\ fetch[k].st # "idle"
    /\ Suffer("fault")
    /\ fetch' = [fetch EXCEPT ![k] = NoFetch]
    /\ UNCHANGED <<rows, lastId, filter, shown, cache, ops, forms, links>>

\* The page stays blank until the table's list has arrived once.
Drawn == cache[shown].have

\* No dialog covers the table.
TableInReach == Drawn /\ modal.st = "closed" /\ ~share.open

PickFilter(k) ==
    /\ TableInReach /\ k # filter /\ Spend("act")
    /\ filter' = k
    /\ shown' = IF cache[k].have THEN k ELSE shown
    /\ Ask({k})
    /\ UNCHANGED <<rows, lastId, cache, ops, forms, links, seen>>

Group(e)   == {c \in cache[shown].data : c.email = e}
First(cs)  == CHOOSE c \in cs : \A d \in cs : d.id <= c.id
AllOn(cs)  == \A c \in cs : c.st = "on"

-----------------------------------------------------------------------------
(* Fan-outs over the rows of a group: PATCH enabled, reset, DELETE. *)

\* The switch shows a spinner for the email of the LAST toggle only.
Spinning(kind, e) ==
    \E o \in Ops : ops[o].st = "last" /\ ops[o].kind = kind /\ ops[o].email = e

\* onMutate: the cached rows change before the panel has answered.
Optimistic(kind, ids, want, cs) ==
    CASE kind = "toggle" ->
           {IF c.id \notin ids THEN c
            ELSE [c EXCEPT !.st = IF want THEN "on" ELSE IF @ = "on" THEN "manual" ELSE @] : c \in cs}
      [] kind = "delete" -> {c \in cs : c.id \notin ids}
      [] kind = "reset"  -> cs

Fan(o, kind, e) ==
    /\ TableInReach /\ Group(e) # {} /\ ~Spinning(kind, e)
    /\ ops[o].st = "idle" /\ \A p \in Ops : p < o => ops[p].st # "idle"
    /\ Spend("act")
    /\ LET ids  == Ids(Group(e))
           want == ~AllOn(Group(e)) IN
       /\ ops' = [p \in Ops |->
                    IF p = o
                    THEN [st |-> "last", kind |-> kind, email |-> e, ids |-> ids,
                          want |-> kind = "toggle" /\ want, todo |-> ids, failed |-> 0,
                          before |-> cache]
                    ELSE IF ops[p].st = "last" /\ ops[p].kind = kind
                         THEN [ops[p] EXCEPT !.st = "earlier"] ELSE ops[p]]
       /\ cache' = [k \in Keys |->
                      [cache[k] EXCEPT !.data = Optimistic(kind, ids, want, @)]]
    /\ UNCHANGED <<rows, lastId, filter, shown, fetch, forms, links, seen>>

\* What one request of a fan-out does to its row.
Applied(op, c) ==
    CASE op.kind = "toggle" -> {[c EXCEPT !.st = IF op.want THEN "on" ELSE "manual"]}
      [] op.kind = "reset"  -> {[c EXCEPT !.st = IF @ = "quota" THEN "on" ELSE @]}
      [] op.kind = "delete" -> {}

Served(op, i) ==
    rows' = IF Exists(i) THEN (rows \ {RowOf(i)}) \cup Applied(op, RowOf(i)) ELSE rows

\* One request of the fan-out: answered, refused, or applied with its answer lost.
ServeOne(o, i) ==
    /\ i \in ops[o].todo
    /\ \E how \in {"answered", "lost", "refused"} :
         /\ IF how = "answered" THEN Calmly ELSE Suffer("fault")
         /\ IF how = "refused" THEN UNCHANGED rows ELSE Served(ops[o], i)
         /\ ops' = [ops EXCEPT ![o].todo = @ \ {i},
                      ![o].failed = IF how = "answered" /\ Exists(i) THEN @ ELSE @ + 1]
    /\ UNCHANGED <<lastId, lists, forms, links>>

RestoreSnapshots(before) ==
    cache' = [k \in Keys |-> IF before[k].have THEN before[k] ELSE cache[k]]

\* Promise.allSettled: nothing got through - roll back and refetch; some did -
\* refetch; all did - a toggle and a delete trust what the table already shows.
Settled(o) ==
    /\ ops[o].st # "idle" /\ ops[o].todo = {}
    /\ LET op     == ops[o]
           failed == op.failed = Cardinality(op.ids) IN
       /\ IF failed /\ op.kind # "reset" THEN RestoreSnapshots(op.before) ELSE UNCHANGED cache
       /\ IF op.failed > 0 \/ op.kind = "reset" THEN Invalidate ELSE UNCHANGED fetch
    /\ ops' = [ops EXCEPT ![o] = IdleOp]
    /\ UNCHANGED <<rows, lastId, filter, shown, forms, links, seen, budget>>

-----------------------------------------------------------------------------
(* The create/edit form and its single save path, bulk-assign. *)

\* Mutant: the form is seeded from the rows on screen, which a filter narrows.
SeedFromTable(e) == Attached(cache[shown].data, e)

\* Seeded when it opens and only then: later refetches do not touch it.
SeedTargets(e) == Attached(cache[All].data, e)

\* The note is the one the operator will have left in the form, the first row's
\* or another; nothing reads it before the save.
OpenEdit(e) ==
    /\ TableInReach /\ Group(e) # {} /\ Spend("act")
    /\ \E v \in Notes : modal' =
                [st |-> "edit", email |-> e, targets |-> SeedTargets(e),
                 note |-> v, dropped |-> {},
                 fresh |-> /\ SeedTargets(e) = Attached(rows, e) \/ cache[All].data = rows
                           /\ save.st = "idle"]
    /\ UNCHANGED <<rows, lastId, lists, ops, save, links, seen>>

OpenCreate(e) ==
    /\ TableInReach /\ Spend("act")
    /\ modal' = [Closed EXCEPT !.st = "create", !.email = e,
                   !.targets = IF filter # All THEN {filter}
                               ELSE IF Cardinality(Inbounds) = 1 THEN Inbounds ELSE {}]
    /\ UNCHANGED <<rows, lastId, lists, ops, save, links, seen>>

Choose(i) ==
    /\ modal.st # "closed" /\ Spend("act")
    /\ modal' = IF i \in modal.targets
                THEN [modal EXCEPT !.targets = @ \ {i}, !.dropped = @ \cup {i}]
                ELSE [modal EXCEPT !.targets = @ \cup {i}]
    /\ UNCHANGED <<rows, lastId, lists, ops, save, links, seen>>

Cancel ==
    /\ modal.st # "closed"
    /\ modal' = Closed
    /\ UNCHANGED <<rows, lastId, lists, ops, save, links, seen, budget>>

\* OK: validated, and not while a save is pending.
Submit ==
    /\ modal.st # "closed" /\ modal.targets # {} /\ save.st = "idle"
    /\ save' = [st |-> "sent", form |-> modal]
    /\ UNCHANGED <<rows, lastId, lists, ops, modal, links, seen, budget>>

\* Mutant: every selected inbound gets a new row.
BulkInsert(f) ==
    /\ lastId + Cardinality(f.targets) <= MaxIds
    /\ lastId' = lastId + Cardinality(f.targets)
    /\ \E number \in Injection(f.targets, (lastId + 1)..lastId') :
         rows' = rows \cup {[id |-> number[i], email |-> f.email, inbound |-> i, st |-> "on",
                             note |-> f.note, token |-> 0] : i \in f.targets}

\* The set of attachments becomes the form's: kept rows are rewritten but for
\* their state, their id and their token, missing ones are created enabled, the others go.
BulkAssign(f) ==
    LET e     == f.email
        kept  == {c \in rows : c.email = e /\ c.inbound \in f.targets}
        fresh == f.targets \ Attached(rows, e)
    IN /\ lastId + Cardinality(fresh) <= MaxIds
       /\ lastId' = lastId + Cardinality(fresh)
       /\ \E number \in Injection(fresh, (lastId + 1)..lastId') :
            /\ rows' = {c \in rows : c.email # e}
                         \cup {[c EXCEPT !.note = f.note] : c \in kept}
                         \cup {[id |-> number[i], email |-> e, inbound |-> i, st |-> "on",
                                note |-> f.note, token |-> 0] : i \in fresh}

SaveServed ==
    /\ save.st = "sent"
    /\ BulkAssign(save.form)
    /\ save' = [save EXCEPT !.st = "served"]
    /\ UNCHANGED <<lists, ops, modal, links, seen, budget>>

\* onSuccess closes whatever form is open by then.
SaveAnswered ==
    /\ save.st = "served"
    /\ modal' = Closed /\ save' = NoSave
    /\ Invalidate
    /\ UNCHANGED <<rows, lastId, filter, shown, cache, ops, links, seen, budget>>

SaveFails ==
    /\ save.st # "idle"
    /\ Suffer("fault")
    /\ save' = NoSave
    /\ UNCHANGED <<rows, lastId, lists, ops, modal, links>>

-----------------------------------------------------------------------------
(* The share dialog: one row's link, and the subscription URL of the first row. *)

\* Every token the group was captured with is still the stored one.
Resolving(cs) == \A c \in cs : Exists(c.id) => RowOf(c.id).token = c.token

\* The group is captured at the click; the button of the last email clicked spins.
\* `last` stands for openShare.variables.
OpenShare(e) ==
    /\ TableInReach /\ Group(e) # {} /\ Spend("act")
    /\ \A a \in asks : ~(a.last /\ a.email = e)
    /\ asks' = {IF a.kind = "open" THEN [a EXCEPT !.last = FALSE] ELSE a : a \in asks}
                 \cup {[kind |-> "open", st |-> "asked", email |-> e, group |-> Group(e),
                        row |-> First(Group(e)).id, last |-> TRUE]}
    /\ UNCHANGED <<rows, lastId, lists, ops, forms, share, rotate, seen>>

SwitchInbound(i) ==
    /\ share.open /\ i \in Ids(share.group) \ {share.current}
    /\ Spend("act")
    /\ asks' = asks \cup {[kind |-> "switch", st |-> "asked", email |-> First(share.group).email,
                           group |-> {}, row |-> i, last |-> FALSE]}
    /\ UNCHANGED <<rows, lastId, lists, ops, forms, share, rotate, seen>>

LinkServed(a) ==
    /\ a.st = "asked" /\ Exists(a.row)
    /\ asks' = (asks \ {a}) \cup {[a EXCEPT !.st = "read"]}
    /\ UNCHANGED <<rows, lastId, lists, ops, forms, share, rotate, seen, budget>>

\* An opening shows the group its click captured, over whatever is open by then; a
\* switch changes the dialog that is open, if one is.
LinkAnswered(a) ==
    /\ a.st = "read"
    /\ asks' = asks \ {a}
    /\ share' = IF a.kind = "open"
                THEN [open |-> TRUE, group |-> a.group, current |-> a.row,
                      fresh |-> Resolving(a.group)]
                ELSE IF share.open THEN [share EXCEPT !.current = a.row] ELSE share
    /\ UNCHANGED <<rows, lastId, lists, ops, forms, rotate, seen, budget>>

\* Lost, or the row is gone.
LinkFails(a) ==
    /\ IF a.st = "asked" /\ ~Exists(a.row) THEN Calmly ELSE Suffer("fault")
    /\ asks' = asks \ {a}
    /\ UNCHANGED <<rows, lastId, lists, ops, forms, share, rotate>>

CloseShare ==
    /\ share.open
    /\ share' = NoShare
    /\ UNCHANGED <<rows, lastId, lists, ops, forms, asks, rotate, seen, budget>>

RotateSubToken ==
    /\ share.open /\ rotate.st = "idle" /\ Spend("turn")
    /\ rotate' = [NoTurn EXCEPT !.st = "sent", !.row = First(share.group).id]
    /\ UNCHANGED <<rows, lastId, lists, ops, forms, asks, share, seen>>

RotateServed ==
    /\ rotate.st = "sent" /\ Exists(rotate.row)
    /\ LET updated == [RowOf(rotate.row) EXCEPT !.token = @ + 1]
       IN /\ rows' = (rows \ {RowOf(rotate.row)}) \cup {updated}
          /\ rotate' = [rotate EXCEPT !.st = "served", !.got = {updated}]
    /\ UNCHANGED <<lastId, lists, ops, forms, asks, share, seen, budget>>

\* Mutant: the dialog waits for the lists, which it does not read again.
KeepGroup(updated) == share.group

\* The dialog's own copy of the row is patched, the lists are asked for again.
PatchGroup(updated) ==
    {IF c.id = updated.id THEN updated ELSE c : c \in share.group}

RotateAnswered ==
    /\ rotate.st = "served"
    /\ \E updated \in rotate.got :
          share' = IF share.open THEN [share EXCEPT !.group = PatchGroup(updated)] ELSE share
    /\ rotate' = NoTurn
    /\ Invalidate
    /\ UNCHANGED <<rows, lastId, filter, shown, cache, ops, forms, asks, seen, budget>>

RotateFails ==
    /\ rotate.st # "idle"
    /\ IF rotate.st = "sent" /\ ~Exists(rotate.row) THEN Calmly ELSE Suffer("fault")
    /\ rotate' = NoTurn
    /\ UNCHANGED <<rows, lastId, lists, ops, forms, asks, share>>

-----------------------------------------------------------------------------
(* What happens behind the tab's back. *)

\* The traffic poller disables an email that is over its quota.
QuotaTrips(e) ==
    /\ \E c \in rows : c.email = e /\ c.st = "on"
    /\ Spend("trouble")
    /\ rows' = {IF c.email = e /\ c.st = "on" THEN [c EXCEPT !.st = "quota"] ELSE c : c \in rows}
    /\ UNCHANGED <<lastId, lists, ops, forms, links, seen>>

\* Another session attaches an email to one more inbound.
ForeignAttach(e, i) ==
    /\ i \notin Attached(rows, e) /\ lastId < MaxIds
    /\ Suffer("foreign")
    /\ lastId' = lastId + 1
    /\ rows' = rows \cup {[id |-> lastId', email |-> e, inbound |-> i, st |-> "on",
                           note |-> Closed.note, token |-> 0]}
    /\ UNCHANGED <<lists, ops, forms, links>>

Next ==
    \/ \E k \in Keys : Poll(k) \/ GetAnswered(k) \/ GetDelivered(k) \/ GetFails(k) \/ PickFilter(k)
    \/ \E o \in Ops : \/ \E kind \in {"toggle", "reset", "delete"}, e \in Emails : Fan(o, kind, e)
                      \/ \E i \in 1..MaxIds : ServeOne(o, i)
                      \/ Settled(o)
    \/ \E e \in Emails : OpenEdit(e) \/ OpenCreate(e) \/ OpenShare(e) \/ QuotaTrips(e)
    \/ \E i \in Inbounds : Choose(i) \/ \E e \in Emails : ForeignAttach(e, i)
    \/ Cancel \/ Submit \/ SaveServed \/ SaveAnswered \/ SaveFails
    \/ \E i \in 1..MaxIds : SwitchInbound(i)
    \/ \E a \in asks : LinkServed(a) \/ LinkAnswered(a) \/ LinkFails(a)
    \/ CloseShare \/ RotateSubToken \/ RotateServed \/ RotateAnswered \/ RotateFails

Spec == Init /\ [][Next]_vars

\* The page polls while it is on screen; requests end; the operator need not act.
FairSpec ==
    /\ Spec
    /\ \A k \in Keys : WF_vars(Poll(k)) /\ WF_vars(GetAnswered(k)) /\ WF_vars(GetDelivered(k))
    /\ \A o \in Ops : WF_vars(Settled(o)) /\ WF_vars(\E i \in 1..MaxIds : ServeOne(o, i))

-----------------------------------------------------------------------------
List == [have : BOOLEAN, data : SUBSET Client]

\* The state stays well typed, and no two rows share an id or an inbound of one email.
TypeOK ==
    /\ \A c \in rows : c.id \in 1..lastId /\ c.st \in {"on", "manual", "quota"} /\ c.token \in Nat
    /\ \A c, d \in rows : c.id = d.id \/ (c.email = d.email /\ c.inbound = d.inbound) => c = d
    /\ filter \in Keys /\ shown \in Keys
    /\ \A k \in Keys : cache[k].have \in BOOLEAN /\ fetch[k].st \in {"idle", "asked", "read"}
    /\ \A o \in Ops : ops[o].todo \subseteq ops[o].ids /\ ops[o].failed <= Cardinality(ops[o].ids)
    /\ modal.targets \subseteq Inbounds /\ modal.st \in {"closed", "create", "edit"}
    /\ \A a \in asks : \A c \in a.group : c.id \in 1..lastId
    /\ save.st \in {"idle", "sent", "served"} /\ rotate.st \in {"idle", "sent", "served"}

\* Saving an edit form detaches the client from no inbound the operator did not
\* deselect - whatever filter the table was under, however many refetches came in
\* while the form was open - if the form was opened over an up-to-date list with
\* no save pending, every request was answered and nobody else attached the client.
EditKeepsAttachments ==
    [][(seen = {} /\ save.st = "sent" /\ save'.st = "served" /\ save.form.st = "edit"
          /\ save.form.fresh)
         => \A c \in rows : (c.email = save.form.email /\ c.inbound \notin save.form.dropped)
              => \E d \in rows' : d.id = c.id]_vars

\* The subscription URL in the share dialog goes on resolving: the token it shows is
\* the one stored, unless a rotation is under way or was lost, or the token had been
\* revoked before the dialog opened - the list was behind the panel at the click, or a
\* rotation was served between the click and the answer that opens the dialog.
ShownUrlResolves ==
    (share.open /\ share.fresh /\ rotate.st = "idle" /\ "fault" \notin seen)
      => Resolving(share.group)

\* Optimistic changes, rollbacks and late answers notwithstanding, the table ends
\* up showing what is stored once everybody has stopped changing it.
Converges == <>[](shown = filter /\ cache[shown].data = View(shown))

=============================================================================
