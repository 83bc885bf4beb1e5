------------------------------ MODULE InboundPage ------------------------------
(***************************************************************************)
(* The inbounds page and the requests it makes (pages/Inbounds/index.tsx,   *)
(* InboundForm.tsx, tabs/VlessEncryption.tsx, tabs/RealityTab.tsx): the     *)
(* list and its optimistic switch, the modal with its one form store, the   *)
(* keypairs fetched behind the operator's back, the key rotation, and the   *)
(* save, each answered whenever the network likes.                          *)
(*                                                                         *)
(* A keypair is a number, in the order the panel made them known. All rows  *)
(* are VLESS over TCP with Reality; sec stands for the rest of the security *)
(* column (target, server names, short ids), which holds the pair as well.  *)
(***************************************************************************)
EXTENDS Integers, Sequences, FiniteSets, SequencesExt

CONSTANTS
    Slots,       \* bound: row actions (switch, delete) under way at once
    MaxClicks,   \* bound: things the operator does
    MaxActs,     \* bound: how many of them are row actions
    MaxTrouble,  \* bound: requests or answers that are lost or refused
    MaxMade      \* bound: keypairs ever made

ASSUME PageAssumption ==
    /\ IsFiniteSet(Slots) /\ Slots \cap {"save", "rotate"} = {}
    /\ {MaxClicks, MaxActs, MaxTrouble, MaxMade} \subseteq Nat /\ MaxMade >= 3

Ids   == 1..3     \* two stored inbounds and the one a create adds
Auths == {"mlkem768", "x25519"}
Pairs == 0..MaxMade   \* 0: none

VARIABLES
    rows,      \* the inbounds table
    made,      \* what each keypair was made for: an auth, or "reality"
    cache,     \* the ['inbounds'] query: the rows it shows, if any
    fetch,     \* its request: idle, asked, or an answer on its way
    modal,     \* is the form on screen?
    editing,   \* the record the page believes the form is about, a set of at most one
    form,      \* the form's store
    enc,       \* the encryption section: registered?, prevAuthRef
    keygens,   \* keypair requests under way
    save,      \* the save request
    acts,      \* the row actions' requests
    rotate,    \* the rotate-keypair request
    mount,     \* which opening of the form this is
    opened,    \* history: the record this session's form was opened with
    causes,    \* history: why this session's save may differ from that record
    seen,      \* history: trouble that leaves the list behind the table
    budget

vars == <<rows, made, cache, fetch, modal, editing, form, enc, keygens, save, acts, rotate,
          mount, opened, causes, seen, budget>>

Row  == [here : BOOLEAN, on : BOOLEAN, mode : BOOLEAN, auth : Auths, keys : Pairs, pair : Pairs,
         sec : {0, 1}]
Gone == [here |-> FALSE, on |-> FALSE, mode |-> FALSE, auth |-> "mlkem768", keys |-> 0, pair |-> 0,
         sec |-> 0]

Spend(k)  == budget[k] > 0 /\ budget' = [budget EXCEPT ![k] = @ - 1]
Click     == Spend("click") /\ UNCHANGED seen
RowClick  == /\ budget.click > 0 /\ budget.act > 0 /\ UNCHANGED seen
             /\ budget' = [k \in DOMAIN budget |-> IF k = "trouble" THEN budget[k] ELSE budget[k] - 1]
Suffer(s) == Spend("trouble") /\ seen' = seen \cup s
Calm      == UNCHANGED <<seen, budget>>

list    == <<cache, fetch>>
session == <<modal, editing, form, enc, mount, opened, causes>>

Unset    == [mode |-> FALSE, auth |-> "mlkem768", keys |-> 0, pair |-> 0, sec |-> 0]   \* DEFAULTS
NoSave   == [st |-> "idle", to |-> 0, body |-> Unset, base |-> {}, causes |-> {}]
NoAct    == [st |-> "idle", kind |-> "toggle", id |-> 1, on |-> FALSE, snap |-> {}]
NoRotate == [st |-> "idle", id |-> 1, row |-> Gone, sec |-> 0, mount |-> 0]
NoEnc    == [watching |-> FALSE, prev |-> {}]

Init ==
    /\ rows = [i \in Ids |->
                 CASE i = 1 -> [here |-> TRUE, on |-> TRUE, mode |-> TRUE, auth |-> "x25519",
                                keys |-> 3, pair |-> 1, sec |-> 0]
                   [] i = 2 -> [here |-> TRUE, on |-> TRUE, mode |-> FALSE, auth |-> "mlkem768",
                                keys |-> 0, pair |-> 2, sec |-> 0]
                   [] i = 3 -> Gone]
    /\ made = <<"reality", "reality", "x25519">>
    /\ cache = {} /\ fetch = [st |-> "asked", rows |-> {}]
    /\ modal = FALSE /\ editing = {} /\ form = Unset /\ enc = NoEnc
    /\ keygens = {} /\ save = NoSave
    /\ acts = [k \in Slots |-> NoAct]
    /\ rotate = NoRotate
    /\ mount = 0 /\ opened = {} /\ causes = {} /\ seen = {}
    /\ budget = [click |-> MaxClicks, act |-> MaxActs, trouble |-> MaxTrouble]

-----------------------------------------------------------------------------
(* The list.                                                               *)

Asked == [st |-> "asked", rows |-> {}]
Idle  == [st |-> "idle", rows |-> {}]

\* invalidateQueries: a request under way is dropped and a new one sent.
Invalidate == fetch' = Asked

ListAnswered ==
    /\ fetch.st = "asked"
    /\ fetch' = [st |-> "read", rows |-> {rows}]
    /\ UNCHANGED <<rows, made, cache, session, keygens, save, acts, rotate>> /\ Calm

ListDelivered ==
    /\ fetch.st = "read"
    /\ cache' = fetch.rows
    /\ fetch' = Idle
    /\ UNCHANGED <<rows, made, session, keygens, save, acts, rotate>> /\ Calm

\* A list that never came is retried from the error panel; one that is shown
\* stays up, behind the table.
ListFails ==
    /\ fetch.st # "idle"
    /\ Suffer({"list"})
    /\ fetch' = IF cache = {} THEN Asked ELSE Idle
    /\ UNCHANGED <<rows, made, cache, session, keygens, save, acts, rotate>>

Shown(i) == \E c \in cache : c[i].here
OnPage   == ~modal /\ cache # {}

\* The switch flips in the list at once; the list it replaced is kept aside.
Toggle(k, i) ==
    /\ OnPage /\ Shown(i) /\ acts[k].st = "idle" /\ RowClick
    /\ LET on == \E c \in cache : ~c[i].on
       IN /\ acts' = [acts EXCEPT ![k] = [st |-> "sent", kind |-> "toggle", id |-> i, on |-> on,
                                          snap |-> cache]]
          /\ cache' = {[c EXCEPT ![i].on = on] : c \in cache}
    /\ UNCHANGED <<rows, made, fetch, session, keygens, save, rotate>>

Delete(k, i) ==
    /\ OnPage /\ Shown(i) /\ acts[k].st = "idle" /\ RowClick
    /\ acts' = [acts EXCEPT ![k] = [NoAct EXCEPT !.st = "sent", !.kind = "delete", !.id = i]]
    /\ UNCHANGED <<rows, made, list, session, keygens, save, rotate>>

\* The backend's side of either; an inbound that is gone is a 404.
ActStored(k) ==
    /\ acts[k].st = "sent" /\ rows[acts[k].id].here
    /\ rows' = [rows EXCEPT ![acts[k].id] =
                  IF acts[k].kind = "delete" THEN Gone ELSE [@ EXCEPT !.on = acts[k].on]]
    /\ acts' = [acts EXCEPT ![k].st = "done"]
    /\ UNCHANGED <<made, list, session, keygens, save, rotate>> /\ Calm

\* Mutant: only a switch that failed asks for the list again.
SettleQuietly(k, ok) ==
    /\ cache' = IF ~ok /\ acts[k].kind = "toggle" THEN acts[k].snap ELSE cache
    /\ IF acts[k].kind = "delete" => ok THEN UNCHANGED fetch ELSE Invalidate

\* A refused or unanswered switch restores the list of its own click; a switch
\* asks for the list again either way, a delete only when it succeeded.
SettleAct(k, ok) ==
    /\ cache' = IF ~ok /\ acts[k].kind = "toggle" THEN acts[k].snap ELSE cache
    /\ IF acts[k].kind = "delete" => ok THEN Invalidate ELSE UNCHANGED fetch

EndAct(k, ok) ==
    /\ SettleAct(k, ok)
    /\ acts' = [acts EXCEPT ![k] = NoAct]
    /\ UNCHANGED <<rows, made, session, keygens, save, rotate>>

ActAnswered(k) == acts[k].st = "done" /\ EndAct(k, TRUE) /\ Calm

ActRefused(k) ==
    /\ acts[k].st = "sent" /\ ~rows[acts[k].id].here
    /\ EndAct(k, FALSE) /\ Calm

\* The request is lost before the backend saw it, or its answer after; a switch
\* that was stored and then not applied to xray is answered with an error (500).
ActLost(k) ==
    /\ acts[k].st # "idle" /\ EndAct(k, FALSE)
    /\ Suffer(IF acts[k].st = "done" /\ acts[k].kind = "delete" THEN {"answer"} ELSE {})

-----------------------------------------------------------------------------
(* The modal. Its form store outlives it; every opening resets it.          *)

Open(record, values) ==
    /\ OnPage /\ Click
    /\ modal' = TRUE /\ editing' = record /\ form' = values
    /\ enc' = NoEnc /\ mount' = mount + 1 /\ opened' = record /\ causes' = {}
    /\ UNCHANGED <<rows, made, list, save, acts, rotate>>

Hydrate(r) == [mode |-> r.mode, auth |-> r.auth, keys |-> r.keys, pair |-> r.pair, sec |-> r.sec]

OpenEdit(i) ==
    \E c \in cache : /\ c[i].here
                     /\ Open({[id |-> i, row |-> c[i]]}, Hydrate(c[i]))
                     /\ UNCHANGED keygens

\* A fresh inbound asks for a Reality pair as soon as its tab mounts.
OpenCreate ==
    /\ Open({}, Unset)
    /\ keygens' = keygens \cup {[for |-> "reality", mount |-> mount + 1]}

Cancel ==
    /\ modal /\ Click
    /\ modal' = FALSE /\ editing' = {}
    /\ enc' = NoEnc
    /\ UNCHANGED <<rows, made, list, form, keygens, save, acts, rotate, mount, opened, causes>>

-----------------------------------------------------------------------------
(* The encryption section. Its effect runs when the mode, the auth or the   *)
(* pending flag changes.                                                    *)

Pending(m) == \E g \in keygens : g.for \in Auths /\ g.mount = m

\* Mutant: what the first render saw counts as the auth the keys were made for.
RegenerateFromFirstRender(v) == enc.prev # {v.auth}

\* The first run adopts the auth it finds; afterwards only a switch counts.
Regenerate(v) == IF enc.prev = {} THEN v.keys = 0 ELSE enc.prev # {v.auth}

\* The effect after a step that leaves the form at v and, apart from the
\* effect, the requests at gens.
RunEffect(v, gens) ==
    IF v.mode /\ ~\E g \in gens : g.for \in Auths /\ g.mount = mount
    THEN /\ enc' = [watching |-> TRUE, prev |-> {v.auth}]
         /\ keygens' = IF Regenerate(v) THEN gens \cup {[for |-> v.auth, mount |-> mount]} ELSE gens
    ELSE enc' = [enc EXCEPT !.watching = TRUE] /\ keygens' = gens

\* The render in which the watched fields get their values.
Watching ==
    /\ modal /\ ~enc.watching
    /\ RunEffect(form, keygens)
    /\ UNCHANGED <<rows, made, list, modal, editing, form, save, acts, rotate, mount, opened, causes>>
    /\ Calm

Edit(v, why) ==
    /\ modal /\ enc.watching /\ Click
    /\ form' = v /\ causes' = causes \cup why
    /\ RunEffect(v, keygens)
    /\ UNCHANGED <<rows, made, list, modal, editing, save, acts, rotate, mount, opened>>

SwitchMode == Edit([form EXCEPT !.mode = ~@], {})
SwitchAuth == form.mode /\ \E a \in Auths \ {form.auth} : Edit([form EXCEPT !.auth = a], {"auth"})

\* The other security fields; the encryption section's effect has nothing new to see.
EditSecurity == Edit([form EXCEPT !.sec = 1 - @], {})

\* The regenerate button, idle while a request of this section is under way.
RegenerateKeys ==
    /\ modal /\ enc.watching /\ form.mode /\ ~Pending(mount) /\ Click
    /\ keygens' = keygens \cup {[for |-> form.auth, mount |-> mount]}
    /\ causes' = causes \cup {"button"}
    /\ UNCHANGED <<rows, made, list, modal, editing, form, enc, save, acts, rotate, mount, opened>>

\* The answer is written into the store of whatever form is open by then.
KeygenAnswered(g) ==
    /\ g \in keygens /\ Len(made) < MaxMade
    /\ made' = Append(made, g.for)
    /\ LET v == IF g.for = "reality" THEN [form EXCEPT !.pair = Len(made) + 1]
                ELSE [form EXCEPT !.keys = Len(made) + 1]
       IN /\ form' = IF modal THEN v ELSE form
          /\ causes' = IF modal /\ g.mount # mount THEN causes \cup {"stray"} ELSE causes
          /\ IF modal /\ enc.watching THEN RunEffect(v, keygens \ {g})
             ELSE keygens' = keygens \ {g} /\ UNCHANGED enc
    /\ UNCHANGED <<rows, list, modal, editing, save, acts, rotate, mount, opened>> /\ Calm

KeygenFails(g) ==
    /\ g \in keygens /\ Suffer({})
    /\ IF modal /\ enc.watching THEN RunEffect(form, keygens \ {g})
       ELSE keygens' = keygens \ {g} /\ UNCHANGED enc
    /\ UNCHANGED <<rows, made, list, modal, editing, form, save, acts, rotate, mount, opened, causes>>

-----------------------------------------------------------------------------
(* Rotating the Reality keypair, from the form of an existing inbound.      *)

RotateClick ==
    /\ modal /\ rotate.st = "idle" /\ Click
    /\ \E e \in editing : rotate' = [NoRotate EXCEPT !.st = "sent", !.id = e.id, !.mount = mount]
    /\ UNCHANGED <<rows, made, list, session, keygens, save, acts>>

\* The panel reads the row ...
RotateRead ==
    /\ rotate.st = "sent" /\ rows[rotate.id].here
    /\ rotate' = [rotate EXCEPT !.st = "read", !.sec = rows[rotate.id].sec]
    /\ UNCHANGED <<rows, made, list, session, keygens, save, acts>> /\ Calm

\* ... and writes the security column back as it read it, with a new pair. No
\* transaction holds the two together; nobody sees the pair before the second.
WriteBack(r) == [r EXCEPT !.pair = Len(made) + 1, !.sec = rotate.sec]

RotateStored ==
    /\ rotate.st = "read" /\ rows[rotate.id].here /\ Len(made) < MaxMade
    /\ made' = Append(made, "reality")
    /\ rows' = [rows EXCEPT ![rotate.id] = WriteBack(@)]
    /\ rotate' = [rotate EXCEPT !.st = "done", !.row = rows'[rotate.id]]
    /\ UNCHANGED <<list, session, keygens, save, acts>> /\ Calm

\* The page's record becomes the rotated row, whichever form is open by then;
\* the store keeps what it had.
RotateAnswered ==
    /\ rotate.st = "done"
    /\ editing' = {[id |-> rotate.id, row |-> rotate.row]}
    /\ causes' = IF modal /\ rotate.mount # mount THEN causes \cup {"stray"} ELSE causes
    /\ rotate' = NoRotate
    /\ Invalidate
    /\ UNCHANGED <<rows, made, cache, modal, form, enc, mount, opened, keygens, save, acts>> /\ Calm

\* Lost, refused because the row is gone, or stored and not applied to xray.
RotateLost ==
    /\ rotate.st # "idle"
    /\ IF rotate.st # "done" /\ ~rows[rotate.id].here THEN Calm
       ELSE Suffer(IF rotate.st = "done" THEN {"answer"} ELSE {})
    /\ rotate' = NoRotate
    /\ UNCHANGED <<rows, made, list, session, keygens, save, acts>>

-----------------------------------------------------------------------------
(* Saving: the whole store, to the record the page is editing, if any.      *)

SaveClick ==
    /\ modal /\ save.st = "idle" /\ Click
    /\ save' = [st |-> "sent", body |-> form, base |-> opened, causes |-> causes,
                to |-> IF editing = {} THEN 0 ELSE (CHOOSE e \in editing : TRUE).id]
    /\ UNCHANGED <<rows, made, list, session, keygens, acts, rotate>>

\* A switched-off encryption is sent without keys. A create makes the keys the
\* body lacks, an update stores what it got.
Written(before) ==
    [before EXCEPT !.here = TRUE, !.mode = save.body.mode, !.auth = save.body.auth,
                   !.sec = save.body.sec, !.keys = IF save.body.mode THEN save.body.keys ELSE 0,
                   !.pair = IF save.body.pair = 0 THEN @ ELSE save.body.pair]

SavePatched ==
    /\ save.st = "sent" /\ save.to # 0 /\ rows[save.to].here
    /\ rows' = [rows EXCEPT ![save.to] = Written(@)]
    /\ save' = [save EXCEPT !.st = "done"]
    /\ UNCHANGED <<made, list, session, keygens, acts, rotate>> /\ Calm

\* Mutant: a create trusts the form to have filled in the Reality pair.
MissingEncryptionOnly(r) == IF r.mode /\ r.keys = 0 THEN <<r.auth>> ELSE <<>>

\* What a create makes for the row it was sent.
Missing(r) == (IF r.pair = 0 THEN <<"reality">> ELSE <<>>)
              \o (IF r.mode /\ r.keys = 0 THEN <<r.auth>> ELSE <<>>)

SavePosted ==
    /\ save.st = "sent" /\ save.to = 0 /\ ~rows[3].here
    /\ LET r   == [Written(Gone) EXCEPT !.on = TRUE]
           all == made \o Missing(r)
       IN /\ Len(all) <= MaxMade
          /\ made' = all
          /\ rows' = [rows EXCEPT ![3] =
                [r EXCEPT !.pair = IF @ = 0 /\ "reality" \in ToSet(Missing(r)) THEN Len(made) + 1 ELSE @,
                          !.keys = IF r.mode /\ @ = 0 THEN Len(all) ELSE @]]
    /\ save' = [save EXCEPT !.st = "done"]
    /\ UNCHANGED <<list, session, keygens, acts, rotate>> /\ Calm

\* Whatever form is open by now is closed and its store reset.
SaveAnswered ==
    /\ save.st = "done"
    /\ save' = NoSave
    /\ Invalidate
    /\ modal' = FALSE /\ editing' = {} /\ form' = Unset /\ enc' = NoEnc
    /\ UNCHANGED <<rows, made, cache, mount, opened, causes, keygens, acts, rotate>> /\ Calm

SaveRefused ==
    /\ save.st = "sent"
    /\ IF save.to = 0 THEN rows[3].here ELSE ~rows[save.to].here
    /\ save' = NoSave
    /\ UNCHANGED <<rows, made, list, session, keygens, acts, rotate>> /\ Calm

\* Mutant: a save whose answer was lost is sent again.
RetryLostSave ==
    /\ save.st # "idle" /\ Suffer({"answer"})
    /\ save' = [save EXCEPT !.st = "sent"]
    /\ UNCHANGED <<rows, made, list, session, keygens, acts, rotate>>

\* Lost on its way or on its way back, or stored and not applied to xray (500).
SaveLost ==
    /\ save.st # "idle" /\ Suffer(IF save.st = "done" THEN {"answer"} ELSE {})
    /\ save' = NoSave
    /\ UNCHANGED <<rows, made, list, session, keygens, acts, rotate>>

Finished == budget.click = 0 /\ UNCHANGED vars

Next ==
    \/ ListAnswered \/ ListDelivered \/ ListFails
    \/ \E k \in Slots : ActStored(k) \/ ActAnswered(k) \/ ActRefused(k) \/ ActLost(k)
    \/ \E k \in Slots, i \in Ids : Toggle(k, i) \/ Delete(k, i)
    \/ \E i \in Ids : OpenEdit(i)
    \/ OpenCreate \/ Cancel
    \/ Watching \/ SwitchMode \/ SwitchAuth \/ EditSecurity \/ RegenerateKeys
    \/ \E g \in keygens : KeygenAnswered(g) \/ KeygenFails(g)
    \/ RotateClick \/ RotateRead \/ RotateStored \/ RotateAnswered \/ RotateLost
    \/ SaveClick \/ SavePatched \/ SavePosted \/ SaveAnswered \/ SaveRefused \/ SaveLost
    \/ Finished

Spec == Init /\ [][Next]_vars

-----------------------------------------------------------------------------
\* Type correctness; the pair a row uses was made, and made for that use.
TypeOK ==
    /\ rows \in [Ids -> Row]
    /\ \A i \in Ids : rows[i].here => /\ rows[i].pair \in DOMAIN made
                                     /\ made[rows[i].pair] = "reality"
    /\ \A i \in Ids : rows[i].keys # 0 => made[rows[i].keys] \in Auths
    /\ form \in [mode : BOOLEAN, auth : Auths, keys : Pairs, pair : Pairs, sec : {0, 1}]
    /\ Cardinality(editing) <= 1 /\ Cardinality(cache) <= 1

Quiet ==
    /\ fetch.st = "idle" /\ save.st = "idle" /\ rotate.st = "idle"
    /\ \A k \in Slots : acts[k].st = "idle"

\* With nothing under way the list is the table: however the optimistic
\* switches, their rollbacks and the refetches overlapped, only a lost refetch, or a
\* lost answer or an error to what had been stored, leaves the page behind
\* (index.tsx, toggle and del).
QuietListCurrent == (Quiet /\ seen = {}) => cache = {rows}

About(records) == {e.id : e \in records}

\* Unless the operator switched the auth or asked for new keys, or an answer
\* meant for another form fell into this one, a save goes to the inbound its
\* form was opened with, and one that had encryption keys keeps them
\* (VlessEncryption.tsx, the keygen effect; InboundForm.tsx, the rotation). The
\* Reality pair is not covered: a save sends the one its form was opened with.
KeysRotateForCause ==
    (save.st = "sent" /\ save.causes = {}) =>
        /\ About(save.base) = {save.to} \ {0}
        /\ \A e \in save.base :
              e.row.mode /\ e.row.keys # 0 /\ save.body.mode => save.body.keys = e.row.keys

-----------------------------------------------------------------------------
(* The page against its promise: a click writes at most once.              *)

\* (The body of a switch is where it was put, of a rotation what it read.)
SaveRequest   == [by |-> "save", kind |-> "save", to |-> save.to, body |-> save.body]
ActRequest(k) == [by |-> k, kind |-> acts[k].kind, to |-> acts[k].id,
                  body |-> [Unset EXCEPT !.mode = acts[k].on]]
RotateRequest == [by |-> "rotate", kind |-> IF rotate.st = "read" THEN "write back" ELSE "rotate",
                  to |-> rotate.id, body |-> [Unset EXCEPT !.sec = rotate.sec]]

\* The requests the panel has not written yet.
Sent == {r \in {SaveRequest} : save.st = "sent"}
        \cup {ActRequest(k) : k \in {j \in Slots : acts[j].st = "sent"}}
        \cup {r \in {RotateRequest} : rotate.st \in {"sent", "read"}}

\* Only a rotation reads before it writes, and keeps only its row's security.
Look(t, r, s) == /\ r.kind = "rotate"
                 /\ s = [by |-> r.by, kind |-> "write back", to |-> r.to,
                         body |-> [Unset EXCEPT !.sec = t[r.to].sec]]

\* What applying request r to table t may give.
Effect(t, r, u) ==
    /\ \A i \in Ids : i # r.to /\ (r.to = 0 => i # 3) => u[i] = t[i]
    /\ CASE r.kind = "toggle" -> u[r.to] = [t[r.to] EXCEPT !.on = r.body.mode]
         [] r.kind = "delete" -> u[r.to] = Gone
         [] r.kind = "rotate" -> FALSE
         [] r.kind = "write back" ->
              /\ u[r.to] = [t[r.to] EXCEPT !.pair = u[r.to].pair, !.sec = r.body.sec]
              /\ \A i \in Ids : t[i].pair < u[r.to].pair
         [] r.kind = "save" ->
              LET i == IF r.to = 0 THEN 3 ELSE r.to
              IN /\ u[i].here /\ u[i].mode = r.body.mode /\ u[i].auth = r.body.auth
                 /\ u[i].sec = r.body.sec
                 /\ r.to # 0 => t[i].here /\ u[i].on = t[i].on
                 /\ r.body.mode /\ r.body.keys # 0 => u[i].keys = r.body.keys
                 /\ r.body.pair # 0 => u[i].pair = r.body.pair

Promise == INSTANCE WriteOnce WITH table <- rows, pending <- Sent,
                                   clicks <- MaxClicks - budget.click

\* A stored row changes only as a click asked, and a click at most once: nothing is
\* repeated, and nothing undoes what another request wrote but a rotation, which puts
\* back the security fields of its own row as it read them before it wrote, and a
\* later save, which writes every field of its form (inbounds.rs, update and
\* rotate_reality_keypair).
WritesOnce == Promise!Spec
=============================================================================
