----------------------------- MODULE OutboundsPage -----------------------------
(***************************************************************************)
(* The outbounds page (pages/Outbounds/index.tsx). The backend stores the   *)
(* list whole, so every switch, delete and save PUTs a copy of the list the *)
(* page was showing with one row changed; the last copy to arrive wins.     *)
(*                                                                         *)
(* A row is what the list and the routing rules tell apart: its tag, whether*)
(* it is enabled, and whether it is the bridge end of a reverse pair. The   *)
(* rest of an outbound is OutboundForm's. The order of the rows is left out.*)
(***************************************************************************)
EXTENDS Integers, FiniteSets, FiniteSetsExt

CONSTANTS
    Puts,        \* bound: lists under way at once; put 0 is the form's
    MaxIds,      \* bound: outbounds ever made
    Tags,        \* outbound and reverse tags
    MaxClicks,   \* bound: things the operator does on this page and its wizards
    MaxTrouble   \* bound: requests or answers that are lost

ASSUME OutboundsAssumption ==
    /\ Puts = 0..1 \/ Puts = 0..2
    /\ {"home", "relay"} \subseteq Tags
    /\ MaxIds \in 2..9 /\ {MaxClicks, MaxTrouble} \subseteq Nat

Ids == 1..MaxIds

VARIABLES
    rows,      \* panel_settings.xray_custom_outbounds
    minted,    \* the ids ever given out
    cache,     \* the ['outbounds'] query: the list it shows, if any
    fetch,     \* its request: idle, asked, or an answer on its way
    puts,      \* the lists being saved
    modal,     \* is the form on screen?
    editing,   \* the record it was opened for: a set of at most one
    form,      \* its values
    seen,      \* history: trouble that leaves the list behind the backend's
    budget

pageVars == <<rows, minted, cache, fetch, puts, modal, editing, form, seen, budget>>

Row    == [here : BOOLEAN, tag : Tags, on : BOOLEAN, bridge : BOOLEAN]
Gone   == [here |-> FALSE, tag |-> "home", on |-> FALSE, bridge |-> FALSE]
NoList == [i \in Ids |-> Gone]
NoPut  == [st |-> "idle", kind |-> "save", body |-> NoList, snap |-> {}]
Unset  == [tag |-> "home", on |-> TRUE]     \* OUTBOUND_DEFAULTS, once named
Asked  == [st |-> "asked", list |-> {}]
Idle   == [st |-> "idle", list |-> {}]

PageInit ==
    /\ rows = [NoList EXCEPT ![1] = [here |-> TRUE, tag |-> "relay", on |-> TRUE, bridge |-> FALSE]]
    /\ minted = {1}
    /\ cache = {} /\ fetch = Asked
    /\ puts = [k \in Puts |-> NoPut]
    /\ modal = FALSE /\ editing = {} /\ form = Unset
    /\ seen = {}
    /\ budget = [click |-> MaxClicks, trouble |-> MaxTrouble]

Spend(k)  == budget[k] > 0 /\ budget' = [budget EXCEPT ![k] = @ - 1]
Click     == Spend("click") /\ UNCHANGED seen
Suffer(s) == Spend("trouble") /\ seen' = seen \cup s
Calm      == UNCHANGED <<seen, budget>>
dialog    == <<modal, editing, form>>

-----------------------------------------------------------------------------
(* The list.                                                               *)

\* invalidateQueries: a request under way is dropped and a new one sent.
Invalidate == fetch' = Asked

ListAnswered ==
    /\ fetch.st = "asked"
    /\ fetch' = [st |-> "read", list |-> {rows}]
    /\ UNCHANGED <<rows, minted, cache, puts, dialog>> /\ Calm

ListDelivered ==
    /\ fetch.st = "read"
    /\ cache' = fetch.list /\ fetch' = Idle
    /\ UNCHANGED <<rows, minted, puts, dialog>> /\ Calm

\* A first list that never came is asked for again from the error panel; a
\* refetch that fails leaves the old list up under a banner.
ListFails ==
    /\ fetch.st # "idle" /\ Suffer({"list"})
    /\ fetch' = IF cache = {} THEN Asked ELSE Idle
    /\ UNCHANGED <<rows, minted, cache, puts, dialog>>

-----------------------------------------------------------------------------
(* PUT /outbounds.                                                         *)

\* Mutant: the list is taken as it comes.
AnyList(body) == TRUE

\* validate_outbounds: two rows never share a tag.
Storable(body) ==
    \A i, j \in Ids : (body[i].here /\ body[j].here /\ body[i].tag = body[j].tag) => i = j

\* A list goes out.
Send(k, kind, body, snap) ==
    puts' = [puts EXCEPT ![k] = [st |-> "sent", kind |-> kind, body |-> body, snap |-> snap]]

PutStored(k) ==
    /\ puts[k].st = "sent" /\ Storable(puts[k].body)
    /\ rows' = puts[k].body
    /\ puts' = [puts EXCEPT ![k].st = "done"]
    /\ UNCHANGED <<minted, cache, fetch, dialog>> /\ Calm

\* A refused or unanswered switch restores the list of its own click, and a
\* switch asks for the list again either way.
Settle(k, ok) ==
    /\ cache' = IF ~ok /\ puts[k].kind = "toggle" THEN puts[k].snap ELSE cache
    /\ IF puts[k].kind = "toggle" \/ ok THEN Invalidate ELSE UNCHANGED fetch
    /\ puts' = [puts EXCEPT ![k] = NoPut]
    /\ UNCHANGED <<rows, minted>>

PutRefused(k) ==
    /\ puts[k].st = "sent" /\ ~Storable(puts[k].body)
    /\ Settle(k, FALSE)
    /\ UNCHANGED dialog /\ Calm

\* A save closes whatever form is open by now and resets the store.
PutAnswered(k) ==
    /\ puts[k].st = "done"
    /\ Settle(k, TRUE)
    /\ IF puts[k].kind = "save" THEN modal' = FALSE /\ editing' = {} /\ form' = Unset
       ELSE UNCHANGED dialog
    /\ Calm

\* Lost on the way there, or the answer on the way back. Nothing refetches
\* after a delete or a save nobody heard of.
PutLost(k) ==
    /\ puts[k].st # "idle"
    /\ Suffer(IF puts[k].st = "done" /\ puts[k].kind # "toggle" THEN {"answer"} ELSE {})
    /\ Settle(k, FALSE)
    /\ UNCHANGED dialog

-----------------------------------------------------------------------------
(* The operator.                                                           *)

OnPage(l) == ~modal /\ cache = {l}

\* The switch flips at once; the list sent is the one from before the flip.
Toggle(k, i) ==
    \E l \in cache :
        /\ OnPage(l) /\ l[i].here /\ puts[k].st = "idle" /\ Click
        /\ LET flipped == [l EXCEPT ![i].on = ~@]
           IN Send(k, "toggle", flipped, cache) /\ cache' = {flipped}
        /\ UNCHANGED <<rows, minted, fetch, dialog>>

Delete(k, i) ==
    \E l \in cache :
        /\ OnPage(l) /\ l[i].here /\ puts[k].st = "idle" /\ Click
        /\ Send(k, "delete", [l EXCEPT ![i] = Gone], {})
        /\ UNCHANGED <<rows, minted, cache, fetch, dialog>>

OpenForm(record, values) ==
    /\ modal' = TRUE /\ editing' = record /\ form' = values
    /\ UNCHANGED <<rows, minted, cache, fetch, puts>> /\ Click

OpenEdit(i) ==
    \E l \in cache : OnPage(l) /\ l[i].here
                     /\ OpenForm({[id |-> i, row |-> l[i]]}, [tag |-> l[i].tag, on |-> l[i].on])

OpenCreate == \E l \in cache : OnPage(l) /\ OpenForm({}, Unset)

Edit ==
    /\ modal /\ Click
    /\ \E t \in Tags : form' = [form EXCEPT !.tag = t]
    /\ UNCHANGED <<rows, minted, cache, fetch, puts, modal, editing>>

\* (The store keeps its values; the next opening seeds it anew.)
Cancel ==
    /\ modal /\ modal' = FALSE /\ editing' = {} /\ form' = Unset
    /\ UNCHANGED <<rows, minted, cache, fetch, puts>> /\ Calm

\* The row is put where it was in the list as it is now: one that has left the
\* list since the form opened is not put back.
SaveEdit ==
    \E l \in cache, e \in editing :
        /\ modal /\ puts[0].st = "idle" /\ Click
        /\ Send(0, "save",
                IF l[e.id].here THEN [l EXCEPT ![e.id] = [e.row EXCEPT !.tag = form.tag, !.on = form.on]]
                ELSE l, {})
        /\ UNCHANGED <<rows, minted, cache, fetch, dialog>>

FreshId == Min(Ids \ minted)
Named(tag, on, bridge) == [here |-> TRUE, tag |-> tag, on |-> on, bridge |-> bridge]

SaveNew ==
    \E l \in cache :
        /\ modal /\ editing = {} /\ puts[0].st = "idle" /\ minted # Ids /\ Click
        /\ minted' = minted \cup {FreshId}
        /\ Send(0, "save", [l EXCEPT ![FreshId] = Named(form.tag, form.on, FALSE)], {})
        /\ UNCHANGED <<rows, cache, fetch, dialog>>

\* What goes on by itself, and what the operator does.
PageWork ==
    \/ ListAnswered \/ ListDelivered \/ ListFails
    \/ \E k \in Puts : PutStored(k) \/ PutRefused(k) \/ PutAnswered(k) \/ PutLost(k)

PageClicks ==
    \/ \E k \in Puts \ {0}, i \in Ids : Toggle(k, i) \/ Delete(k, i)
    \/ \E i \in Ids : OpenEdit(i)
    \/ OpenCreate \/ Edit \/ Cancel \/ SaveEdit \/ SaveNew
=============================================================================
