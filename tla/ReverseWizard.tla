----------------------------- MODULE ReverseWizard -----------------------------
(***************************************************************************)
(* The reverse-pair wizard (pages/Outbounds/ReverseWizard.tsx) on top of the*)
(* outbounds page. The portal side makes a client, adds a routing rule that *)
(* targets its reverse tag and fetches the invite, each a request of its    *)
(* own, with two markers so that a retry does not repeat what was done; the *)
(* bridge side appends an outbound to the list. A wizard lives from open to *)
(* close; what it started goes on without it.                               *)
(***************************************************************************)
EXTENDS OutboundsPage, Sequences, SequencesExt

CONSTANTS
    Names,     \* an inbound and a client email: unique in the clients table
    MaxOpens   \* bound: wizards ever opened

ASSUME WizardAssumption == "bridge-node" \in Names /\ MaxOpens \in Nat

Wizards == 1..MaxOpens

VARIABLES
    clients,   \* the reverse clients, in the order they were made
    rules,     \* panel_settings.xray_custom_rules
    wiz,       \* the open wizard's state, markers included
    opened,    \* how many wizards there have been
    portal,    \* the createPortal mutation of each wizard
    bridge,    \* the createBridge mutation of each wizard
    unheard,   \* history: wizards that did not hear of something they did
    shadowed   \* history: reverse tags an outbound was stored under later

wizardVars == <<clients, rules, wiz, opened, portal, bridge, unheard, shadowed>>
vars == <<pageVars, wizardVars>>

Modes == {"all", "none"}   \* "by domain" adds the same rule with a matcher

Fresh == [open |-> TRUE, role |-> "unset", step |-> 0,
          name |-> "bridge-node", tag |-> "home", mode |-> "all",
          client |-> 0, ruled |-> FALSE,           \* createdIdRef, ruleDoneRef
          invite |-> 0,                            \* the client the link is for
          imported |-> FALSE, local |-> "home",
          apart |-> FALSE]                         \* history: see Fill
Closed == [Fresh EXCEPT !.open = FALSE]

NoPortal == [st |-> "idle", name |-> "bridge-node", tag |-> "home", mode |-> "all", client |-> 0,
             body |-> <<>>]
NoBridge == [st |-> "idle", id |-> 1, tag |-> "home", body |-> NoList]

Init ==
    /\ PageInit
    /\ clients = <<>> /\ rules = <<>>
    /\ wiz = Closed /\ opened = 0
    /\ portal = [w \in Wizards |-> NoPortal]
    /\ bridge = [w \in Wizards |-> NoBridge]
    /\ unheard = {} /\ shadowed = {}

Live(w) == wiz.open /\ w = opened   \* is this wizard still on screen?

-----------------------------------------------------------------------------
(* The dialog.                                                             *)

Open ==
    /\ ~wiz.open /\ ~modal /\ cache # {} /\ opened < MaxOpens
    /\ wiz' = [wiz EXCEPT !.open = TRUE] /\ opened' = opened + 1
    /\ UNCHANGED <<pageVars, clients, rules, portal, bridge, unheard, shadowed>>

\* Mutant: the component stays mounted and only its fields are reset.
HideWizard == [Closed EXCEPT !.client = wiz.client, !.ruled = wiz.ruled]

\* The component is unmounted, markers and all.
Unmount == Closed

\* The cross, Cancel or Done: what the wizard started goes on without it.
Close ==
    /\ wiz.open /\ wiz' = Unmount
    /\ UNCHANGED <<pageVars, clients, rules, opened, portal, bridge, unheard, shadowed>>

Turn(step, w) ==
    /\ wiz.open /\ wiz.step = step /\ wiz' = w
    /\ UNCHANGED <<clients, rules, opened, portal, bridge, unheard, shadowed>>
Page(step, w) == Turn(step, w) /\ UNCHANGED pageVars

PickRole == \E r \in {"portal", "bridge"} : Page(0, [wiz EXCEPT !.role = r])
NextStep == wiz.role # "unset" /\ Page(0, [wiz EXCEPT !.step = 1])
Back     == Page(1, [wiz EXCEPT !.step = 0])

\* The setup's fields stay editable throughout. (apart: the fields and the
\* client already made, or being made, have gone different ways.)
Fill ==
    /\ wiz.role = "portal"
    /\ \E n \in Names, t \in Tags, m \in Modes :
         /\ <<n, t, m>> # <<wiz.name, wiz.tag, wiz.mode>>
         /\ Turn(1, [wiz EXCEPT !.name = n, !.tag = t, !.mode = m,
                                 !.apart = @ \/ wiz.client # 0 \/ portal[opened].st # "idle"])
    /\ UNCHANGED <<rows, minted, cache, fetch, puts, dialog>> /\ Click

\* parseOutboundLink of an invite, whose tag may be one this panel has already;
\* changing the text forgets the result.
Import   == wiz.role = "bridge"
            /\ \E t \in {"home", "relay"} : Page(1, [wiz EXCEPT !.imported = TRUE, !.local = t])
EditLink == wiz.imported /\ wiz.role = "bridge" /\ Page(1, [wiz EXCEPT !.imported = FALSE])

-----------------------------------------------------------------------------
(* The portal: client, rule, invite.                                        *)

\* What comes after the client, when the markers are as the wizard has them.
AfterClient(mode, ruled) == IF mode # "none" /\ ~ruled THEN "get" ELSE "link"

CreatePortal ==
    /\ wiz.open /\ wiz.step = 1 /\ wiz.role = "portal" /\ portal[opened].st = "idle"
    /\ portal' = [portal EXCEPT ![opened] =
           [st |-> IF wiz.client = 0 THEN "post" ELSE AfterClient(wiz.mode, wiz.ruled),
            name |-> wiz.name, tag |-> wiz.tag, mode |-> wiz.mode, client |-> wiz.client,
            body |-> <<>>]]
    /\ wiz' = [wiz EXCEPT !.apart = @ \/ \E w \in Wizards : portal[w].st # "idle"]
    /\ UNCHANGED <<rows, minted, cache, fetch, puts, dialog, clients, rules, opened, bridge, unheard, shadowed>>
    /\ Click

Taken(w) == \E c \in DOMAIN clients : clients[c].name = portal[w].name

OutboundTags(list) == {list[i].tag : i \in {j \in Ids : list[j].here}}

\* Mutant: only the form of the tag is looked at.
AnyTag(tag) == TRUE

\* normalize_reverse_tag: no stored outbound, on or off, has the tag.
FreeTag(tag) == tag \notin OutboundTags(rows)

Portal(w, p) == portal' = [portal EXCEPT ![w] = p]
Elsewhere    == UNCHANGED <<pageVars, opened, bridge, unheard, shadowed>>

TagChecked(w) ==
    /\ portal[w].st = "post" /\ FreeTag(portal[w].tag)
    /\ Portal(w, [portal[w] EXCEPT !.st = "checked"])
    /\ UNCHANGED <<clients, rules, wiz>> /\ Elsewhere

\* The row goes in, some awaits after its tag was looked at.
ClientStored(w) ==
    /\ portal[w].st = "checked" /\ ~Taken(w)
    /\ clients' = Append(clients, [name |-> portal[w].name, tag |-> portal[w].tag, by |-> w])
    /\ Portal(w, [portal[w] EXCEPT !.st = "posted", !.client = Len(clients) + 1])
    /\ UNCHANGED <<rules, wiz>> /\ Elsewhere

ClientRefused(w) ==
    /\ \/ portal[w].st = "post" /\ ~FreeTag(portal[w].tag)
       \/ portal[w].st = "checked" /\ Taken(w)
    /\ Portal(w, NoPortal)
    /\ UNCHANGED <<clients, rules, wiz>> /\ Elsewhere

\* The client's marker is set; this wizard has added no rule yet.
ClientAnswered(w) ==
    /\ portal[w].st = "posted"
    /\ Portal(w, [portal[w] EXCEPT !.st = AfterClient(portal[w].mode, FALSE)])
    /\ wiz' = IF Live(w) THEN [wiz EXCEPT !.client = portal[w].client] ELSE wiz
    /\ UNCHANGED <<clients, rules>> /\ Elsewhere

\* The settings are read, and sent back with one more rule.
RulesRead(w) ==
    /\ portal[w].st = "get"
    /\ Portal(w, [portal[w] EXCEPT !.st = "put",
                                   !.body = Append(rules, [to |-> portal[w].tag, by |-> w])])
    /\ UNCHANGED <<clients, rules, wiz>> /\ Elsewhere

\* valid_rule_targets, and the rules that were stored already.
Targets == {rows[i].tag : i \in {j \in Ids : rows[j].here /\ rows[j].on /\ ~rows[j].bridge}}
           \cup {clients[c].tag : c \in DOMAIN clients}
Legal(body) == \A n \in DOMAIN body : body[n].to \in Targets \/ body[n] \in ToSet(rules)

RulesStored(w) ==
    /\ portal[w].st = "put" /\ Legal(portal[w].body)
    /\ rules' = portal[w].body
    /\ Portal(w, [portal[w] EXCEPT !.st = "ruled", !.body = <<>>])
    /\ UNCHANGED <<clients, wiz>> /\ Elsewhere

RulesRefused(w) ==
    /\ portal[w].st = "put" /\ ~Legal(portal[w].body)
    /\ Portal(w, NoPortal)
    /\ UNCHANGED <<clients, rules, wiz>> /\ Elsewhere

\* Mutant: only the client is remembered for a retry.
LeaveUnmarked(w) == UNCHANGED wiz

MarkRuled(w) == wiz' = IF Live(w) THEN [wiz EXCEPT !.ruled = TRUE] ELSE wiz

RulesAnswered(w) ==
    /\ portal[w].st = "ruled" /\ MarkRuled(w)
    /\ Portal(w, [portal[w] EXCEPT !.st = "link"])
    /\ UNCHANGED <<clients, rules>> /\ Elsewhere

\* The share link of the client: the wizard moves to its last page.
LinkAnswered(w) ==
    /\ portal[w].st = "link"
    /\ Portal(w, NoPortal)
    /\ wiz' = IF Live(w) THEN [wiz EXCEPT !.step = 2, !.invite = portal[w].client] ELSE wiz
    /\ UNCHANGED <<clients, rules>> /\ Elsewhere

\* Any of the requests, or its answer, is lost: the attempt ends there.
PortalLost(w) ==
    /\ portal[w].st # "idle" /\ Suffer({})
    /\ unheard' = IF portal[w].st \in {"posted", "ruled"} THEN unheard \cup {w} ELSE unheard
    /\ Portal(w, NoPortal)
    /\ UNCHANGED <<rows, minted, cache, fetch, puts, dialog, clients, rules, wiz, opened, bridge, shadowed>>

-----------------------------------------------------------------------------
(* The bridge: read the outbounds, send them back with one more.            *)

Bridge(w, b) == bridge' = [bridge EXCEPT ![w] = b]

\* History: validate_outbounds looks at the list it is given, never at the
\* clients, so a list may bring a tag some client has or is about to get.
Held   == {clients[c].tag : c \in DOMAIN clients}
          \cup {portal[w].tag : w \in {v \in Wizards : portal[v].st = "checked"}}
Shadow == shadowed' = shadowed \cup (Held \cap OutboundTags(rows'))

CreateBridge ==
    /\ wiz.open /\ wiz.step = 1 /\ wiz.role = "bridge" /\ wiz.imported
    /\ bridge[opened].st = "idle" /\ minted # Ids
    /\ minted' = minted \cup {FreshId}
    /\ Bridge(opened, [st |-> "get", id |-> FreshId, tag |-> wiz.local, body |-> NoList])
    /\ UNCHANGED <<rows, cache, fetch, puts, dialog, clients, rules, wiz, opened, portal, unheard, shadowed>>
    /\ Click

BridgeRead(w) ==
    /\ bridge[w].st = "get"
    /\ Bridge(w, [bridge[w] EXCEPT !.st = "put",
                                   !.body = [rows EXCEPT ![bridge[w].id] = Named(bridge[w].tag, TRUE, TRUE)]])
    /\ UNCHANGED <<pageVars, clients, rules, wiz, opened, portal, unheard, shadowed>>

BridgeStored(w) ==
    /\ bridge[w].st = "put" /\ Storable(bridge[w].body)
    /\ rows' = bridge[w].body /\ Shadow
    /\ Bridge(w, [bridge[w] EXCEPT !.st = "done"])
    /\ UNCHANGED <<minted, cache, fetch, puts, dialog, clients, rules, wiz, opened, portal, unheard>>
    /\ Calm

BridgeRefused(w) ==
    /\ bridge[w].st = "put" /\ ~Storable(bridge[w].body)
    /\ Bridge(w, NoBridge)
    /\ UNCHANGED <<pageVars, clients, rules, wiz, opened, portal, unheard, shadowed>>

\* Mutant: the outbounds page is not told.
ListLeftAlone == UNCHANGED fetch

ListTold == Invalidate

BridgeAnswered(w) ==
    /\ bridge[w].st = "done"
    /\ Bridge(w, NoBridge)
    /\ ListTold
    /\ wiz' = IF Live(w) THEN [wiz EXCEPT !.step = 2] ELSE wiz
    /\ UNCHANGED <<rows, minted, cache, puts, dialog, clients, rules, opened, portal, unheard, shadowed>> /\ Calm

BridgeLost(w) ==
    /\ bridge[w].st # "idle"
    /\ Suffer(IF bridge[w].st = "done" THEN {"answer"} ELSE {})
    /\ Bridge(w, NoBridge)
    /\ UNCHANGED <<rows, minted, cache, fetch, puts, dialog, clients, rules, wiz, opened, portal, unheard, shadowed>>

-----------------------------------------------------------------------------

\* The wizard's modal covers the page; what the page had started goes on.
PageStep ==
    /\ PageWork \/ (~wiz.open /\ PageClicks)
    /\ Shadow /\ UNCHANGED <<clients, rules, wiz, opened, portal, bridge, unheard>>

Next ==
    \/ PageStep
    \/ Open \/ Close \/ PickRole \/ NextStep \/ Back \/ Fill \/ Import \/ EditLink
    \/ CreatePortal \/ CreateBridge
    \/ \E w \in Wizards :
         \/ TagChecked(w) \/ ClientStored(w) \/ ClientRefused(w) \/ ClientAnswered(w)
         \/ RulesRead(w) \/ RulesStored(w) \/ RulesRefused(w) \/ RulesAnswered(w)
         \/ LinkAnswered(w) \/ PortalLost(w)
         \/ BridgeRead(w) \/ BridgeStored(w) \/ BridgeRefused(w) \/ BridgeAnswered(w) \/ BridgeLost(w)
    \/ ~wiz.open /\ opened = MaxOpens /\ UNCHANGED vars

Spec == Init /\ [][Next]_vars

-----------------------------------------------------------------------------
\* Type correctness; no two outbounds ever share a tag, whichever of the
\* copies of the list was stored last (api/outbounds.rs, validate_outbounds).
TypeOK ==
    /\ rows \in [Ids -> Row]
    /\ \A i \in Ids : rows[i].here => i \in minted /\ \A j \in Ids \ {i} :
                                                      rows[j].here => rows[j].tag # rows[i].tag
    /\ Cardinality(cache) <= 1 /\ Cardinality(editing) <= 1
    /\ wiz.client \in 0..Len(clients) /\ wiz.step \in 0..2

Quiet ==
    /\ fetch.st = "idle" /\ \A k \in Puts : puts[k].st = "idle"
    /\ \A w \in Wizards : bridge[w].st = "idle"

\* With nothing under way the list shown is the list stored, however the
\* switches, saves, rollbacks and the wizard's own write overlapped; only a
\* lost refetch, or a lost answer or an error to what had been stored, leaves
\* it behind (index.tsx).
QuietListCurrent == (Quiet /\ seen = {}) => cache = {rows}

\* The invite shown is of a client with the name and tag the wizard was given,
\* and when a rule was wanted the panel has one that leads to that client: its
\* target is the tag, and no stored outbound answers to the tag first. Unless
\* the fields were changed after the client had been made or another wizard's
\* attempt was still under way, or an outbound was stored under the tag after
\* it had been found free (ReverseWizard.tsx, createPortal; clients.rs,
\* normalize_reverse_tag).
InviteMatches ==
    (wiz.open /\ wiz.step = 2 /\ wiz.invite # 0 /\ ~wiz.apart) =>
        /\ clients[wiz.invite].name = wiz.name /\ clients[wiz.invite].tag = wiz.tag
        /\ wiz.mode # "none" => \E n \in DOMAIN rules : rules[n].to = wiz.tag
        /\ wiz.tag \in OutboundTags(rows) => wiz.tag \in shadowed

\* A wizard makes one client and adds one rule, however often it is retried,
\* unless an answer that told it what it had done was lost (createdIdRef,
\* ruleDoneRef).
OneClientOneRule ==
    \A w \in Wizards \ unheard :
        /\ Cardinality({c \in DOMAIN clients : clients[c].by = w}) <= 1
        /\ Cardinality({n \in DOMAIN rules : rules[n].by = w}) <= 1

=============================================================================
