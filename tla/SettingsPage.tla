------------------------------ MODULE SettingsPage ------------------------------
(***************************************************************************)
(* The settings page of the panel (frontend/src/pages/Settings.tsx): four  *)
(* sections edit slices of ONE stored row, every save PUTs the whole row,  *)
(* and the fields a section does not own come from the query cache.        *)
(*                                                                         *)
(* One browser tab against the panel: the sections' forms and dirty flags, *)
(* the shared 'panel-settings' query, the save-all loop, the prompts and   *)
(* the navigations a save sets off, and another writer of the same row.    *)
(* The values of the fields are opaque; what matters is which writer's     *)
(* value is in the row, in the cache and on screen.                        *)
(***************************************************************************)
EXTENDS Integers, Sequences, FiniteSets, SequencesExt

CONSTANTS
    Sections,    \* the mounted sections, out of AllSections
    Values,      \* what a field may hold: 0 (the default, "off") and others
    MaxRuns,     \* bound: passes of saveAll that might overlap
    MaxEdits,    \* bound: edits of a field by the operator
    MaxSaves,    \* bound: clicks on Save
    MaxTrouble   \* bound: writes of the row by another writer, requests that fail
                 \* or whose answer is lost, refetches nobody on the page asked for

AllSections == {"access", "tls", "subscription", "xray"}

\* The slices. "rules" is pushed into the running xray by the save itself,
\* "strategy" stands for the fields that only the config file carries.
OwnerOf ==
    [port |-> "access", https |-> "tls", subPort |-> "subscription", custom |-> "subscription",
     strategy |-> "xray", rules |-> "xray"]
Fields   == DOMAIN OwnerOf
Owned(s) == {f \in Fields : OwnerOf[f] = s}

\* Two sections also send a private key, which no answer ever carries back; each
\* has a switch that is worth nothing without one.
KeySections == {"tls", "subscription"}
Switch(s)   == IF s = "tls" THEN "https" ELSE "custom"

ASSUME SettingsAssumption ==
    /\ Sections \subseteq AllSections
    /\ Values \subseteq Nat /\ 0 \in Values
    /\ MaxRuns \in Nat \ {0}
    /\ {MaxEdits, MaxSaves, MaxTrouble} \subseteq Nat

Runs   == 1..MaxRuns
ByPage == 0      \* a fetch no pass of saveAll waits for

VARIABLES
    row,        \* the stored settings: the fields and the two keys
    served,     \* the address the panel's listener answers on
    loaded,     \* the strategy the running xray was started with
    cache,      \* the tab's copy of the row, key replaced by "one is stored"
    fetch,      \* the query's request: its stage, who awaits it, what it read
    form,       \* what the inputs show
    typed,      \* what the key inputs show
    dirty,      \* the sections offered on the save bar, oldest first
    savers,     \* the passes of saveAll
    savingAll,  \* savingAllRef
    page,       \* the tab's address, pending navigation and restart prompts
    raced,      \* history: sections edited while the cache was behind the row,
                \* "xray" also when the cache moved under a save of it
    seen,       \* history: what happened to the tab beside its own requests
    budget      \* what is left of each bound

vars == <<row, served, loaded, cache, fetch, form, typed, dirty, savers, savingAll,
          page, raced, seen, budget>>
browser == <<cache, fetch, form, typed, dirty, savers, savingAll, page>>
server  == <<row, served, loaded>>

Row     == [Fields -> Values]
Copy    == [have : BOOLEAN, vals : Row, keySet : [KeySections -> BOOLEAN]]
Keys    == [KeySections -> BOOLEAN]   \* is one there? "no" in a PUT keeps the stored one
Address == [port : Values, https : Values]

Spend(k)  == budget[k] > 0 /\ budget' = [budget EXCEPT ![k] = @ - 1]
Suffer(k) == Spend("trouble") /\ seen' = seen \cup {k}
Calmly    == UNCHANGED <<seen, budget>>

NoKeys    == [s \in KeySections |-> FALSE]
NoCopy    == [have |-> FALSE, vals |-> [f \in Fields |-> 0], keySet |-> NoKeys]
NoFetch   == [st |-> "idle", for |-> ByPage, copy |-> NoCopy]
Asked(by) == [st |-> "asked", for |-> by, copy |-> NoCopy]
EmptyForm == [f \in Fields |-> 0]
IdleSaver == [pc |-> "idle", todo |-> <<>>, vals |-> EmptyForm, keys |-> NoKeys,
              report |-> "clean"]
FreshPage(a) == [at |-> a, leaving |-> {}, restartTo |-> {}, xrayPrompt |-> "none"]

Init ==
    /\ row = [vals |-> [f \in Fields |-> 0], keys |-> NoKeys]
    /\ served = [port |-> 0, https |-> 0]
    /\ loaded = 0
    /\ cache = NoCopy
    /\ fetch = Asked(ByPage)
    /\ form = EmptyForm /\ typed = NoKeys
    /\ dirty = <<>>
    /\ savers = [r \in Runs |-> IdleSaver]
    /\ savingAll = FALSE
    /\ page = FreshPage([port |-> 0, https |-> 0])
    /\ raced = {}
    /\ seen = {}
    /\ budget = [edit |-> MaxEdits, save |-> MaxSaves, trouble |-> MaxTrouble]

-----------------------------------------------------------------------------
(* The 'panel-settings' query, shared by the page, the sections and others. *)

Reachable == page.at = served

\* The query's own refetches: the retry of a page that has nothing yet, a
\* window focus. They do not cancel a request that is under way.
Refetch ==
    /\ fetch.st = "idle"
    /\ IF cache.have THEN Suffer("focus") ELSE Calmly
    /\ fetch' = Asked(ByPage)
    /\ UNCHANGED <<server, cache, form, typed, dirty, savers, savingAll, page, raced>>

GetAnswered ==
    /\ fetch.st = "asked" /\ Reachable
    /\ fetch' = [fetch EXCEPT !.st = "read",
                   !.copy = [have |-> TRUE, vals |-> row.vals, keySet |-> row.keys]]
    /\ UNCHANGED <<server, cache, form, typed, dirty, savers, savingAll, page, raced, seen, budget>>

\* The answer lands in the cache. Forms that mount for the first time take it
\* as their initial values; a form that is merely re-keyed keeps its store,
\* which outlives the remount and is merged over the initial values.
GetDelivered ==
    /\ fetch.st = "read"
    /\ cache' = fetch.copy
    /\ fetch' = NoFetch
    /\ form' = IF cache.have THEN form ELSE fetch.copy.vals
    /\ raced' = IF \E r \in Runs : savers[r].pc = "applied" /\ cache # fetch.copy
                THEN raced \cup {"xray"} ELSE raced
    /\ UNCHANGED <<server, typed, dirty, savers, savingAll, page, seen, budget>>

GetFails ==
    /\ fetch.st # "idle"
    /\ IF Reachable THEN Suffer("fault") ELSE Calmly
    /\ fetch' = NoFetch
    /\ UNCHANGED <<server, cache, form, typed, dirty, savers, savingAll, page, raced>>

-----------------------------------------------------------------------------
(* A section: its inputs, its dirty flag, its rules. *)

Section(r) == Head(savers[r].todo)
InPut(r)   == savers[r].pc \in {"put", "applied"}

\* mutation.isPending of a section: its form is disabled.
Pending(s) == \E r \in Runs : InPut(r) /\ Section(r) = s

\* Mutant: the form is compared with the defaults instead of the stored row.
DiffersFromDefaults(s, shown, keys) ==
    \/ \E f \in Owned(s) : shown[f] # 0
    \/ s \in KeySections /\ keys[s]

DiffersFromSaved(s, shown, keys) ==
    \/ \E f \in Owned(s) : shown[f] # cache.vals[f]
    \/ s \in KeySections /\ keys[s]

\* The bar is keyed by section: a flag keeps its place until it is dropped.
Place(s) == CHOOSE i \in DOMAIN dirty : dirty[i] = s
Flag(s, isDirty) ==
    dirty' = IF Contains(dirty, s)
             THEN IF isDirty THEN dirty ELSE RemoveAt(dirty, Place(s))
             ELSE IF isDirty THEN Append(dirty, s) ELSE dirty

Behind(s) == \E f \in Owned(s) : cache.vals[f] # row.vals[f]

Touch(s, shown, keys) ==
    /\ s \in Sections /\ cache.have /\ ~Pending(s)
    /\ Spend("edit")
    /\ form' = shown /\ typed' = keys
    /\ Flag(s, DiffersFromSaved(s, shown, keys))
    /\ raced' = IF Behind(s) THEN raced \cup {s} ELSE raced
    /\ UNCHANGED <<server, cache, fetch, savers, savingAll, page, seen>>

Type(s, f, v) == form[f] # v /\ Touch(s, [form EXCEPT ![f] = v], typed)

EditAccess(v)   == Type("access", "port", v)
EditTls(v)      == Type("tls", "https", v)
EditSubPort(v)  == Type("subscription", "subPort", v)
\* The TLS mode of the subscription listener is locked until it has a port.
EditSubMode(v)  == form["subPort"] > 0 /\ Type("subscription", "custom", v)
EditStrategy(v) == Type("xray", "strategy", v)
EditRules(v)    == Type("xray", "rules", v)

\* Pasted or dropped into a PEM field, or cleared from it; the subscription's two are inert unless
\* its mode is custom.
PasteKey(s) ==
    /\ s = "subscription" => form["custom"] # 0
    /\ Touch(s, form, [typed EXCEPT ![s] = ~@])

\* Mutant: the form trusts that the panel will refuse a switch without a key.
ValidAlways(s) == TRUE

\* The switch needs a key: one stored before, as far as the tab knows, or a
\* pasted one.
Valid(s) == s \in KeySections =>
              (form[Switch(s)] = 0 \/ cache.keySet[s] \/ typed[s])

AnySaving == savingAll \/ \E r \in Runs : InPut(r)

\* Discard: every section on the bar goes back to its initial values.
DiscardAll ==
    /\ dirty # <<>> /\ ~AnySaving
    /\ form' = [f \in Fields |->
                  IF \E s \in ToSet(dirty) : f \in Owned(s) THEN cache.vals[f] ELSE form[f]]
    /\ typed' = [s \in KeySections |-> IF Contains(dirty, s) THEN FALSE ELSE typed[s]]
    /\ dirty' = <<>>
    /\ raced' = raced \cup {s \in ToSet(dirty) : Behind(s)}
    /\ UNCHANGED <<server, cache, fetch, savers, savingAll, page, seen, budget>>

-----------------------------------------------------------------------------
(* saveAll: the dirty sections of the moment of the click, one at a time.  *)

\* Mutant: a second click starts a second pass.
SaveUnguarded == TRUE

SaveGuard == ~savingAll

SaveAll(r) ==
    /\ SaveGuard /\ dirty # <<>>
    /\ savers[r].pc = "idle" /\ \A q \in 1..(r - 1) : savers[q].pc # "idle"
    /\ Spend("save")
    /\ savingAll' = TRUE
    /\ savers' = [savers EXCEPT ![r].pc = "next", ![r].todo = dirty]
    /\ UNCHANGED <<server, cache, fetch, form, typed, dirty, page, raced, seen>>

\* The body of the PUT: the row as the cache has it at send time, the
\* section's own fields over it, and a key only from the section that has one.
MergePanelSettings(s) ==
    [f \in Fields |-> IF f \in Owned(s) THEN form[f] ELSE cache.vals[f]]
SentKeys(s) == [k \in KeySections |-> k = s /\ typed[k]]

Send(r) ==
    /\ savers[r].pc = "next" /\ savers[r].todo # <<>> /\ Valid(Section(r))
    /\ savers' = [savers EXCEPT ![r].pc = "put",
                    ![r].vals = MergePanelSettings(Section(r)),
                    ![r].keys = SentKeys(Section(r))]
    /\ UNCHANGED <<server, cache, fetch, form, typed, dirty, savingAll, page, raced, seen, budget>>

\* On to the next section, whatever became of this one.
Advance(r) == savers' = [savers EXCEPT ![r] =
                           [IdleSaver EXCEPT !.pc = "next", !.todo = Tail(savers[r].todo)]]

SkipInvalid(r) ==
    /\ savers[r].pc = "next" /\ savers[r].todo # <<>> /\ ~Valid(Section(r))
    /\ Advance(r)
    /\ UNCHANGED <<server, cache, fetch, form, typed, dirty, savingAll, page, raced, seen, budget>>

\* The backend replaces the row, keeps the key unless one is sent, moves the
\* listener when the port changed, and reports what became of the live router;
\* a restart of xray on the way loads the strategy too.
KeepStored(sent) == [k \in KeySections |-> sent[k] \/ row.keys[k]]

\* A switch without a key, sent or stored, is refused, whichever section the
\* save came from.
Acceptable(r) == \A s \in KeySections :
                    savers[r].vals[Switch(s)] # 0 => KeepStored(savers[r].keys)[s]

WriteRow(r, report) ==
    /\ savers[r].pc = "put" /\ Reachable /\ Acceptable(r)
    /\ row' = [vals |-> savers[r].vals,
               keys |-> KeepStored(savers[r].keys)]
    /\ served' = [served EXCEPT !.port = savers[r].vals["port"]]
    /\ loaded' = IF report = "restarted" THEN savers[r].vals["strategy"] ELSE loaded
    /\ savers' = [savers EXCEPT ![r].pc = "applied", ![r].report = report]
    /\ UNCHANGED <<cache, fetch, form, typed, dirty, savingAll, page, raced, seen, budget>>

(* What a successful save does to the page, section by section. *)
Saved(r, f) == savers[r].vals[f]
Moved(r, f) == Saved(r, f) # cache.vals[f]

AccessSaved(r) ==
    page' = IF Moved(r, "port") /\ savers[r].report = "clean"
            THEN [page EXCEPT !.leaving = {[port |-> Saved(r, "port"), https |-> page.at.https]}]
            ELSE page
TlsSaved(r) ==
    page' = IF Moved(r, "https") \/ savers[r].keys["tls"]
            THEN [page EXCEPT !.restartTo = {[port |-> cache.vals.port, https |-> Saved(r, "https")]}]
            ELSE page
\* Mutant: the prompt is left to the saves that reached the live router.
XraySavedIfClean(r) ==
    page' = IF Moved(r, "strategy") /\ savers[r].report = "clean"
            THEN [page EXCEPT !.xrayPrompt = "open"]
            ELSE page

XraySaved(r) ==
    page' = IF Moved(r, "strategy") /\ savers[r].report # "restarted"
            THEN [page EXCEPT !.xrayPrompt = "open"]
            ELSE page

PutAnswered(r) ==
    LET s == Section(r) IN
    /\ savers[r].pc = "applied"
    /\ CASE s = "access"       -> AccessSaved(r)
         [] s = "tls"          -> TlsSaved(r)
         [] s = "xray"         -> XraySaved(r)
         [] OTHER             -> UNCHANGED page
    /\ Flag(s, FALSE)
    /\ typed' = [k \in KeySections |-> IF k = s THEN FALSE ELSE typed[k]]
    /\ fetch' = Asked(r)
    /\ savers' = [savers EXCEPT ![r].pc = "refetch"]
    /\ UNCHANGED <<server, cache, form, savingAll, raced, seen, budget>>

\* A refusal, a timeout, an answer lost after the write, a listener that has
\* moved away: a toast, and the section stays on the bar.
PutFails(r) ==
    /\ InPut(r)
    /\ IF savers[r].pc = "put" /\ ~(Reachable /\ Acceptable(r)) THEN Calmly ELSE Suffer("fault")
    /\ Advance(r)
    /\ UNCHANGED <<server, cache, fetch, form, typed, dirty, savingAll, page, raced>>

\* invalidateQueries resolves when its request ended, failed or was cancelled.
Settled(r) ==
    /\ savers[r].pc = "refetch"
    /\ fetch.st = "idle" \/ fetch.for # r
    /\ Advance(r)
    /\ UNCHANGED <<server, cache, fetch, form, typed, dirty, savingAll, page, raced, seen, budget>>

\* Mutant: the flag is reset only when every section was saved.
FinishIfClean(r) ==
    /\ savers[r].pc = "next" /\ savers[r].todo = <<>>
    /\ savers' = [savers EXCEPT ![r] = IdleSaver]
    /\ savingAll' = (dirty # <<>>)
    /\ UNCHANGED <<server, cache, fetch, form, typed, dirty, page, raced, seen, budget>>

Finish(r) ==
    /\ savers[r].pc = "next" /\ savers[r].todo = <<>>
    /\ savers' = [savers EXCEPT ![r] = IdleSaver]
    /\ savingAll' = FALSE
    /\ UNCHANGED <<server, cache, fetch, form, typed, dirty, page, raced, seen, budget>>

-----------------------------------------------------------------------------
(* What the operator does about a save, and what a save sets off. *)

\* The page is loaded again at the address a save or a restart named.
Navigate ==
    /\ page.leaving # {}
    /\ \E a \in page.leaving : page' = FreshPage(a)
    /\ cache' = NoCopy /\ fetch' = Asked(ByPage)
    /\ form' = EmptyForm /\ typed' = NoKeys
    /\ dirty' = <<>> /\ savingAll' = FALSE
    /\ savers' = [r \in Runs |-> IdleSaver]
    /\ seen' = seen \cup {"reload"}
    /\ UNCHANGED <<server, raced, budget>>

\* A panel restart binds the listener again, and the page follows to the URL
\* built when the TLS save succeeded.
RestartPanel ==
    /\ page.restartTo # {} /\ Reachable
    /\ served' = [served EXCEPT !.https = row.vals.https]
    /\ page' = [page EXCEPT !.leaving = page.restartTo, !.restartTo = {}]
    /\ UNCHANGED <<row, loaded, cache, fetch, form, typed, dirty, savers, savingAll, raced, seen, budget>>

RestartXray ==
    /\ page.xrayPrompt = "open" /\ Reachable
    /\ loaded' = row.vals["strategy"]
    /\ page' = [page EXCEPT !.xrayPrompt = "none"]
    /\ UNCHANGED <<row, served, cache, fetch, form, typed, dirty, savers, savingAll, raced, seen, budget>>

RestartLater ==
    /\ \/ page.restartTo # {} /\ page' = [page EXCEPT !.restartTo = {}]
       \/ page.xrayPrompt = "open" /\ page' = [page EXCEPT !.xrayPrompt = "later"]
    /\ UNCHANGED <<server, cache, fetch, form, typed, dirty, savers, savingAll, raced, seen, budget>>

\* Another writer of the row: a second tab, or the reverse wizard, which reads
\* the row, adds a rule and puts it back. The wizard invalidates this tab's query.
ForeignWrite(v, here) ==
    /\ Suffer("foreign")
    /\ row.vals["rules"] # v
    /\ row' = [row EXCEPT !.vals["rules"] = v]
    /\ IF here /\ Reachable THEN fetch' = Asked(ByPage) ELSE here = FALSE /\ UNCHANGED fetch
    /\ UNCHANGED <<served, loaded, cache, form, typed, dirty, savers, savingAll, page, raced>>

-----------------------------------------------------------------------------
Network(r) == \/ \E report \in {"clean", "warned", "restarted"} : WriteRow(r, report)
              \/ PutAnswered(r) \/ PutFails(r)
Loop(r)    == Send(r) \/ SkipInvalid(r) \/ Settled(r) \/ Finish(r)
Query      == GetAnswered \/ GetDelivered \/ GetFails

Next ==
    \/ Refetch \/ Query
    \/ \E v \in Values : \/ EditAccess(v) \/ EditTls(v) \/ EditSubPort(v) \/ EditSubMode(v)
                         \/ EditStrategy(v) \/ EditRules(v)
    \/ \E s \in KeySections : PasteKey(s)
    \/ DiscardAll
    \/ \E r \in Runs : SaveAll(r) \/ Loop(r) \/ Network(r)
    \/ Navigate \/ RestartPanel \/ RestartXray \/ RestartLater
    \/ \E v \in Values, here \in BOOLEAN : ForeignWrite(v, here)

Spec == Init /\ [][Next]_vars

\* Axios ends every request within its timeout and the loop is plain code.
FairSpec ==
    Spec /\ WF_vars(Query) /\ WF_vars(\E r \in Runs : Loop(r)) /\ WF_vars(\E r \in Runs : Network(r))

-----------------------------------------------------------------------------
SaverType == [pc : {"idle", "next", "put", "applied", "refetch"},
              todo : Seq(Sections), vals : Row, keys : Keys,
              report : {"clean", "warned", "restarted"}]

\* The state of the page and of the panel stays well typed.
TypeOK ==
    /\ row \in [vals : Row, keys : Keys]
    /\ served \in Address /\ loaded \in Values
    /\ cache \in Copy
    /\ fetch \in [st : {"idle", "asked", "read"}, for : {ByPage} \cup Runs, copy : Copy]
    /\ form \in Row /\ typed \in Keys
    /\ dirty \in Seq(Sections)
    /\ savers \in [Runs -> SaverType]
    /\ savingAll \in BOOLEAN
    /\ page \in [at : Address, leaving : SUBSET Address, restartTo : SUBSET Address,
                 xrayPrompt : {"none", "open", "later"}]
    /\ raced \in SUBSET AllSections
    /\ seen \in SUBSET {"focus", "fault", "foreign", "reload"}
    /\ budget \in [{"edit", "save", "trouble"} -> Nat]

\* Nobody else wrote the row and every request of the page was answered.
Undisturbed == seen \cap {"foreign", "fault"} = {}

\* A PUT replaces the whole row, yet as long as the page is the only writer and
\* its refetches succeed, saving several sections in one pass never takes a
\* field of another section back to what it was before (Settings.tsx:263).
OnlyOwnFields ==
    [][\A r \in Runs :
         (Undisturbed /\ savers[r].pc = "put" /\ savers'[r].pc = "applied")
            => \A f \in Fields \ Owned(Section(r)) : row'.vals[f] = row.vals[f]]_vars

\* No save is refused for want of a private key, least of all for a switch in a
\* section it does not own: every PUT under way carries or finds the key of each
\* switch it has on, whatever the tab's copy of the row was worth. A refusal
\* would block all four sections until the one at fault is mended.
NeverWantsKey == \A r \in Runs : savers[r].pc = "put" => Acceptable(r)

\* What a section shows and does not offer to save is what is stored, unless the
\* operator edited it before the refetch of an earlier save arrived.
ShownIsSaved ==
    (Undisturbed /\ cache.have) =>
        \A s \in Sections \ (raced \cup ToSet(dirty)) :
            \A f \in Owned(s) : form[f] = row.vals[f]

\* A strategy stored by this page and not yet loaded by xray has been put to the
\* operator: the prompt is open or was put off, unless the page was left since or
\* the query was refreshed under the save.
RestartOffered ==
    (Undisturbed /\ "reload" \notin seen /\ "xray" \notin raced /\ loaded # row.vals["strategy"])
        => \/ page.xrayPrompt \in {"open", "later"}
           \/ \E r \in Runs : savers[r].pc = "applied"

\* The save button never stays busy: whatever fails, a pass of saveAll ends.
SaverEnds == savingAll ~> ~savingAll
=============================================================================
