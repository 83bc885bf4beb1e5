# Models and proofs of the rx-ui panel

rx-ui is a web panel that administers one xray process: a Rust backend
(`src/backend`), which owns a SQLite database and the xray child process, and a
React frontend (`src/frontend`), whose pages keep copies of the database's rows
and write them back. This directory holds TLA+ models of both halves' stateful
core, the TLC configurations that check them on small instances, and TLAPS
proofs of what holds for every instance.

| file | what it is |
|---|---|
| `XrayApply.tla` | applying configuration to xray and (re)starting it |
| `TrafficLedger.tla` | from xray's counters to the persisted traffic totals |
| `SettingsPage.tla` | four sections saving slices of one row |
| `ClientsPage.tla` | grouped lists, fan-outs, the attachment form, the share dialog |
| `FinalMaskForm.tla` | traffic masks in a form: fields, blob, matrix, guard (pure) |
| `InboundAdapters.tla` | inbound form to stored layers and back, guards, the backend's rules (pure) |
| `InboundEdit.tla` | editing sessions of the inbound form |
| `InboundPage.tla`, `WriteOnce.tla` | the inbounds page and its requests; the abstract promise it implements |
| `OutboundForm.tla` | outbound form, share link and import (pure) |
| `OutboundEdit.tla` | editing sessions of the outbound form |
| `OutboundsPage.tla` | the outbounds list, stored whole |
| `ReverseWizard.tla` | the reverse-pair wizard on top of it |
| `*Proofs.tla` | theorems about `XrayApply`, `TrafficLedger`, `SettingsPage`, `InboundEdit`, `InboundPage`, `ReverseWizard`, `ClientsPage`, `OutboundEdit` |
| `MC*.tla`, `*.cfg` | TLC instances, one `.cfg` per run |
| `PROJECT.json` | components, runs, mutants, source map, findings, hazards, theorems |

How they compose: `InboundEdit` EXTENDS `InboundAdapters` EXTENDS
`FinalMaskForm`; `OutboundEdit` EXTENDS `OutboundForm` EXTENDS `FinalMaskForm`,
so both forms run one mask guard; `ReverseWizard` EXTENDS `OutboundsPage`, whose
list it reads, appends to and invalidates; `InboundPage` INSTANCEs `WriteOnce`.
`OutboundForm` contains both ends of a share link: the backend's export of an
inbound and the frontend's import.

Check a module with `tlc -config XrayApply_core.cfg MCXrayApply.tla`, a proof
with `tlapm XrayApplyProofs.tla`.

## 1. Inventory

### Backend

Paths are below `src/backend/src`. The panel is one tokio process: HTTP
handlers, background tasks and detached tasks interleave at every `.await`, run
on several threads, and a handler's future is dropped when its connection
closes.

| component | state | operations | interacts with | what is hard | what makes it correct |
|---|---|---|---|---|---|
| XrayController (`xray/control.rs`) | tracked pid, owned child, start time | start, stop, restart, status, attach | the xray process; called under `xray_apply` | fields cleared before the kill; zombie children; spawn that dies at once | one xray at a time, and the one alive is the one tracked |
| hot routing apply (`xray/reload.rs`) | `routing_stale`, `routing_out_of_sync`, `live_ipv4_outbound`, config.json | apply, recovery restart, bootstrap | database, controller, gRPC, `resync_xray_state` | a refused push empties the router; regeneration, restart and re-push fail separately | the markers tell the truth about the live router; it keeps its API rule; it serves its inbounds |
| xray handlers (`api/xray.rs`) | `geo_apply_pending` | start, stop, restart, install, geofile refresh | controller, installer, geofiles | hang-ups between steps; who owes a restart | an unread geofile is owed a restart; every handler re-pushes |
| panel settings (`api/settings.rs`) | the settings row, listener ports, base path | save, listener swap | hot routing, listeners | two saves at once; a change gate on a stale row; rebinding the socket one answers on | saved rules are pushed or reported; the panel stays reachable |
| boot and tasks (`main.rs`) | `AppState` | boot, reconcile, resync, `uncancellable` | everything | adopting a live xray whose memory cannot be read | after boot the live process serves the stored rows |
| gRPC client (`xray/grpc.rs`) | one cached channel | every RPC, invalidate | xray | a dial in flight while invalidated; error classification | no call keeps using a dead process |
| config generator (`xray/config_gen.rs`, `xray/router_rules.rs`) | config.json | build, validate, publish | `xray run -test` | a crash while writing | the file on disk is always one that validated |
| traffic pollers (`traffic.rs`, `inbound_traffic.rs`, `outbound_traffic.rs`) | previous readings, the seed flag, totals in the database, the snapshot | seed, tick, flush | xray's counters, clients/inbounds/outbounds handlers | counters and totals restart independently; failures inside a tick; edits during a tick | nothing counted twice, nothing lost, rows of one email in step |
| enforcement (`traffic.rs`) | `clients.enabled` | quota, expiry, drift correction | clients API, xray's user lists | rows read once per tick | an active user over quota or expired is removed, and stays so until re-enabled |
| clients API (`api/clients.rs`) | `clients` rows, xray's users | create, bulk assign, update, reset, delete | pollers, reconcile | database and xray are changed one after the other | xray serves exactly the enabled rows |
| inbounds API (`api/inbounds.rs`) | `inbounds` rows, xray's handlers | create, update, toggle, rotate, delete | reconcile, pollers | the same, with compensation on failure | xray listens on exactly the enabled rows |
| outbounds API (`api/outbounds.rs`) | one JSON column, xray's outbounds | replace | reconcile, hot routing | whole-array PUT against concurrent PUTs | the live set equals the stored one |
| share links (`xray/share_link.rs`) | none | an inbound and a client to a link | `parseLink.ts` reads it | two languages have to agree on every knob | the outbound made from a link speaks what the inbound does |
| protocol, transport, security layers (`xray/*`, `models/*`) | none | validate a body against its other layers | inbounds and outbounds API | combinations of six layers | what is stored is what xray takes |
| authentication (`auth.rs`, `api/auth.rs`) | users, token versions | login, change password, logout | every handler | tokens outliving a password | a token of an older version is refused |
| log buffer (`logs.rs`) | ring of 500 lines | append, tail | every part | drops at capacity | the newest lines in order |
| subscription, orchestrator, key generators, WARP, Mojang, outbound test, installer archive handling, static assets, host monitor, migrations, generated protobuf | none of their own, or none another part depends on | rendering, encoding, probing | rows in, bytes out | wide input space, no interleaving | round trips and field rules |

### Frontend

Paths are below `src/frontend/src`. One browser tab is one thread, but every
request is answered at its own time or not at all, React Query keeps copies that
polls and invalidations replace, and a form's fields register one render after
it opens.

| component | state | operations | interacts with | what is hard | what makes it correct |
|---|---|---|---|---|---|
| settings page (`pages/Settings.tsx`) | four forms, dirty flags, `savingAllRef`, restart prompts | edit, discard, save all, follow a moved listener | the settings row; one query shared by all sections | every save PUTs the whole row from a cached copy; private keys never come back | no section reverts another; no save wants for a key; the bar never stays busy |
| clients page (`pages/Clients.tsx`) | filter, lists, snapshots, form targets, share group | toggle, reset, delete (fan-outs), assign, share, rotate | one request per attachment, bulk assign | optimistic changes under polls and other fan-outs; forms seeded from a filtered list | edits detach nobody; shown URLs resolve; the table converges |
| inbound form (`pages/Inbounds/form`, `tabs`) | one form store | hydrate, edit, guard, build | the row's layers, the mask matrix | selectors depend on each other and are switched in any order; late matrix, late registration | a settled form is accepted; what was not touched is not changed |
| inbounds page (`pages/Inbounds/index.tsx`, `InboundForm.tsx`, `tabs/VlessEncryption.tsx`, `tabs/RealityTab.tsx`) | list, modal, `editing`, pending keygens | switch, delete, save, generate and rotate keys | inbounds API | answers arriving in another form; effects that run on registration | each click writes at most once; keys change only for cause |
| outbound form and link import (`pages/Outbounds/OutboundForm.tsx`, `form.ts`, `parseLink.ts`) | one form store | hydrate, paste a link, edit, guard, build | outbounds API, `share_link.rs` | a link overlays a typed form; the guard runs before registration | the pasted outbound speaks what the server does |
| outbounds page (`pages/Outbounds/index.tsx`) | list, modal | switch, delete, save: each a PUT of the whole list | outbounds API | copies of the list overtake each other | shown is stored |
| reverse wizard (`pages/Outbounds/ReverseWizard.tsx`) | step, role, `createdIdRef`, `ruleDoneRef` | create client, add rule, fetch invite; append outbound | clients, settings and outbounds APIs, the outbounds page's list | a chain of three requests that fails midway and is retried, closed or reopened | one client and one rule per wizard; the invite is the right one |
| routing, DNS and geofile editors (`components/*Field.tsx`) | controlled inputs over one form value | edit | settings form | wide input space | the value edited is the value saved |
| dashboard, updates, logs (`pages/Dashboard*`, `components/*`) | polls and buttons | start, stop, install, refresh | xray handlers | - | shows what the backend answers |
| shell, login, stores (`App.tsx`, `stores`) | session token, theme | log in and out | authentication | - | - |
| subscription landing, translations, theme | none | rendering | - | - | - |

`PROJECT.json` lists the hazards line by line, with the properties that cover
each or the reason none does.

## 2. The modules

Two conventions hold throughout. A request of the frontend is three steps - sent,
applied by the panel, answered - so that anything may happen between them, and a
fourth, lost, that may come before or after the panel applied it. A variable
commented *history* records what happened; no action reads one except to record
more, and the properties use them to say which disturbance they exclude. Where a
definition's comment says *Mutant*, it is a wrong version of its neighbour and no
action of `Next` uses it.

### 2.1 XrayApply

A *task* stands for one handler future or background task; `pc[t]` names the
await point it is suspended at and `task[t]` what it carries along.

| module | code |
|---|---|
| `lock` | `AppState::xray_apply` |
| `db` | the routing part of the settings row |
| `disk` | `config.json`: its rules, and whether it declares RoutingService (`svc`) |
| `proc` | the xray process: alive, pid, rules in its router (`Wiped` after a refused AddRule), RoutingService, the direct-ipv4 outbound, whether the inbounds were pushed, whether it parsed the geofiles on disk, and whether it outlives SIGTERM and SIGKILL (`immune`: only a process the panel adopted can, say one of another user) |
| `ctl` | `XrayState`: the tracked pid, and whether the child is owned |
| `marks` | `routing_stale`, `routing_out_of_sync` (`retry`), `live_ipv4_outbound`, `geo_apply_pending` |
| `Request`, `WriteRow` | a call; `update_panel` up to the decision to push |
| `Acquire` | taking `xray_apply` |
| `ApplyRouting`, `Push`, `Answer`, `Rebuild`, `Recorded` | `apply_routing`, `replace_routing_rules`, the recovery, `hot_apply_routing` |
| `Regen`, `RegenFails` | `write_bootstrap_config` / `write_config_validated` |
| `StopTake`, `StopKill`, `StartBails`, `Spawn`, `Check` | `XrayController::stop`, `start` |
| `NoteStarted`, `NoteRebuilt`, `NoteGeo`, `Resync` | the markers each path sets, then `resync_xray_state` |
| `Unpack` | `install_release` |
| `Swap`, `SwapFails`, `Settle` | `run_geo_refresh` after its download |
| `DropCaller` | axum dropping a future; `uncancellable` work runs on without its caller |
| `XrayExits`, `PanelRestarts` | an exit of either process; `bootstrap` and the boot tasks |

A rule set is an element of `Rules`; three subsets name what the code tells
apart: rules that need the direct-ipv4 outbound, rules xray refuses, rules the
panel cannot encode. Failures are drawn from `Faults`. A push is applied, undelivered,
refused (and the router wiped), unimplemented, or ends in the catch-all of
`classify_push_code` (fault `reply`: an outcome nobody can name), which the code
treats as an emptied router although the old rules, or the new ones, may be live. A stop
can fail to end the process (fault `kill`); start and restart log it and go on, as
in `control.rs:204-211`. Constants switch on what
a question is about: overlapping saves, preemption between releasing the mutex
and storing an outcome (`RecordLate`), and whether `pid_alive` sees an exited but
unreaped child (`ZombieVisible`, a matter of platform and moment).

What holds:

* `ApplyExclusive`, `SpawnOntoFreePort`: without hang-ups never two tasks inside
  the section, and no spawn beside a live core, unless it is one that survived
  being killed, which the code starts beside on purpose (`Stoppable` names the
  rest). Both proved (section 5); the second is checked with exits of the panel.
* `MarkersHonest`: without overlapping saves, hang-ups and the geofile button, a
  quiet panel whose live router does not run the stored rules says so, panel exits
  and adoption included. With overlap or the button it fails (section 4).
* `InboundsServed`: whoever brings a core up has pushed the inbounds into it
  before the panel is quiet, across failures, panel exits, and hang-ups under
  saves, restarts and the geofile button.
* `RouterKeepsApiPin`: until somebody hangs up or the panel exits, a wiped router is
  restarted before the mutex is free.
* `SaveRestartsForCause`: until then a save stops the core only when no push could have made
  the rules live, or when nobody can say whether the push was handled.
* `NoDanglingRule`, `GeoOwed`: as long as nobody hung up and the panel did not
  exit, no live rule targets an outbound the process lacks, and an unread geofile
  is noted as owed. The first is checked without Start; with it, it fails
  (section 4).
* `HandlersEnd`: every handler ends, whatever fails and whoever hangs up.

### 2.2 TrafficLedger

One key (an email, or an inbound or outbound tag), because keys do not touch
each other. `n` are xray's two session counters; `total`/`stored` the rows in the
database; `attached` the rows whose client or inbound exists; `poll`, `prev`,
`seeded`, `cur`, `meta` the poller inside a tick; `shown` what the page shows.
History: `moved` (bytes really moved), `seen` (what was moved when the baseline
and the tick's counters were read), `exits` (whether xray exited before or after
the tick's reading), `brought` (totals a renamed row came with), `mishaps`. No
action reads one except to bound it or to carry it along.

| module | code |
|---|---|
| `Seed`, `SeedFails` | the baseline loop of the `spawn_*_poller` functions |
| `Query`, `ReadTotals`, `Abandon` | `poll_once` up to the database read |
| `Delta` | `compute_delta` (user), `tag_deltas` (tags) |
| `Show`, `Flush`, `FlushFails`, `EndTick` | `build_snapshot`, `flush_deltas` / `define_delta_flusher`, the end of `poll_once` |
| `Attach`, `Detach`, `ZeroRow` | `create`, `commit_bulk_assign_tx`; `delete` of a client or an inbound, `replace` of the outbounds; `reset_traffic` |
| `RenameEmail`, `RenameTag` | `PATCH` of a client's email (its row, totals included, comes to the key) and of an inbound's tag (the row under the new tag is deleted, the one under the old tag moved, if there is one); a rename away is a `Detach` |
| `Move`, `XrayRestarts`, `PanelRestarts` | traffic and exits |

The constant `Poller` chooses between the per-email poller (all attachments get
the delta; a drop in either direction restarts both; the largest row is shown)
and the tag pollers (one row, upserted; directions judged alone; adoption of the
first reading after a failed seed).

What holds:

* `NeverOverCredited` and its inductive strengthening `Covered`: nothing is ever
  counted twice, whatever restarts in whatever order: a total stays within what
  was moved and what its row, or one it inherited from, was renamed with.
* `CreditedExactly`: a tick that ends credits each attachment with exactly what
  moved between its reading and that of the last tick that ended, skipped ticks,
  resets, renames, failures and restarts before it notwithstanding, or credits
  nobody when its transaction fails; less only where xray exited in between.
* `RowsInStepUntilReset`: the attachments of an email agree until one is reset or
  comes from another email.
* `ShownMonotone`: the shown total never falls, except by a failed transaction, a
  reset, a row of another email, or the removal of the last attachment.

All four are proved.

### 2.3 SettingsPage

| module | code (`pages/Settings.tsx`, `api/settings.rs`) |
|---|---|
| `row`, `served`, `loaded` | the settings row and its two private keys; the address the listener answers on; the strategy the running xray was started with |
| `cache`, `fetch` | the `['panel-settings']` query and its request |
| `form`, `typed`, `dirty` | the inputs of the four sections, the key inputs, the sections on the save bar |
| `savers`, `savingAll` | the passes of `saveAll` (one per call) and `savingAllRef` |
| `page` | the tab's address, the navigation and the restart prompts pending |
| `Refetch`, `GetAnswered`, `GetDelivered`, `GetFails` | a focus or an invalidation refetching the query, and its answer |
| `EditAccess` ... `EditRules`, `PasteKey`, `DiscardAll` | `onValuesChange` of each section, with its own comparison against the saved copy |
| `SaveAll`, `Send`, `SkipInvalid` | the loop: validation, `mergePanelSettings` from the cache of that moment, the PUT |
| `WriteRow`, `PutAnswered`, `PutFails`, `Settled`, `Finish` | `update_panel` with its key rule and its report; `onSuccess` of each section; the awaited refetch; the end of the loop |
| `Navigate`, `RestartPanel`, `RestartXray`, `RestartLater` | following a moved listener, and the two prompts |
| `ForeignWrite` | another tab, or the wizard, writing the row |

Two fields per section stand for all: one whose change has a consequence of its
own (a moved port, a switch that needs a key, a strategy that needs a restart,
rules that are pushed) next to one that does not.

What holds: `OnlyOwnFields` (no field of another section is taken back while the
page is the only writer) and `NeverWantsKey` (no PUT lacks the key of a switch it
has on, whatever failed and whoever else wrote): both proved. `ShownIsSaved` (a
section off the bar, on a page at rest, shows what is stored),
`RestartOffered` (a strategy xray was not started with is offered a restart),
and, under fairness, `SaverEnds`.

### 2.4 ClientsPage

| module | code (`pages/Clients.tsx`, `api/clients.rs`) |
|---|---|
| `rows`, `lastId` | the `clients` table, one row per attachment |
| `filter`, `shown`, `cache`, `fetch` | the inbound filter, the key whose data `placeholderData` keeps on screen, the lists and their requests |
| `ops` | fan-outs of a toggle, a reset or a delete over a group, with their snapshots |
| `modal`, `save` | the create/edit form with its seed, and the bulk assign |
| `asks`, `share`, `rotate` | the share-link requests under way, each with the group its click captured; the dialog's copy of a group; the token rotation |
| `Poll`, `GetAnswered`, `GetDelivered`, `GetFails`, `PickFilter` | the polled queries |
| `Fan`, `ServeOne`, `Settled` | `onMutate`, one request per attachment, `onError`/`onSettled` |
| `OpenEdit`, `OpenCreate`, `Choose`, `Cancel`, `Submit`, `SaveServed`, `SaveAnswered`, `SaveFails` | the form; `BulkAssign` is `commit_bulk_assign_tx` |
| `OpenShare`, `SwitchInbound`, `LinkServed`, `LinkAnswered`, `LinkFails` | the click, the panel's side of the request, and the answer, which opens the dialog over whatever is open by then |
| `CloseShare`, `RotateSubToken`, `RotateServed`, `RotateAnswered`, `RotateFails` | the dialog |
| `QuotaTrips`, `ForeignAttach` | enforcement and other administrators |

What holds: `EditKeepsAttachments` (an edit detaches nobody who was not
deselected, under any filter), `ShownUrlResolves` (a share dialog that opened with
the stored tokens goes on showing the stored tokens, whatever is answered late,
rotated or read again; one that opens with a token revoked since its click is
section 4's), and, under fairness, `Converges` (the table ends up showing what is
stored).

### 2.5 FinalMaskForm, InboundAdapters, InboundEdit

Texts are classes (blank or a value); an optional part is a set of at most one.
A stored row also carries what the form has no input for: the response headers of
a string masquerade, `max_split` of a fragment, `reset` of a noise, a fingerprint
left out. `Shown` is a layer without the first three, which the builders drop.

| module | code |
|---|---|
| `FormValues`, `DEFAULTS` | `form/types.ts`, `form/defaults.ts` |
| `FormToUpdate`, `Build*` | `formToUpdate` and the builders of `form/adapters.ts`: what is trimmed, filtered, collapsed, left out |
| `InboundToForm`, `Hydrate*` | `inboundToForm` and the hydrators |
| `UseProtocolGuards`, `Guard*`, `Settle` | `useProtocolGuards` of `form/registry.ts`, run until nothing changes as React's effects are |
| `FinalMaskGuard`, `SupportedKinds`, `MaskTransport` | `api/finalmaskSupport.ts`, and the backend's matrix |
| `ValidateLayers`, `CompleteServerManagedFields`, `SettleUpdatedKeys`, `Builds` | the cross-layer rules and the keys of `api/inbounds.rs` |
| `OpenEdit`, `OpenCreate`, `Register`, `Cancel` | `InboundForm.tsx`: the store is reset, the fields register one render later |
| `MatrixAnswers`, `MatrixFails` | the query of supported masks |
| `EditGeneral`, `EditEncryption`, `EditMaskKind`, `EditProtocol`, `EditTransport`, `EditSecurity`, `EditMask`, `EditSockopt`, `EditSniffing` | the tabs, each followed by the guards |
| `SaveAccepted`, `SaveRefused` | the submit and the backend's verdict |

Stored rows are those the form can have written and those another client of the
API could have, spelled the ways such a client would.

What holds: `SettledFormAccepted` (whatever was switched in whatever order, a form
the guards have settled passes the backend's rules, but for the combinations
`Unguarded` names) and `MaskLeavesForCause` (a mask goes only by the operator's
choice or because the answered matrix rules it out): both proved.
`UntouchedSurvives`: of a layer that was not edited, what the form shows keeps its
meaning through opening and saving (`Effective(l, Shown(l, row[l]))`); the rest is
dropped, as section 4 says. Proved.

### 2.6 InboundPage and WriteOnce

A keypair is a number in the order the panel made them, so "a new pair" means
something.

| module | code |
|---|---|
| `rows`, `made` | the `inbounds` table (its Reality pair, the other fields of its security column `sec`, its encryption keys), the keypairs made so far |
| `cache`, `fetch` | the `['inbounds']` query |
| `modal`, `editing`, `form`, `mount` | `Inbounds/index.tsx` and `InboundForm.tsx`: `editing` is what the page believes the form is about, `mount` counts openings |
| `enc`, `keygens` | the effect of `VlessEncryption.tsx`, its `prevAuthRef`, its requests |
| `acts`, `rotate`, `save` | the requests of the switch and the delete, of the key rotation, of the form |
| `opened`, `causes` | history: the record the form was opened with, and what may make its save differ (an auth switch, the button, an answer that strayed in) |
| `Toggle`, `Delete`, `Act*` | the optimistic list |
| `Open*`, `Cancel`, `Watching`, `SwitchMode`, `SwitchAuth`, `RegenerateKeys`, `Keygen*` | the form and the encryption section |
| `EditSecurity` | another field of the security tab |
| `Rotate*`, `Save*` | the rotation (which reads the row, makes a pair, then writes the security column back: `RotateRead`, `RotateStored`) and the submit, with the backend's side of each |

What holds: `QuietListCurrent` (with nothing under way the list is the table,
unless an answer or a refetch was lost). `WritesOnce`: the page implements
`WriteOnce`, in which a click sends at most one request and a request changes
the table at most once, by the whole of what it asked (`Effect`). A request may
read before it writes (`Look`); the only one that does is a rotation, and `Effect`
lets it put back the security fields of its own row as it read them and nothing
else. A save in between is undone that far, which is what the code does. The mapping is
`table <- rows`, `pending <- Sent` (requests the panel has not seen),
`clicks <- MaxClicks - budget.click`. Proved.
`KeysRotateForCause`: a save without cause goes to the inbound its form was opened
with and keeps that inbound's keys. Proved.

### 2.7 OutboundForm and OutboundEdit

| module | code |
|---|---|
| `FormToOutbound`, `OutboundToForm` | `Outbounds/form.ts` |
| `BuildShareLink`, `BuildVlessShareLink`, `BuildHysteria2ShareLink` | `xray/share_link.rs`: which parameters a link carries |
| `ParseOutboundLink`, `ParseTransport`, `ParseSecurity`, `ApplyFinalMask`, `ParseHysteriaLink` | `parseLink.ts`: what the import makes of them |
| `ApplyLink` | `OutboundForm.tsx`: a link overlays the defaults, not the form |
| `ValidateOutbound`, `Builds` | `validate_outbounds` of `api/outbounds.rs`, with the matrix judged only for a mask that changed |
| `Open*`, `Register`, `MatrixAnswers`, `MatrixFails`, `Edit*`, `LeaveWireguard` | the form; its one guard also runs on the first render |
| `PasteLink`, `PasteForeignLink` | the link of every inbound the panel can serve (`Servers`), or another's |
| `Shown`, `ShownTransport` | a row without each layer's `rest`: what `form.ts` sends as null (XHTTP limits and multiplexing, a PROXY header of WebSocket's, TLS versions and ciphers, the windows and BBR profile of Hysteria), and with `force-brutal` spelled `brutal` |

What holds: `LinkSpeaksServer` (an outbound made from the link of one of the
panel's own inbounds, over whatever the form held, speaks what the inbound
speaks, but for `LinkGap`), `SettledFormAccepted`, and `UntouchedSurvives` (of a
layer that was not edited, what the form has fields for means the same after a
save). All proved.

### 2.8 OutboundsPage and ReverseWizard

| module | code |
|---|---|
| `rows` | `panel_settings.xray_custom_outbounds`, stored whole |
| `puts` | the lists being saved; put 0 is the form's |
| `Toggle`, `Delete`, `Save*`, `Put*`, `Settle` | the mutations of `Outbounds/index.tsx`; `Storable` is what `validate_outbounds` asks of the tags of a list |
| `wiz` | the open wizard: step, role, fields, `createdIdRef`, `ruleDoneRef`, the invite |
| `CreatePortal`, `TagChecked`, `Client*`, `Rules*`, `LinkAnswered`, `PortalLost` | the portal's chain: POST client (its reverse tag compared with the stored outbounds, `FreeTag`, some awaits before its row goes in), GET and PUT the rules, GET the link |
| `CreateBridge`, `Bridge*` | the bridge: GET the outbounds, append, PUT, invalidate |
| `Open`, `Close`, `NextStep`, `Back`, `Fill`, `Import`, `EditLink` | the dialog; what a closed wizard started goes on without it |

`shadowed` is history: the tags a list of outbounds brought after a client had been
found to be free to have them.

What holds: `QuietListCurrent`; `InviteMatches` (the invite is of a client with
the name and tag the wizard was given, the rule that was wanted is there, and no
stored outbound answers to its target, unless one was stored under the tag after
it had been found free); `OneClientOneRule` (however often it is retried, a wizard makes one of each,
unless an answer was lost).

## 3. Runs, bounds, fairness

| run | bounds | properties |
|---|---|---|
| `XrayApply_core` | 2 interchangeable tasks, 4 requests out of save/start/stop/restart/install/nightly geofiles, 4 rule sets (plain, needing ipv4, refused, unencodable), 2 failures of any kind, 1 exit of the panel | `TypeOK` `ApplyExclusive` `SpawnOntoFreePort` `MarkersHonest` `RouterKeepsApiPin` `SaveRestartsForCause` |
| `XrayApply_live` | 2 tasks, 2 requests out of save/restart/geofiles by button and timer, overlapping saves, outcomes stored late, 1 failure, 1 hang-up, 1 panel exit, fair | `InboundsServed` `GeoOwed` `NoDanglingRule` `HandlersEnd` |
| `TrafficLedger_user` | 2 attachments of one email, 2 bytes per direction, 1 brought, 2 edits, every mishap | `NeverOverCredited` `RowsInStepUntilReset` `CreditedExactly` `ShownMonotone` |
| `TrafficLedger_inbound` | 1 tag, 3 bytes per direction, 1 brought, 2 edits, every mishap | `CreditedExactly` |
| `SettingsPage_one_tab` | 4 sections, 2 values, 3 edits, 2 saves, up to 2 passes, 1 trouble, fair | `NeverWantsKey` `ShownIsSaved` `RestartOffered` `OnlyOwnFields` `SaverEnds` |
| `ClientsPage_lists` | 2 emails, 2 inbounds, 2 ids, 2 fan-outs, 2 things the operator does and 1 rotation, 1 trouble, fair | `TypeOK` `EditKeepsAttachments` `ShownUrlResolves` `Converges` |
| `InboundEdit_sessions` | every stored row, 2 selector switches, 1 other edit, 2 saves | `TypeOK` `SettledFormAccepted` `UntouchedSurvives` `MaskLeavesForCause` |
| `InboundPage_requests` | 2 interchangeable row actions, 5 clicks of which at most 2 on the rows, 1 trouble, 6 keypairs | `TypeOK` `QuietListCurrent` `KeysRotateForCause` `WritesOnce` |
| `OutboundEdit_sessions` | every stored row and link, 2 switches or pastes, 1 other edit, 1 save | `TypeOK` `SettledFormAccepted` `LinkSpeaksServer` `UntouchedSurvives` |
| `ReverseWizard_lists` | 2 wizards, 3 outbounds, 3 tags, 2 names, 3 clicks on the page, 2 lists under way, 1 trouble | `TypeOK` `QuietListCurrent` `InviteMatches` `OneClientOneRule` |
| `XrayApply_guard_dropped`, `OutboundEdit_mask_dropped` | as small as shows it | a statement of the repository the code does not keep (section 4) |

The type invariants of TrafficLedger and SettingsPage are in no cfg: they are proved
(`TypeCorrect`).

Why the bounds are enough. *XrayApply*: two tasks suffice for what the mutex
orders: it admits one, so a third could only queue. Two failures allow a failure
in the recovery from a failure; four requests allow two handlers to meet in a
state that two earlier ones and an adoption left behind. *TrafficLedger*: two bytes per
direction are the fewest that tell *reset* from *overtaken* (a counter can drop
below, reach and pass its previous reading); restarts and failures are unbounded.
*SettingsPage*: the loop saves the sections in the order they became dirty, so
two edited sections are the fewest in which one save could revert another; the
third edit comes between. *ClientsPage*: two fan-outs hold snapshots of each
other; two acts are a form over a pending change, or a dialog, a rotation in it, and the
click for the next dialog before the rotation is served. *InboundEdit*, *OutboundEdit*:
every guard looks at two selectors, and any stored row or link is a start, so the
two switches begin from any combination. *InboundPage*: five clicks are the
fewest for a rotation whose answer comes in another form that is then saved
(open, rotate, cancel, open, save), the longest way we know to a write in the
wrong place. *ReverseWizard*: two wizards and three clicks allow a chain to be
retried, abandoned and met by the next one while the page's own PUT is under way.

Deadlock checking is off in the XrayApply, SettingsPage and ClientsPage runs,
where a system whose budget of requests is spent has nothing left to do; in the
others a spent state stutters explicitly (`Finished`, a wizard closed for good), or
something can always move (the pollers), and no other state may be stuck.

Random behaviours of up to 80 steps under bounds two to four times these
(`tlc -simulate -depth 80` with the numbers of a cfg raised) gave no
counterexample to any of the safety properties either.

Fairness. `XrayApply!FairSpec`: weak fairness of a task's own steps (tokio polls
what is ready; the waits of kill, check, gRPC dial and subprocess are bounded by
timeouts) and strong fairness of `Acquire` (tokio's mutex is FIFO, so a queued
task is not overtaken for ever). `HandlersEnd` holds with hang-ups because a
dropped future releases its guard. `SettingsPage!FairSpec`: weak fairness of the
query, of the loop's own steps and of the network: axios ends every request
within its timeout, by an answer or by an error. `ClientsPage!FairSpec`: weak
fairness of the polls (an interval while the page is on screen) and of the
requests already sent. No fairness is assumed of the operator anywhere.

## 4. Where the code and its comments differ

Two of these are runs that TLC ends with a counterexample; `PROJECT.json` quotes
the line.

* `XrayApply_guard_dropped` - a hang-up during the recovery restart frees the mutex
  while the detached restart is still running.
* `OutboundEdit_mask_dropped` - the first render of an opened outbound is judged as
  TCP without security, so a mask only another transport can run is reset before
  the fields registered (`OutboundForm.tsx:114` against `finalmaskSupport.ts:116-121`).
Found while modelling, without a run of their own. Backend, the first three with
the numbers under which TLC ends a run of the model with a counterexample (two or
three requests each):

* The geofile button restarts xray on the config.json of the last regeneration and
  then marks the router as in step: rules applied hot since are gone, unmarked
  (`api/xray.rs:572` against `xray/reload.rs:395-397`; `MarkersHonest` with
  `Kinds = {"Save", "Geo"}`).
* Two saves overlap and the later one, putting the old rules back, compares with the
  row before the first: it pushes nothing and reads as clean (`api/settings.rs:276`
  against `:319-321`; `MarkersHonest` with `ConcurrentSaves`).
* A start that finds xray running rewrites config.json, the geofile button restarts
  on that file without `note_live_ipv4`, and the next save pushes a rule to an
  outbound the process does not have (`api/xray.rs:564` against `main.rs:89-93`;
  `NoDanglingRule` with `Kinds = {"Save", "Start", "Geo"}`).
* The outbounds' side of the tag namespace does not look at the clients: an outbound
  may be stored under the reverse tag of a client, before or after the client is
  stored (`api/outbounds.rs:395` against `config_gen.rs:237-241`). The clients' side
  does look, some awaits before the row goes in.
* A restart or start whose stop could not end the old process goes on beside it
  (`control.rs:204-211`, `api/xray.rs:101-103`): the new core meets a held api port.
* A push whose answer is lost after delivery restarts a core that may be running
  the new rules already (`grpc.rs:121-124` says ambiguous, and that it assumes).
* A key rotation reads the row, makes a pair and writes the whole security column
  back (`api/inbounds.rs:1459-1477`): a save of the same inbound in between keeps
  its other fields and loses its security ones.
* A hang-up during `/xray/start` after the spawn leaves a core without inbounds
  (`api/xray.rs:151` against `main.rs:656-666`).
* The deltas of a failed transaction are not retried: the baseline moves on
  (`traffic.rs:303` against `traffic.rs:639-640`).
* A tick in flight while its inbound is deleted inserts the traffic row again
  (`api/inbounds.rs:1441` says no orphan is left).
* `live_ipv4_outbound` is not updated by a restart on the last-good file
  (`reload.rs:446` against `main.rs:89-94`), nor correctly by adopting a process
  that is older than the file.
* The recovery restart does not clear `geo_apply_pending`; a hang-up during the
  push leaves a wiped router unrepaired; so does an exit of the panel between the
  wipe and the restart, because the boot push cannot get through and an
  undelivered push restarts nothing.
* Bytes moved while no panel polls become the baseline uncounted; resetting one
  attachment of several leaves rows apart when a tick comes between.

Settings and clients pages:

* The refetch a section awaits may fail, and the next section then merges the copy
  before (`Settings.tsx:128-130` says post-save data).
* A create over an email that exists replaces its attachments
  (`Clients.tsx:813-814` calls it the case without rows).
* The note shown is the first of the group's rows, said to be kept in step by bulk
  assign; rows written one at a time through the API differ (`Clients.tsx:1158-1160`).
* A share dialog opens with the group its click captured (`Clients.tsx:879-887`): a
  rotation served between the click and the answer leaves it showing a token that
  was just revoked. `ShownUrlResolves` leaves such a dialog out.
* The answer to a share of one inbound that comes after another was picked shows
  the earlier one; the answer to a save closes whatever form is open by then; the
  spinner follows the last toggle only; a group action under a filter reaches the
  filtered rows only; a form reopened before the refetch seeds stale attachments.

Inbounds:

* The rotation's public key is re-seeded through `editing`
  (`InboundForm.tsx:40-43`), but the store that the tab reads is reset only when
  the form is opened anew: the tab keeps the key before.
* The answer to a rotation sets `editing` whatever form is open by then
  (`InboundForm.tsx:84-90`): the next save goes to the rotated inbound, and a
  create becomes a PATCH of it. `KeysRotateForCause` counts it as a cause.
* With the keypair request failed the form can be saved with encryption on and no
  keys; the server then makes a pair for the default auth
  (`form/adapters.ts:334-338` calls that an older client's case).
* The requirement that a TLS form has a certificate is stated in
  `form/defaults.ts:93-95`; a half-filled one passes the form.
* Enabling Reality on an existing inbound generates no key in the form; fallbacks
  left on when the transport is no longer TCP, and fragment or XMC over HTTP/3
  only, are refused with a 400 no guard prevents (`Unguarded`); a keypair that
  failed is never retried; a profile's name can be edited after it was resolved;
  WireGuard's MTU 0 becomes 1420; a stale row is PATCHed with all its layers.
* The response headers of a string masquerade, `max_split` and `reset` are dropped by
  every save (`adapters.ts:449-453`, `:676-677`, `:699-700`); a fingerprint left out
  is stored as `chrome`, which is what the backend takes it for. `Shown` leaves the
  first three out of `UntouchedSurvives`.
* A 500 answered after the commit (`inbounds.rs:955-963`, and the same for the
  outbounds list) leaves the page on the list before: `QuietListCurrent` leaves it
  out, like a lost answer.

Outbounds and wizard:

* The import reads neither sudoku's tables nor the `fm=` of a Hysteria link, and
  the link carries neither the packet-up verb, `xPaddingBytes` nor a self-signed
  VLESS pin; `mport` is ignored (`LinkGap`). `uplinkHTTPMethod`, `noGRPC` and
  `noSSE` have no field in the form. The guard is keyed on transport and security,
  so the mask of another panel's link stays. Rows another client made lose
  on every save what the form has no field for: `xmux`, the `sc_*` limits,
  `no_grpc`/`no_sse`, the upload verb, the windows and `bbr_profile` of QUIC, TLS
  versions and ciphers (`form.ts:237-254`, `:303-312`); `force-brutal` becomes
  `brutal` (`:533`). `Shown` leaves them out of `UntouchedSurvives`.
* The invite is not shown again once the dialog is dismissed
  (`ReverseWizard.tsx:461-467`), and an answer that arrives after that is lost.
* A lost POST is retried into a 409 and a lost PUT into a second rule; a rename
  after a partial failure keeps the first client; a settings save that overlaps the
  chain is overwritten; overlapping PUTs of the whole outbounds list revert each
  other, the WARP button of the routing editor included.

Beyond the hazards in `PROJECT.json`, these have no property because the code
around them is not modelled: the two geofiles are replaced one after the other
(`xray/geofiles.rs:229`); listeners are rebound after their new base path, port or
certificate is already in force (`settings.rs:513`, `:1791`, `:1909`); a
connection closed between the row and the push (`settings.rs:294`); an exited,
unreaped child answers as running (`control.rs:98`); enforcement decides on a row
read earlier in the tick (`traffic.rs:513`, `:290`); a client is removed from xray
before its row (`clients.rs:1561`); a dial in flight while the channel is
invalidated (`grpc.rs:169`).

## 5. Proofs

Everything below is for every value of the constants the ASSUMEs allow, unless a
hypothesis is named: any number of tasks, rows, sections, values, slots, wizards,
and any bounds. Each invariant was first checked by TLC on the module's run, then
proved: it holds at first, every step keeps it, it implies the property.

### XrayApplyProofs

`TypeCorrect`, `ApplyIsExclusive`, `NoSecondCore`. The invariant `IInv` is
`TypeOK`, the budgets, `Routes` (each kind of handler is at one of its own steps)
and `Unhung => HoldsMutex /\ Tracked`. `HoldsMutex` (whoever is in the section
holds the lock) gives exclusion; `Tracked` (a live process the controller does not
track is about to be killed by a task in `kill`) is needed because `stop` clears
the pid long before the process is gone; together with exclusion it says that at
`spawn` with no tracked pid nothing is alive that a stop could have ended. What
survives SIGTERM and SIGKILL is in the model, and `Stoppable` leaves it out of the
claim: the code starts beside it. Both are stated *until somebody hangs
up* (`Unhung`); after that both are false (`guard_dropped`).

The second half of the module is what the handlers leave behind, on top of `IInv`. Each property needs to know who
is responsible for the debt in a state that looks wrong:

| theorem | property | hypotheses | who owes it |
|---|---|---|---|
| `PinKept` | `RouterKeepsApiPin` | until a hang-up or panel exit | `Rescued`: a live core with a wiped router, if stop() can end it, has a task with the refusal in hand, rebuilding, or about to kill that very pid |
| `ServedUndisturbed` | `InboundsServed` | until a hang-up or panel exit | `Served`: a live core without inbounds has a task between its spawn and its push, or about to kill it; the push gets through because the router it finds has its pin (`Rescued`) |
| `ServedWhoeverHangsUp` | `InboundsServed` | no rule set refused; no Start, Stop or Install | the same across hang-ups and exits, because a save, a restart and the button are shielded before they touch the core (`Shielding`); Start, Stop and Install are not |
| `RestartsForCause` | `SaveRestartsForCause` | saves do not overlap; until a hang-up or panel exit | `Caused`: the cause a rebuild starts from, an ambiguous reply among them, stays until the kill; an exit of the panel would add `BootApply`, an apply next to a save |
| `GeofilesOwed` | `GeoOwed` | until a hang-up or panel exit; no fault in the swap | `Owed`: a stale geofile is in the note or in the hands of the refresh that is restarting the core or about to leave the note; a swap that fails half-way stores a file and leaves no note |

The hypotheses are not for the prover. With any one of them left out TLC finds a
sequence (of up to five requests and three failures) in which the property fails;
section 4 says what the code does there. Nothing else is bounded or excluded: not
the number of requests and failures, nor exits of xray.

### TrafficLedgerProofs

`TypeCorrect`, `AlwaysCovered`, `NothingCountedTwice`, `InStepUntilReset`,
`EveryTickCredits`, `ShownOnlyGrows`. `NeverOverCredited` is not inductive: a
state in which the totals already hold all that was moved and the baseline is
behind the counters would over-credit in the next flush. `Covered` adds that, for
the baseline in use (and, inside a tick, for the reading about to become it
together with the delta about to be credited), either xray is still in the session
the baseline was read in and total + counter - baseline stays within what was
moved and brought, or it has restarted since and even total + counter does. Crediting after a
drop and crediting the difference both preserve it, which is where `compute_delta`
and `tag_deltas` enter.

`RowsInStepUntilReset` needs `Attachments`: in the per-email ledger the rows stored
are the attachments, so a flush reaches all of them and a new attachment that
copies one copies all. `CreditedExactly` needs `Readings`: baseline and counters
differ by what was moved between the two readings, as long as xray lived through
both, and by no more if it did not; it relates the delta, which the poller computes
from counters alone, to history the poller never sees. `ShownMonotone` needs `ShownBehindRows`: what
was shown is at most every row's total, also between the read of the totals and
the flush. `OneRowPerTag` (a tag poller has one row) is assumed in the module: the
tag tables have the tag as their key.

### SettingsPageProofs

`KeyNeverWanting`, `SavesOwnFieldsOnly`, on the invariant
`Shape /\ KeysKept /\ OnePass /\ Fresh`. `KeysKept` holds whatever happens: a
stored switch that is on has its key, and so does every copy of the row, so a PUT
built from any copy finds the key stored. `OnePass` is what `savingAllRef` gives:
one pass at a time, started from a copy. `Fresh` is the reason for awaiting the
refetch: undisturbed, the cache is the row except between a write and the
refetch after it, and no PUT is built there.

`TypeCorrect` adds `Placed`: a section stands on the bar once, and a pass that has
sent something knows which section. `ShownAsSaved` rests on `Carried`: undisturbed,
the inputs of the section being saved are those of its PUT, and then those stored.
`RestartIsOffered` rests on `Prompted`: a strategy not in force has been put to the
operator, or a save waits for its answer with the page's copy still holding the
strategy xray runs (`OwedByCopy`), so that comparing the two tells that a restart
is owed.

### InboundEditProofs

`SettledFormIsAccepted`, `MaskGoesOnlyForCause`. The
invariant says that a stored row has legal layers, the form's selectors hold what
they can, and that in a settled form network, security and flow fit the protocol
(`LegalLayers`) and, once the matrix has answered, so does the mask
(`LegalMask`). Its heart is about one operator: two passes of the guards leave
legal layers from any combination (`Settle`), which is why no sequence of edits
need be looked at.

`TypeCorrect`, `UntouchedLayersSurvive`. The form is one flat record
that every tab may write, so the proof goes field by field. `Typed`: a row has the
layers a request can build, and every operator between form and row (hydrate,
build, complete, update) keeps types. `Kept`: the fields of a layer no tab has
touched are what hydration put there, and so are the selectors the layers share
until the general tab moves the stack; it needs that each tab and each guard
writes its own fields only (`EditIsOwn`, `SettleMoves`). What is left is about the
adapters: building from a hydrated row gives, layer by layer, what the form shows
of it with the same meaning (`RowSurvives`, from one lemma per layer), for rows of
this panel and of other clients alike.

### InboundPageProofs

`QuietIsCurrent` rests on `Followed`: until an answer or a refetch is lost, the
list shown is the list stored, or a read or an answer under way will replace it,
or an optimistic change waits for its `onSettled`. `TypeCorrect` rests on
`Purposes` (every row, cached list, fetch, snapshot, form and save body holds only
pairs that were made, each for the use it is put to: no ML-KEM pair where an
X25519 pair belongs) and `Lones` (at most one list is cached, one read under way,
one snapshot held by an action).

`PageWritesOnce`, the refinement of `WriteOnce`. The
invariant is `Made /\ Copies(Len(made)) /\ Requests /\ Session /\ Left`; `Copies`
is needed because the pair a rotation stores is new only if no row, no cached
copy, no snapshot, no form and no request holds a pair that was not made yet. The
step from a request to `Apply`, `Read` or `GiveUp` rests on `Sent` being three
disjoint sets told apart by who asked; that a rotation which has read is the same
request with what it read in hand is `Look`.

`KeysKeptWithoutCause`, on top of that invariant, adds
`Faithful` (until something gives cause, the open form is about the record it was
opened with, holds that record's keys and has no keypair on its way), `Turning`
(a rotation of this opening is of this record, so its answer changes nothing
`Faithful` says) and `Openings` (requests belong to openings there have been,
which tells a late answer from a current one).

### OutboundEditProofs

`TypeCorrect`, `SettledFormIsAccepted`, `UntouchedLayersSurvive`, `PastedLinkSpeaks`,
all read off one invariant (`Invariance`). None of the three safety properties is
inductive: each only says something of an open form, and of some open forms.

* `StoredInv`: a row in the list is `Kept` (typed, past `validate_outbounds`,
  buildable). It holds of every row the list can start with, other clients' rows
  included, so opening starts from a legal row.
* `OpeningInv`: before its fields register, the form is exactly what was opened.
* `SelectorsAgree` and `MaskFits`, in `OpenInv`: unless `unguarded` names the step
  that broke it, hysteria has TLS, a tunnel's peer and reserved bytes pass, and a
  mask the known matrix has judged is one the keys can run. The first two are kept by
  the steps themselves; the mask by the guard, which is keyed on transport and
  security only and therefore says nothing after a foreign link that moves neither.
  This is what `SettledFormAccepted` needs.
* `AsHydrated`: the fields of an untouched layer are those hydration put there, a
  mask possibly taken by the matrix excepted. It needs that every edit reports the
  layers its fields belong to (`Reports`, `EditKeepsHydrated`).
* `LinkInv`: while nothing followed a paste, the form is the import of that link.
  The import ignores the form it lands on, so the guard is all that could move it;
  `ServerLink` shows the imported mask is one the imported keys can run, so the guard
  takes nothing, at the paste or when the matrix answers later.

The rest is about the adapters, for all values of the types: a row built back from
its own hydration means, layer by layer, what the form shows of it (`RowSurvives`,
`ShownHas`), and the import of
`build_share_link` speaks what the inbound speaks, parameter by parameter
(`VlessLink`, `HysteriaLink`), but for the gaps `LinkGap` lists. `ServerLink` is
stated for the inbounds of `Servers` and proved through a type that contains them.

### ReverseWizardProofs

The wizard together with the page it works on, four properties:

* `TypeCorrect` (`Typed`): every copy of the list - shown, fetched, in a request,
  in a snapshot, in the bridge's hands - is of outbounds that were made, and the
  stored one has no tag twice.
* `QuietIsCurrent` (`Followed`): until an answer or refetch is lost, the list shown
  is the list stored, or something under way will replace it: a read, an
  answer whose arrival invalidates the query, an optimistic change not yet settled,
  the bridge's write.
* `InviteIsOurs` (`Marked`, `Together`). `Marked` ties `createdIdRef` and
  `ruleDoneRef` to where the attempt of the wizard on screen stands. `Together` is
  about a wizard whose fields and client have not gone different ways: once
  it has begun, no other wizard's attempt is left; its own attempt carries its fields,
  the client it made has the name and the tag, the rules in its hands contain its
  rule, and from the PUT on the stored ones do. `Clear` is about the tag: from the
  moment a client's tag has been compared with the outbounds, no stored outbound has
  it unless a list brought it since (`shadowed`); the comparison and the row are two
  steps, so the tag under way counts as held.
* `RetryRepeatsNothing` (`Counted`). "At most one" is not inductive; `Counted` adds
  that what the wizard may still do has not happened: while a client (a rule) is
  still to come by the state of the attempt and its marker, none of this wizard is
  stored, and none is in the copy of the rules another attempt is about to send
  back. That copy is why the invariant ranges over all attempts.

### ClientsPageProofs

`TypeCorrect`, `UrlResolves`, `AttachmentsKept`. `TInv` types every row and every
copy of a row by the ids handed out so far: a copy never has an id that a later row
could get, the groups captured by share-link requests included. Hence a token read
once stays that id's token until it is rotated (`TokensStay`), and `Resolves` says
that a dialog which opened with the stored tokens (`fresh`, judged when the answer
arrives, not at the click) is left behind only by a rotation served but not
answered, in one row, with the new token in the answer. `Accounts`
is what keeps the attachments: from the moment an edit form is opened over a
current list until its save is served, every attachment of the email is selected
in the form or was deselected. No step but a save or another session adds an
attachment (`Stays`), and while a save is pending no other can be sent.

### What is assumed, what is left to TLC

The assumptions are the ASSUMEs of the modules: well-formed constants (finitely many
emails and inbounds in ClientsPage, and at least one email), a task set
without the marker for a free lock and a rule set without that for a wiped router,
one row per tag, and the section and slot names the code has.

Only model-checked: all liveness (`HandlersEnd`, `SaverEnds`, `Converges`) and the
fairness conditions themselves, which are out of the prover's reach; and, of the
safety properties, `MarkersHonest` and `NoDanglingRule`: the code keeps them only
under conditions that leave out what it does elsewhere (section 4), so that a theorem
would say less than its name. Every other invariant and
safety property of the passing runs is proved, the outcomes of XrayApply under the
hypotheses of its table.

## 6. Not modelled

* The rendering of rules, handlers and subscriptions (pure encodings of many
  independent fields), the text of links, single-field validation: wide input
  spaces without interleaving, which tests reach.
* Cryptography and external services (key generation, XMC, WARP, Mojang), archive
  handling, the outbound test, static assets, the host monitor, migrations,
  generated code.
* Authentication (one check against one counter per request) and the log buffer.
* The user and inbound lifecycle inside xray (clients and inbounds handlers
  against reconcile and enforcement), the rebinding of listeners, and the cached
  gRPC channel.
* In the frontend: the routing, DNS and geofile editors, which are controlled
  inputs over one value of the settings form; the dashboard and its dialogs, whose
  buttons set off what XrayApply models; login, navigation and stores; the
  subscription landing page, translations and theme.

Simplifications inside the models. A failed re-push of a single inbound is logged
and skipped in the code: XrayApply treats the push as one step that succeeds. A
process that survives a kill is one the panel adopted, never its own child. The download of
geofiles and releases happens before the lock is taken and is left out. `spawn`
is taken to fail only by exiting before the 800 ms check. InboundPage's rows are
all VLESS over TCP with Reality, the one kind both key requests are about.
OutboundsPage leaves out the order of the rows. The wizard's "by domain" rule is
the "all traffic" rule with a matcher.

## 7. What could come next

1. **ClientSync** - the clients and inbounds handlers, enforcement and reconcile
   over xray's user lists, each handler split at its awaits: xray serves exactly
   the enabled rows of enabled inbounds once quiet; a quota cut is not undone, and
   a reset not re-cut, by a tick in flight.
2. **ListenerSwap** - `apply_listener_changes` and the two swaps: a bound listener
   after every save, a retry after a failure that is effective.
3. **GrpcChannel** - the cached channel, dials in flight and `invalidate`, as a
   refinement of XrayApply's `Resync`.
4. Refinements: an abstract `OneCore` implemented by XrayApply without hang-ups; an
   abstract `Ledger` (a tick credits what moved) implemented by TrafficLedger;
   `WriteOnce` implemented by the wizard's requests.
