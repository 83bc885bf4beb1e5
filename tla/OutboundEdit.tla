------------------------------ MODULE OutboundEdit ------------------------------
(***************************************************************************)
(* One outbound edited through the panel's form, session after session:    *)
(* open, fields that register, the mask matrix that answers or does not,    *)
(* a pasted share link of this panel's own inbounds or of another's, edits *)
(* with the one guard that follows them, and a save the backend accepts or *)
(* refuses. The list around the row is in OutboundsPage.                   *)
(***************************************************************************)
EXTENDS OutboundForm

CONSTANTS
    MaxSwitches,  \* bound: edits of a selector, and pasted links, per behaviour
    MaxFills,     \* bound: edits of any other field
    MaxSaves      \* bound: submits and dismissals

ASSUME EditAssumption == {MaxSwitches, MaxFills, MaxSaves} \subseteq Nat

VARIABLES
    stored,   \* the row, as a set of at most one outbound
    form,     \* the form's store
    stage,    \* closed | opening (fields not registered yet) | open
    editing,  \* is the form open on the stored row?
    matrix,   \* the mask matrix: pending | known | failed
    link,     \* history: the inbound whose link was pasted, while nothing followed it
    touched,  \* history: the layers the operator edited in this session
    unguarded, \* history: what happened in this session that nothing in the form looks at
    budget

vars == <<stored, form, stage, editing, matrix, link, touched, unguarded, budget>>

Spend(k) == budget[k] > 0 /\ budget' = [budget EXCEPT ![k] = @ - 1]

-----------------------------------------------------------------------------
(* What can be in the list and behind a link.                              *)

Filled(p, n, s, m) ==
    [OUTBOUND_DEFAULTS EXCEPT
        !.protocol_kind = p, !.network = n, !.security = s, !.finalmask_kind = m,
        !.address = "host", !.uuid = "id", !.hysteria_auth = "password",
        !.server_name = "sni", !.reality_public_key = "key", !.wg_peer = "good",
        !.xmc_profiles = {"resolved"}]

\* A row written the ways another client of the API would write it.
OddlyWritten(b) ==
    [b EXCEPT
        !.protocol = CASE @.kind = "wireguard" -> [@ EXCEPT !.warp = TRUE, !.reserved = <<1, 2, 3>>]
                       [] @.kind = "vless" ->
                            [@ EXCEPT !.enc = {[key |-> "key", padding |-> <<"p", "q">>]},
                                      !.reverse_tag = "tag"]
                       [] OTHER -> @,
        !.transport = CASE @.kind = "hysteria" ->
                              [@ EXCEPT !.rest = "set",
                                        !.quic = {[congestion |-> "force-brutal", udp_hop |-> {[interval |-> TRUE]}]}]
                        [] @.kind \in {"ws", "xhttp"} -> [@ EXCEPT !.rest = "set"]
                        [] OTHER -> @,
        !.security = CASE @.kind = "reality" ->
                             [@ EXCEPT !.server_names = <<"sni", "cdn">>, !.short_ids = <<>>]
                       [] @.kind = "tls" -> [@ EXCEPT !.rest = "set"]
                       [] OTHER -> @,
        !.finalmask = CASE @.kind = "sudoku"   -> [@ EXCEPT !.custom_table = {"table"}]
                        [] @.kind = "fragment" -> [@ EXCEPT !.packets = <<Null, Null>>, !.max_split = 1]
                        [] @.kind = "noise"    -> [@ EXCEPT !.reset = 1]
                        [] OTHER -> @,
        !.mux = TRUE]

\* Rows the form wrote, rows whose mask the matrix has ruled out since, and
\* rows of other clients of the API.
StoredRows ==
    LET Rows == {FormToOutbound(Filled("vless", n, s, "none")) : n \in Networks, s \in {"tls", "reality"}}
                \cup {FormToOutbound(Filled(p, "tcp", "tls", m)) : p \in Protocols, m \in MaskKinds}
        \* validated when it was new, or with a mask that was stored already
        Possible(b) == ValidateOutbound(b, {b}) /\ Builds(b)
        Settled(b)  == ValidateOutbound(b, {}) /\ Builds(b)
    IN {b \in Rows : Possible(b)} \cup {OddlyWritten(b) : b \in {x \in Rows : Settled(x)}}

\* The panel's inbounds, as far as a client has to agree with them.
Tls(sni, alpn, selfSigned) == [kind |-> "tls", sni |-> sni, alpn |-> alpn, self_signed |-> selfSigned]

Xhttp(mode, obfs, session, uplink, method) ==
    [kind |-> "xhttp", host |-> "cdn", mode |-> mode, obfs |-> obfs, obfs_keys |-> "key",
     session |-> session, uplink |-> uplink, method |-> method]

ServerTransports ==
    {[kind |-> "tcp"], [kind |-> "ws", host |-> "blank"], [kind |-> "ws", host |-> "cdn"]}
    \cup {Xhttp(m, o, k, k, "blank") : m \in {"auto", "packet-up"}, o \in BOOLEAN, k \in {"blank", "key"}}
    \cup {Xhttp("packet-up", o, "blank", "blank", "GET") : o \in BOOLEAN}

ServerSecurities ==
    {[kind |-> "none"], [kind |-> "reality", sni |-> "sni", short_ids |-> <<"sid">>],
     [kind |-> "reality", sni |-> "sni", short_ids |-> <<>>]}
    \cup {Tls(n, a, x) : n \in {"blank", "sni"}, a \in {{}, {"h1", "h2"}}, x \in BOOLEAN}

ServerMasks ==
    {[kind |-> "none"], [kind |-> "salamander"]}
    \cup {[kind |-> "sudoku", custom_table |-> {}, custom_tables |-> t] : t \in {{}, {"table"}}}
    \cup {[kind |-> "fragment", packets |-> p, max_split |-> n] :
             p \in {<<0, 1>>, <<0, 0>>, <<1, 2>>, <<Null, 2>>}, n \in {Null, 1}}
    \cup {[kind |-> "noise", items |-> i, reset |-> n] :
             i \in {{"blank"}, {"literal"}, {"blank", "random"}}, n \in {Null, 1}}
    \cup {[kind |-> "xmc", profiles |-> p] : p \in {{}, {"resolved"}}}

VlessServer(t, s, m, flow, enc, tag) ==
    [protocol |-> "vless", transport |-> t, security |-> s, finalmask |-> m,
     flow |-> flow, enc |-> enc, reverse_tag |-> tag]

\* The inbound form's rules keep an unsupported mask out of an inbound.
MaskAgrees(srv) ==
    RunningMask(srv.finalmask).kind \in {"none"} \cup SupportedKinds(srv.transport.kind, srv.security.kind)

Servers ==
    LET Tcp == [kind |-> "tcp"]  NoMask == [kind |-> "none"]
        Real == [kind |-> "reality", sni |-> "sni", short_ids |-> <<"sid">>]
        Pick(S, k) == CHOOSE x \in S : x.kind = k
        Layered == {VlessServer(t, Pick(ServerSecurities, "none"), NoMask, "blank", {}, "blank") :
                           t \in ServerTransports}
                   \cup {VlessServer(t, s, NoMask, "blank", {}, "blank") :
                           t \in {[kind |-> "ws", host |-> "cdn"]}, s \in ServerSecurities}
        Masked  == {VlessServer(Tcp, [kind |-> "none"], m, "blank", {}, "blank") : m \in ServerMasks}
        Users   == {VlessServer(Tcp, Real, NoMask, f, e, r) : f \in {"blank", "vision"}, r \in {"blank", "tag"},
                       e \in {{}} \cup {{[key |-> "key", padding |-> p]} : p \in Paddings}}
        Quic    == {[protocol |-> "hysteria2", transport |-> [kind |-> "hysteria"],
                     security |-> Tls("sni", {}, m.kind = "none"), finalmask |-> m] : m \in ServerMasks}
    IN {srv \in Layered \cup Masked \cup Users \cup Quic : MaskAgrees(srv)}

\* A link some other panel made may carry a mask no transport of its own runs.
ForeignLinks ==
    {BuildShareLink(VlessServer([kind |-> "tcp"], s, [kind |-> "noise", items |-> {"random"}, reset |-> Null],
                                "blank", {}, "blank")) :
        s \in {[kind |-> "none"], [kind |-> "reality", sni |-> "sni", short_ids |-> <<"sid">>]}}

Init ==
    /\ stored \in {{}} \cup {{b} : b \in StoredRows}
    /\ form = OUTBOUND_DEFAULTS
    /\ stage = "closed" /\ editing = FALSE
    /\ matrix = "pending"
    /\ link = {} /\ touched = {} /\ unguarded = {}
    /\ budget = [switch |-> MaxSwitches, fill |-> MaxFills, save |-> MaxSaves]

-----------------------------------------------------------------------------
(* The guard: an effect keyed on the transport and the security of the     *)
(* render, so it judges a mask when one of them changes or the matrix comes. *)

Keys(v) == <<IF v.protocol_kind = "hysteria" THEN "hysteria" ELSE v.network, v.security>>

Judged(v, keys) == [v EXCEPT !.finalmask_kind = FinalMaskGuard(matrix, @, keys[1], keys[2])]

GuardEdited(old, new) == IF Keys(new) = Keys(old) THEN new ELSE Judged(new, Keys(new))

Start(v, edit) ==
    /\ stage = "closed" /\ budget.save > 0
    /\ form' = v /\ editing' = edit
    /\ stage' = "opening"
    /\ link' = {} /\ touched' = {} /\ unguarded' = {}
    /\ UNCHANGED <<stored, matrix, budget>>

OpenEdit   == \E ob \in stored : Start(OutboundToForm(ob), TRUE)
OpenCreate == stored = {} /\ Start(OUTBOUND_DEFAULTS, FALSE)

\* The first render knows neither the transport nor the security of the record
\* and stands in TCP without security for them; the next one knows both.
FirstRender(v) == Judged(v, <<"tcp", "none">>)

Register ==
    /\ stage = "opening"
    /\ form' = LET first == FirstRender(form)
               IN IF Keys(form) = <<"tcp", "none">> THEN first ELSE Judged(first, Keys(form))
    /\ stage' = "open"
    /\ UNCHANGED <<stored, editing, matrix, link, touched, unguarded, budget>>

Cancel ==
    /\ stage = "open"
    /\ stage' = "closed" /\ form' = OUTBOUND_DEFAULTS /\ editing' = FALSE
    /\ link' = {} /\ touched' = {} /\ unguarded' = {}
    /\ Spend("save")
    /\ UNCHANGED <<stored, matrix>>

MatrixAnswers ==
    /\ matrix # "known"
    /\ matrix' = "known"
    /\ form' = IF stage # "open" THEN form
               ELSE [form EXCEPT !.finalmask_kind = FinalMaskGuard("known", @, Keys(form)[1], Keys(form)[2])]
    /\ UNCHANGED <<stored, stage, editing, link, touched, unguarded, budget>>

MatrixFails ==
    /\ matrix = "pending"
    /\ matrix' = "failed"
    /\ UNCHANGED <<stored, form, stage, editing, link, touched, unguarded, budget>>

-----------------------------------------------------------------------------
(* Edits. A tunnel's form is another shape, with its own protocol selector. *)

Type(layers, next, k) ==
    /\ stage = "open" /\ Spend(k)
    /\ next # form
    /\ form' = GuardEdited(form, next)
    /\ touched' = touched \cup layers
    /\ link' = {}
    /\ UNCHANGED <<stored, stage, editing, matrix>>

\* Mutant: nothing moves the security along with the protocol.
PickOnly(v, p) == [v EXCEPT !.protocol_kind = p]

\* QUIC mandates TLS.
PickProtocol(v, p) ==
    [v EXCEPT !.protocol_kind = p, !.security = IF p = "hysteria" THEN "tls" ELSE @]

EditProtocolKind ==
    /\ stage = "open" /\ form.protocol_kind # "wireguard"
    /\ \E p \in Protocols : Type(Layers, PickProtocol(form, p), "switch")
    /\ UNCHANGED unguarded

\* The selector of the tunnel's form sets nothing but the protocol.
LeaveWireguard ==
    /\ stage = "open" /\ form.protocol_kind = "wireguard"
    /\ \E p \in Protocols :
          /\ Type(Layers, [form EXCEPT !.protocol_kind = p], "switch")
          /\ unguarded' = unguarded \cup Opt(p = "hysteria" /\ form.security # "tls", "security")

EditNetwork ==
    /\ stage = "open" /\ form.protocol_kind = "vless"
    /\ \E n \in Networks : Type({"transport", "finalmask"}, [form EXCEPT !.network = n], "switch")
    /\ UNCHANGED unguarded

EditSecurityKind ==
    /\ stage = "open" /\ form.protocol_kind # "wireguard"
    /\ \E s \in IF form.protocol_kind = "hysteria" THEN {"tls"} ELSE Securities :
          Type({"security", "finalmask"}, [form EXCEPT !.security = s], "switch")
    /\ UNCHANGED unguarded

EditMaskKind ==
    /\ stage = "open" /\ form.protocol_kind # "wireguard"
    /\ \E n \in FinalMaskKindEdits(form, matrix, Keys(form)[1], Keys(form)[2]) :
          Type({"finalmask"}, n, "switch")
    /\ UNCHANGED unguarded

EditMask ==
    /\ stage = "open" /\ form.protocol_kind # "wireguard"
    /\ \E n \in MaskFieldEdits(form) : Type({"finalmask"}, n, "fill")
    /\ UNCHANGED unguarded

VlessFields(v) ==
    {[v EXCEPT !.encryption_mode = m] : m \in {"none", "mlkem768x25519plus"}}
    \cup {[v EXCEPT !.flow = f] : f \in {"blank", "vision"}} \cup {[v EXCEPT !.uuid = "id"]}
    \cup Opt(v.encryption_mode # "none", [v EXCEPT !.encryption_client_key = "key"])

WireguardFields(v) ==
    {[v EXCEPT !.wg_peer = p] : p \in {"good", "bad"}}
    \cup {[v EXCEPT !.wg_reserved = r] : r \in {<<>>, <<1>>, <<1, 2, 3>>}}
    \cup {[v EXCEPT !.wg_mtu = n] : n \in {Null, 0, 1280}}

\* What a tunnel's fields hold is the backend's to judge.
EditProtocolFields ==
    /\ stage = "open"
    /\ \E n \in IF form.protocol_kind = "wireguard" THEN WireguardFields(form)
                ELSE {[form EXCEPT !.address = "host"]}
                     \cup IF form.protocol_kind = "vless" THEN VlessFields(form) ELSE {} :
          /\ Type({"protocol"}, n, "fill")
          /\ unguarded' = unguarded \cup
                Opt(n.protocol_kind = "wireguard" /\ ~ValidateWireguard(BuildProtocol(n)), "tunnel")

EditTransportFields ==
    /\ stage = "open"
    /\ \E n \in CASE form.protocol_kind = "hysteria" ->
                       {[form EXCEPT !.hysteria_auth = "password"]}
                       \cup {[form EXCEPT !.hy_quic = q] : q \in SUBSET {"tuned", "hop_ports", "hop_interval"}}
                  [] form.protocol_kind = "vless" /\ form.network # "tcp" ->
                       {[form EXCEPT !.headers = h] : h \in SUBSET {"blank", "named"}}
                       \cup {[form EXCEPT !.xhttp_mode = m] : m \in {"auto", "packet-up"}}
                  [] OTHER -> {} : Type({"transport"}, n, "fill")
    /\ UNCHANGED unguarded

\* Fragment and XMC do not run over HTTP/3, and no field says so.
EditSecurityFields ==
    /\ stage = "open" /\ form.protocol_kind # "wireguard"
    /\ \E n \in CASE form.security = "tls" -> {[form EXCEPT !.tls_alpn = a] : a \in {{}, {"h1", "h2"}, {"h3"}}}
                  [] form.security = "reality" -> {[form EXCEPT !.reality_public_key = "key"],
                                                   [form EXCEPT !.server_name = "sni"]}
                  [] OTHER -> {} : Type({"security"}, n, "fill")
    /\ UNCHANGED unguarded

Paste(q, from) ==
    LET next == ApplyLink(form, q)
    IN /\ stage = "open" /\ form.protocol_kind # "wireguard" /\ Spend("switch")
       /\ form' = GuardEdited(form, next)
       /\ touched' = Layers
       /\ link' = from
       /\ UNCHANGED <<stored, stage, editing, matrix>>

PasteLink == \E srv \in Servers : Paste(BuildShareLink(srv), {srv}) /\ UNCHANGED unguarded

\* The effect does not run again when a link brings a mask and no new keys.
PasteForeignLink ==
    \E q \in ForeignLinks :
        /\ Paste(q, {})
        /\ unguarded' = unguarded \cup Opt(Keys(ApplyLink(form, q)) = Keys(form), "mask")

-----------------------------------------------------------------------------
(* Save.                                                                   *)

Required(v) ==
    IF v.protocol_kind = "wireguard" THEN v.wg_peer # "blank"
    ELSE /\ v.address # "blank"
         /\ v.protocol_kind = "hysteria" => v.hysteria_auth # "blank"
         /\ v.protocol_kind = "vless" =>
               v.uuid # "blank" /\ (v.encryption_mode # "none" => v.encryption_client_key # "blank")
         /\ v.security = "reality" => v.server_name # "blank" /\ v.reality_public_key # "blank"
         /\ MaskFieldsValid(v)

Previous == IF editing THEN stored ELSE {}

Accepted == LET ob == FormToOutbound(form) IN ValidateOutbound(ob, Previous) /\ Builds(ob)

SaveAccepted ==
    /\ stage = "open" /\ Required(form) /\ Accepted
    /\ stored' = {FormToOutbound(form)}
    /\ stage' = "closed" /\ form' = OUTBOUND_DEFAULTS /\ editing' = FALSE
    /\ link' = {} /\ touched' = {} /\ unguarded' = {}
    /\ Spend("save")
    /\ UNCHANGED matrix

SaveRefused ==
    /\ stage = "open" /\ Required(form) /\ ~Accepted
    /\ UNCHANGED vars

Finished == budget.save = 0 /\ UNCHANGED vars

Next ==
    \/ OpenEdit \/ OpenCreate \/ Register \/ Cancel
    \/ MatrixAnswers \/ MatrixFails
    \/ EditProtocolKind \/ LeaveWireguard \/ EditNetwork \/ EditSecurityKind
    \/ EditMaskKind \/ EditMask \/ EditProtocolFields \/ EditTransportFields \/ EditSecurityFields
    \/ PasteLink \/ PasteForeignLink
    \/ SaveAccepted \/ SaveRefused
    \/ Finished

Spec == Init /\ [][Next]_vars

-----------------------------------------------------------------------------
\* Type correctness: whatever was opened, pasted or typed, the store holds
\* values its selectors can show, and the row passed the rules of the list.
TypeOK ==
    /\ form \in OutboundFormValues
    /\ \A ob \in stored : ValidateOutbound(ob, {ob}) /\ Builds(ob)
    /\ Cardinality(stored) <= 1 /\ Cardinality(link) <= 1
    /\ stage \in {"closed", "opening", "open"}
    /\ matrix \in {"pending", "known", "failed"}
    /\ touched \subseteq Layers /\ unguarded \subseteq {"security", "tunnel", "mask"}

\* HTTP/3 under a mask that has no QUIC half.
MaskOverHttp3(v) ==
    OverHttp3(BuildTransport(v), BuildSecurity(v)) /\ v.finalmask_kind \in {"fragment", "xmc"}

\* A mask the matrix has ruled out since it was stored is not judged again if
\* the form spells it as the row does.
MaskAsStored(v) == \A ob \in stored : BuildFinalMask(v) = ob.finalmask

\* A form whose required fields are filled is one the backend takes, when the
\* matrix is known or nothing was edited, except after the steps `unguarded`
\* names: the one guard and the selectors leave no other illegal outbound.
SettledFormAccepted ==
    (/\ stage = "open" /\ Required(form)
     /\ matrix = "known" \/ (touched = {} /\ MaskAsStored(form))
     /\ unguarded = {} /\ ~MaskOverHttp3(form)) => Accepted

\* Where a link says less than the inbound it was made from, or the import
\* reads less than the link says: sudoku's tables, max_split of a fragment and
\* reset of a noise, the masks of hysteria other than its own obfuscation, the
\* verb of packet-up, the pin of a self-signed VLESS certificate.
LinkGap(srv) ==
    \/ RunningMask(ShownMask(srv.finalmask)) # RunningMask(srv.finalmask)
    \/ srv.finalmask.kind = "sudoku" /\ srv.finalmask.custom_tables # {}
    \/ srv.protocol = "hysteria2" /\ RunningMask(srv.finalmask).kind \notin {"none", "salamander"}
    \/ srv.transport.kind = "xhttp" /\ srv.transport.mode = "packet-up" /\ srv.transport.method # "blank"
    \/ srv.protocol = "vless" /\ srv.security.kind = "tls" /\ srv.security.self_signed

SpeaksVless(ob, srv) ==
    /\ ob.protocol.id = "id" /\ ob.protocol.flow = srv.flow
    /\ ob.protocol.enc = srv.enc /\ ob.protocol.reverse_tag = srv.reverse_tag
    /\ ob.transport.kind = srv.transport.kind
    /\ srv.transport.kind # "tcp" => ob.transport.host = srv.transport.host
    /\ srv.transport.kind = "xhttp" =>
          /\ ob.transport.mode = srv.transport.mode /\ ob.transport.obfs = srv.transport.obfs
          /\ srv.transport.obfs => ob.transport.obfs_keys = srv.transport.obfs_keys
          /\ ob.transport.session = srv.transport.session
          /\ srv.transport.mode = "packet-up" => ob.transport.uplink = srv.transport.uplink

SpeaksSecurity(ob, srv) ==
    LET c == ob.security  s == srv.security
    IN /\ c.kind = s.kind
       /\ s.kind = "reality" => /\ HeadOr(c.server_names, "blank") = s.sni /\ c.public_key = "key"
                                /\ HeadOr(c.short_ids, "blank") = HeadOr(s.short_ids, "blank")
       /\ s.kind = "tls" => /\ s.sni # "blank" => c.server_name = s.sni
                            /\ s.self_signed => c.pins = {"pin"}
                            /\ srv.protocol = "vless" => UNION c.alpn = s.alpn

\* Does the outbound dial what the inbound answers?
Speaks(ob, srv) ==
    /\ SpeaksSecurity(ob, srv)
    /\ RunningMask(ob.finalmask) = RunningMask(srv.finalmask)
    /\ IF srv.protocol = "vless" THEN ob.protocol.kind = "vless" /\ SpeaksVless(ob, srv)
       ELSE ob.protocol.kind = "hysteria" /\ ob.transport.auth = "password"

\* Pasting the share link of one of the panel's own inbounds, over whatever the
\* form held, gives an outbound that speaks what the inbound speaks: nothing
\* of the earlier form survives, no guard takes the mask, no list is reordered.
LinkSpeaksServer ==
    \A srv \in link : (stage = "open" /\ ~LinkGap(srv)) => Speaks(FormToOutbound(form), srv)

\* The mask the first render of an edited row takes for TCP's; OpeningKeepsMask
\* is about this.
DroppedOnOpen(ob) == ob.finalmask.kind \notin {"none"} \cup SupportedKinds("tcp", "none")

\* What the form has fields for and the operator did not touch means the same
\* after a save, for rows the form wrote and rows another client did. What has
\* no field (Shown) is dropped by every save, touched or not.
UntouchedSurvives ==
    (stage = "open" /\ editing) =>
        \A ob \in stored, l \in Layers \ touched :
            \/ EffectiveLayer(l, FormToOutbound(form)) = EffectiveLayer(l, Shown(ob))
            \/ l = "finalmask" /\ matrix = "known"
               /\ (DroppedOnOpen(ob) \/ ob.finalmask.kind \notin SupportedKinds(Keys(form)[1], Keys(form)[2]))

\* The guard takes a mask on opening only if the record's own transport and
\* security cannot run it.
OpeningKeepsMask ==
    [][(stage = "opening" /\ stage' = "open" /\ form.finalmask_kind # "none" /\ form'.finalmask_kind = "none")
       => form.finalmask_kind \notin SupportedKinds(Keys(form)[1], Keys(form)[2])]_vars
=============================================================================
