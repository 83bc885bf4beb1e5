---------------------------- MODULE InboundAdapters ----------------------------
(***************************************************************************)
(* The pure half of the inbound form: the flat form record, the typed      *)
(* layers a row is stored as, the adapters between the two                 *)
(* (form/adapters.ts), the registry's guards (form/registry.ts), and the   *)
(* backend's cross-layer rules (api/inbounds.rs) that they exist to meet.  *)
(*                                                                         *)
(* A layer is a record with a `kind`; an optional part of one is a set of  *)
(* at most one value. Free text is a class: blank or a value.              *)
(***************************************************************************)
EXTENDS Integers, FiniteSets, FinalMaskForm

Protocols  == {"vless", "hysteria2", "wireguard"}
Networks   == {"tcp", "ws", "xhttp"}       \* what the transport selector can hold
Securities == {"none", "tls", "reality"}
Auths      == {"mlkem768", "x25519"}
MtuDefault == 1420

FormValues ==
    [protocol_kind : Protocols, network : Networks, security : Securities,
     vless_flow : {"none", "vision"}, encryption_mode : {"none", "mlkem768x25519plus"},
     encryption_auth : Auths, encryption_keys : {"blank"} \cup Auths,   \* the auth the pair is for
     fallbacks : BOOLEAN,
     wg_keys : {"blank", "pair"}, wg_mtu : {Null, 0, 1280, MtuDefault},
     reality_keys : {"blank", "pair"},
     tls_certificates : SUBSET {"half", "full"}, tls_alpn : SUBSET {"h1", "h2", "h3"},
     tls_fingerprint : {"chrome", "firefox"},
     xhttp_mode : {"auto", "packet-up"}, uplink_get : BOOLEAN,
     headers : SUBSET {"blank", "named"},
     quic : SUBSET {"tuned", "hop_ports", "hop_interval"},
     masq_kind : {"notfound", "file", "string"},
     sniffing : SUBSET {"blank", "entry"}, sockopt : SUBSET {"blank", "entry"},
     finalmask_kind : MaskKinds, sudoku_tables : SUBSET {"blank", "table"},
     packets_mode : {"tlshello", "all", "range"},
     packets_from : PacketBounds, packets_to : PacketBounds,
     noise_items : SUBSET NoiseItems, xmc_profiles : SUBSET XmcProfiles]

DEFAULTS ==
    [protocol_kind |-> "vless", network |-> "tcp", security |-> "reality",
     vless_flow |-> "none", encryption_mode |-> "none",
     encryption_auth |-> "mlkem768", encryption_keys |-> "blank", fallbacks |-> FALSE,
     wg_keys |-> "blank", wg_mtu |-> MtuDefault, reality_keys |-> "blank",
     tls_certificates |-> {}, tls_alpn |-> {"h1"}, tls_fingerprint |-> "chrome",
     xhttp_mode |-> "auto", uplink_get |-> FALSE, headers |-> {}, quic |-> {},
     masq_kind |-> "notfound", sniffing |-> {}, sockopt |-> {},
     finalmask_kind |-> "none", sudoku_tables |-> {}, packets_mode |-> "tlshello",
     packets_from |-> Null, packets_to |-> Null,
     noise_items |-> {"random"}, xmc_profiles |-> {"blank"}]

-----------------------------------------------------------------------------
(* Form to layers.                                                         *)

Some(S, x) == IF S THEN {x} ELSE {}

BuildProtocol(v) ==
    LET isEnc == v.encryption_mode # "none"
    IN CASE v.protocol_kind = "hysteria2" -> [kind |-> "hysteria2"]
         [] v.protocol_kind = "wireguard" ->
              [kind |-> "wireguard", keys |-> v.wg_keys, mtu |-> OrZero(v.wg_mtu)]
         [] v.protocol_kind = "vless"     ->
              [kind |-> "vless", flow |-> v.vless_flow,
               enc |-> Some(isEnc, [auth |-> v.encryption_auth, keys |-> v.encryption_keys]),
               fallbacks |-> ~isEnc /\ v.fallbacks]

\* Nothing set is null; a hop interval without ports goes nowhere.
BuildQuicParams(v) ==
    LET hop == Some("hop_ports" \in v.quic, [interval |-> "hop_interval" \in v.quic])
    IN Some("tuned" \in v.quic \/ hop # {}, [tuned |-> "tuned" \in v.quic, udp_hop |-> hop])

\* The response headers of a string masquerade are not on the form.
BuildMasquerade(v) == [kind |-> v.masq_kind, headers |-> {}]

CollapseHeaders(v) == v.headers \ {"blank"}

\* Mutant: a knob that packet-up alone may have is sent in every mode.
UplinkGetAsTyped(v) == v.uplink_get

UplinkGet(v) == v.xhttp_mode = "packet-up" /\ v.uplink_get

BuildTransport(v) ==
    CASE v.protocol_kind = "hysteria2" ->
            [kind |-> "hysteria", masquerade |-> BuildMasquerade(v), quic |-> BuildQuicParams(v)]
      [] v.protocol_kind # "hysteria2" /\ v.network = "tcp"   -> [kind |-> "tcp"]
      [] v.protocol_kind # "hysteria2" /\ v.network = "ws"    ->
            [kind |-> "ws", headers |-> CollapseHeaders(v)]
      [] v.protocol_kind # "hysteria2" /\ v.network = "xhttp" ->
            [kind |-> "xhttp", mode |-> v.xhttp_mode, headers |-> CollapseHeaders(v),
             get |-> UplinkGet(v), quic |-> BuildQuicParams(v)]

\* Half a certificate is dropped; no ALPN at all is null, "never picked".
BuildSecurity(v) ==
    CASE v.security = "none"    -> [kind |-> "none"]
      [] v.security = "reality" -> [kind |-> "reality", keys |-> v.reality_keys]
      [] v.security = "tls"     -> [kind |-> "tls", certificates |-> v.tls_certificates \cap {"full"},
                                    alpn |-> Some(v.tls_alpn # {}, v.tls_alpn),
                                    fingerprint |-> v.tls_fingerprint]

BuildSniffing(v) == v.sniffing \ {"blank"}
BuildSockopt(v)  == v.sockopt \ {"blank"}

Layers == {"protocol", "transport", "security", "sniffing", "sockopt", "finalmask"}

FormToUpdate(v) ==
    [protocol |-> BuildProtocol(v), transport |-> BuildTransport(v), security |-> BuildSecurity(v),
     sniffing |-> BuildSniffing(v), sockopt |-> BuildSockopt(v), finalmask |-> BuildFinalMask(v)]

-----------------------------------------------------------------------------
(* Layers to form: what a layer does not carry keeps the defaults.         *)

HydrateProtocol(v, p) ==
    CASE p.kind = "hysteria2" -> [v EXCEPT !.protocol_kind = "hysteria2"]
      [] p.kind = "wireguard" ->
            [v EXCEPT !.protocol_kind = "wireguard", !.wg_keys = p.keys,
                      !.wg_mtu = IF p.mtu = 0 THEN MtuDefault ELSE p.mtu]
      [] p.kind = "vless"     ->
            LET enc == CHOOSE e \in p.enc \cup {[auth |-> "mlkem768", keys |-> "blank"]} :
                           p.enc # {} => e \in p.enc
            IN [v EXCEPT !.protocol_kind = "vless", !.vless_flow = p.flow,
                         !.encryption_mode = IF p.enc = {} THEN "none" ELSE "mlkem768x25519plus",
                         !.encryption_auth = enc.auth, !.encryption_keys = enc.keys,
                         !.fallbacks = p.fallbacks]

\* `quic` is null or one record of knobs.
HydrateQuicParams(q) ==
    {k \in {"tuned"} : \E x \in q : x.tuned}
    \cup {k \in {"hop_ports"} : \E x \in q : x.udp_hop # {}}
    \cup {k \in {"hop_interval"} : \E x \in q : \E h \in x.udp_hop : h.interval}

\* The network of a hysteria row stays at its default, for a protocol that
\* needs one to be picked later.
HydrateTransport(v, t) ==
    CASE t.kind = "tcp"      -> [v EXCEPT !.network = "tcp"]
      [] t.kind = "ws"       -> [v EXCEPT !.network = "ws", !.headers = t.headers]
      [] t.kind = "xhttp"    -> [v EXCEPT !.network = "xhttp", !.xhttp_mode = t.mode,
                                          !.headers = t.headers, !.uplink_get = t.get,
                                          !.quic = HydrateQuicParams(t.quic)]
      [] t.kind = "hysteria" -> [v EXCEPT !.network = "tcp", !.masq_kind = t.masquerade.kind,
                                          !.quic = HydrateQuicParams(t.quic)]

\* Mutant: an ALPN nobody picked is shown as the usual pair.
HydrateAlpnAsPair(s) == IF s.alpn = {} THEN {"h1", "h2"} ELSE UNION s.alpn

HydrateAlpn(s) == UNION s.alpn

\* A fingerprint nobody picked is the one everybody gets.
FingerprintOr(f) == IF f = "blank" THEN "chrome" ELSE f

HydrateSecurity(v, s) ==
    CASE s.kind = "none"    -> [v EXCEPT !.security = "none"]
      [] s.kind = "reality" -> [v EXCEPT !.security = "reality", !.reality_keys = s.keys]
      [] s.kind = "tls"     -> [v EXCEPT !.security = "tls", !.tls_certificates = s.certificates,
                                         !.tls_alpn = HydrateAlpn(s),
                                         !.tls_fingerprint = FingerprintOr(s.fingerprint)]

InboundToForm(row) ==
    LET p == HydrateProtocol(DEFAULTS, row.protocol)
        t == HydrateTransport(p, row.transport)
        s == HydrateSecurity(t, row.security)
        o == [s EXCEPT !.sniffing = row.sniffing, !.sockopt = row.sockopt]
    IN HydrateFinalMask(o, row.finalmask)

\* What the form has inputs for: not the response headers of a string masquerade,
\* nor two numbers of the masks.
Shown(l, x) ==
    CASE l = "finalmask" -> ShownMask(x)
      [] l = "transport" /\ x.kind = "hysteria" -> [x EXCEPT !.masquerade.headers = {}]
      [] OTHER -> x

\* What a layer means once the backend has filled in its defaults.
Effective(l, x) ==
    CASE l = "finalmask" -> EffectiveMask(x)
      [] l = "protocol" /\ x.kind = "wireguard" ->
            [x EXCEPT !.mtu = IF @ = 0 THEN MtuDefault ELSE @]
      [] l = "security" /\ x.kind = "tls" -> [x EXCEPT !.fingerprint = FingerprintOr(@)]
      [] OTHER -> x

-----------------------------------------------------------------------------
(* The registry and its guards: one pass of the effects React runs after a *)
(* render, each reading the values of that render.                         *)

AllowedTransports(p) == CASE p = "vless" -> Networks
                          [] p = "hysteria2" -> {"hysteria"}
                          [] p = "wireguard" -> {"tcp"}
AllowedSecurities(p) == CASE p = "vless" -> Securities
                          [] p = "hysteria2" -> {"tls"}
                          [] p = "wireguard" -> {"none"}
DefaultSecurity(p)   == CASE p = "vless" -> "reality"
                          [] p = "hysteria2" -> "tls"
                          [] p = "wireguard" -> "none"
HasFlow(p) == p = "vless"

GuardFlow(v) ==
    IF ~HasFlow(v.protocol_kind) \/ v.network # "tcp" THEN "none" ELSE v.vless_flow

\* Mutant: the network snaps to whatever the protocol runs on.
GuardNetworkToAny(v) ==
    IF v.network \notin AllowedTransports(v.protocol_kind)
    THEN CHOOSE n \in AllowedTransports(v.protocol_kind) : TRUE ELSE v.network

\* A protocol none of whose transports the selector can hold leaves it alone.
GuardNetwork(v) ==
    LET snapTo == AllowedTransports(v.protocol_kind) \cap Networks
    IN IF snapTo # {} /\ v.network \notin snapTo THEN "tcp" ELSE v.network

GuardSecurity(v) ==
    CASE v.network = "ws" /\ v.security = "reality" -> "tls"
      [] ~(v.network = "ws" /\ v.security = "reality")
         /\ v.security \notin AllowedSecurities(v.protocol_kind) -> DefaultSecurity(v.protocol_kind)
      [] OTHER -> v.security

UseProtocolGuards(v, matrix) ==
    [v EXCEPT !.vless_flow = GuardFlow(v), !.network = GuardNetwork(v),
              !.security = GuardSecurity(v),
              !.finalmask_kind = FinalMaskGuard(matrix, v.finalmask_kind,
                                     MaskTransport(v.protocol_kind, v.network), v.security)]

Quiet(v, matrix) == UseProtocolGuards(v, matrix) = v

\* The effects run again after each render that changed a value they watch;
\* three renders settle any form.
Settle(v, matrix) ==
    LET once  == UseProtocolGuards(v, matrix)
        twice == UseProtocolGuards(once, matrix)
    IN UseProtocolGuards(twice, matrix)

-----------------------------------------------------------------------------
(* The backend's cross-layer rules.                                        *)

CompatTransports(p) == CASE p = "vless" -> {"tcp", "ws", "xhttp"}
                         [] p = "hysteria2" -> {"hysteria"}
                         [] p = "wireguard" -> {"tcp"}
CompatSecurities(p) == CASE p = "vless" -> {"none", "tls", "reality"}
                         [] p = "hysteria2" -> {"tls"}
                         [] p = "wireguard" -> {"none"}

ValidateXhttpMode(t) == t.kind = "xhttp" => (t.mode = "packet-up" \/ ~t.get)

\* TCP masks never run under XHTTP over HTTP/3, which is ALPN being h3 alone.
OverHttp3(t, s) == t.kind = "xhttp" /\ s.kind = "tls" /\ s.alpn = {{"h3"}}

ValidateFinalMask(b) ==
    IF b.protocol.kind = "wireguard"
    THEN b.finalmask.kind \in {"none"} \cup SupportedKinds("wireguard", b.security.kind)
    ELSE /\ b.finalmask.kind \in {"none"} \cup SupportedKinds(b.transport.kind, b.security.kind)
         /\ OverHttp3(b.transport, b.security) => b.finalmask.kind \notin {"fragment", "xmc"}

ValidateFallbacks(b) ==
    (b.protocol.kind = "vless" /\ b.protocol.fallbacks) =>
        (b.protocol.enc = {} /\ b.transport.kind = "tcp")

ValidateLayers(b) ==
    /\ b.transport.kind \in CompatTransports(b.protocol.kind)
    /\ b.security.kind \in CompatSecurities(b.protocol.kind)
    /\ b.protocol.kind = "vless" /\ b.protocol.flow = "vision" => b.transport.kind = "tcp"
    /\ ~(b.security.kind = "reality" /\ b.transport.kind = "ws")
    /\ ValidateXhttpMode(b.transport)
    /\ ValidateFinalMask(b)
    /\ ValidateFallbacks(b)

\* A create completes every key the body leaves out. An update makes a
\* WireGuard pair too and keeps the stored Reality one; a row that becomes
\* Reality, or turns encryption on, has to bring its own.
CompleteKeys(p) ==
    CASE p.kind = "wireguard" -> [p EXCEPT !.keys = "pair"]
      [] p.kind = "vless" ->
            [p EXCEPT !.enc = {IF e.keys = "blank" THEN [e EXCEPT !.keys = e.auth] ELSE e : e \in p.enc}]
      [] OTHER -> p

CompleteServerManagedFields(b) ==
    [b EXCEPT !.protocol = CompleteKeys(@),
              !.security = IF @.kind = "reality" THEN [@ EXCEPT !.keys = "pair"] ELSE @]

SettleUpdatedKeys(b, before) ==
    [b EXCEPT !.protocol = IF @.kind = "wireguard" THEN [@ EXCEPT !.keys = "pair"] ELSE @,
              !.security = IF @.kind = "reality" /\ @.keys = "blank" /\ before.security.kind = "reality"
                           THEN [@ EXCEPT !.keys = before.security.keys] ELSE @]

\* The build an enabled row has to pass before it is stored. An encryption
\* without keys passes it: xray is then told not to decrypt.
Builds(b) ==
    /\ b.security.kind = "reality" => b.security.keys # "blank"
    /\ b.security.kind = "tls" => b.security.certificates # {}
    /\ b.protocol.kind = "wireguard" => b.protocol.keys # "blank"
=============================================================================
