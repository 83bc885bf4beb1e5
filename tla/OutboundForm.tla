------------------------------ MODULE OutboundForm ------------------------------
(***************************************************************************)
(* The pure half of the outbound form: its flat record, the adapters to    *)
(* and from a stored outbound (Outbounds/form.ts), the share link of an    *)
(* inbound (xray/share_link.rs), the import of one (parseLink.ts), and the *)
(* rules a list of outbounds has to pass (api/outbounds.rs).               *)
(*                                                                         *)
(* Free text is a class, blank or a value; an optional part is a set of at *)
(* most one value; knobs that travel together are one field.               *)
(***************************************************************************)
EXTENDS Integers, FiniteSets, Sequences, FinalMaskForm

Protocols  == {"vless", "hysteria", "wireguard"}
Networks   == {"tcp", "ws", "xhttp"}
Securities == {"none", "tls", "reality"}
Paddings   == {<<>>, <<"p">>, <<"p", "q">>}   \* dot-separated, as typed

OutboundFormValues ==
    [protocol_kind : Protocols, address : {"blank", "host"}, uuid : {"blank", "id"},
     flow : {"blank", "vision"}, reverse_tag : {"blank", "tag"},
     encryption_mode : {"none", "mlkem768x25519plus"},
     encryption_client_key : {"blank", "key"}, encryption_padding : Paddings,
     hysteria_auth : {"blank", "password"}, hy_quic : SUBSET {"tuned", "hop_ports", "hop_interval"},
     network : Networks, http_host : {"blank", "cdn"}, headers : SUBSET {"blank", "named"},
     xhttp_mode : {"auto", "packet-up"}, obfs_mode : BOOLEAN, obfs_keys : {"blank", "key"},
     session_keys : {"blank", "key"}, uplink_keys : {"blank", "key"},
     security : Securities, server_name : {"blank", "host", "cdn", "sni"},
     tls_alpn : SUBSET {"h1", "h2", "h3"}, tls_pins : SUBSET {"pin"},
     reality_public_key : {"blank", "key"}, reality_short_id : {"blank", "sid"},
     mux_enabled : BOOLEAN,
     wg_peer : {"blank", "good", "bad"}, wg_reserved : {<<>>, <<1>>, <<1, 2, 3>>},
     wg_mtu : {Null, 0, 1280}, wg_warp : BOOLEAN,
     finalmask_kind : MaskKinds, sudoku_tables : SUBSET {"blank", "table"},
     packets_mode : {"tlshello", "all", "range"},
     packets_from : PacketBounds, packets_to : PacketBounds,
     noise_items : SUBSET NoiseItems, xmc_profiles : SUBSET XmcProfiles]

\* An object spread over another: the fields f has, and those only g has.
Overlay(f, g) ==
    [x \in (DOMAIN f) \cup (DOMAIN g) |-> IF x \in DOMAIN f THEN f[x] ELSE g[x]]

FieldDefaults ==
    [protocol_kind |-> "vless", address |-> "blank", uuid |-> "blank", flow |-> "blank",
     reverse_tag |-> "blank", encryption_mode |-> "none", encryption_client_key |-> "blank", encryption_padding |-> <<>>,
     hysteria_auth |-> "blank", hy_quic |-> {},
     network |-> "tcp", http_host |-> "blank", headers |-> {},
     xhttp_mode |-> "auto", obfs_mode |-> FALSE, obfs_keys |-> "blank",
     session_keys |-> "blank", uplink_keys |-> "blank",
     security |-> "reality", server_name |-> "blank", tls_alpn |-> {}, tls_pins |-> {},
     reality_public_key |-> "blank", reality_short_id |-> "blank", mux_enabled |-> FALSE,
     wg_peer |-> "blank", wg_reserved |-> <<>>, wg_mtu |-> Null, wg_warp |-> FALSE]

OUTBOUND_DEFAULTS == Overlay(FieldDefaults, MaskDefaults)

Opt(present, x) == IF present THEN {x} ELSE {}

-----------------------------------------------------------------------------
(* Form to outbound.                                                       *)

\* Mutant: the flag no field shows is not carried through the form.
WarpForgotten(v) == FALSE

WarpCarried(v) == v.wg_warp

\* Nothing set is null; a hop interval without ports goes nowhere, and an
\* absent one is sent as zero. The selector knows one brutal.
BuildHyQuic(v) ==
    LET hop == Opt("hop_ports" \in v.hy_quic, [interval |-> "hop_interval" \in v.hy_quic])
        congestion == IF "tuned" \in v.hy_quic THEN "brutal" ELSE "none"
    IN Opt(congestion # "none" \/ hop # {}, [congestion |-> congestion, udp_hop |-> hop])

BuildProtocol(v) ==
    CASE v.protocol_kind = "wireguard" ->
            [kind |-> "wireguard", peer |-> v.wg_peer, reserved |-> v.wg_reserved,
             mtu |-> OrZero(v.wg_mtu), warp |-> WarpCarried(v)]
      [] v.protocol_kind = "hysteria"  -> [kind |-> "hysteria", address |-> v.address]
      [] v.protocol_kind = "vless"     ->
            [kind |-> "vless", address |-> v.address, id |-> v.uuid, flow |-> v.flow,
             reverse_tag |-> v.reverse_tag,
             enc |-> Opt(v.encryption_mode # "none",
                         [key |-> v.encryption_client_key, padding |-> v.encryption_padding])]

\* What a layer has beyond the form's fields, its `rest`, is always sent as null:
\* the limits and multiplexing of XHTTP, a PROXY header of WebSocket's, the
\* windows and BBR profile of Hysteria, the versions and ciphers of TLS.
BuildTransport(v) ==
    CASE v.protocol_kind = "wireguard" -> [kind |-> "tcp"]
      [] v.protocol_kind = "hysteria"  ->
            [kind |-> "hysteria", auth |-> v.hysteria_auth, quic |-> BuildHyQuic(v), rest |-> "blank"]
      [] v.protocol_kind = "vless" /\ v.network = "tcp" -> [kind |-> "tcp"]
      [] v.protocol_kind = "vless" /\ v.network = "ws"  ->
            [kind |-> "ws", host |-> v.http_host, headers |-> v.headers \ {"blank"}, rest |-> "blank"]
      [] v.protocol_kind = "vless" /\ v.network = "xhttp" ->
            [kind |-> "xhttp", host |-> v.http_host, headers |-> v.headers \ {"blank"},
             mode |-> v.xhttp_mode, obfs |-> v.obfs_mode, obfs_keys |-> v.obfs_keys,
             session |-> v.session_keys, uplink |-> v.uplink_keys, rest |-> "blank"]

\* The client's half of a security layer: one name and one short id.
BuildSecurity(v) ==
    CASE v.protocol_kind = "wireguard" \/ v.security = "none" -> [kind |-> "none"]
      [] v.protocol_kind # "wireguard" /\ v.security = "tls" ->
            [kind |-> "tls", server_name |-> v.server_name,
             alpn |-> Opt(v.tls_alpn # {}, v.tls_alpn), pins |-> v.tls_pins, rest |-> "blank"]
      [] v.protocol_kind # "wireguard" /\ v.security = "reality" ->
            [kind |-> "reality", server_names |-> <<v.server_name>>,
             public_key |-> v.reality_public_key, short_ids |-> <<v.reality_short_id>>]

Layers == {"protocol", "transport", "security", "finalmask", "mux"}

FormToOutbound(v) ==
    [protocol |-> BuildProtocol(v), transport |-> BuildTransport(v), security |-> BuildSecurity(v),
     finalmask |-> IF v.protocol_kind = "wireguard" THEN [kind |-> "none"] ELSE BuildFinalMask(v),
     mux |-> v.protocol_kind # "wireguard" /\ v.mux_enabled]

-----------------------------------------------------------------------------
(* Outbound to form.                                                       *)

HeadOr(s, default) == IF s = <<>> THEN default ELSE s[1]

HydrateProtocol(v, p) ==
    CASE p.kind = "hysteria"  -> [v EXCEPT !.protocol_kind = "hysteria", !.address = p.address]
      [] p.kind = "wireguard" ->
            [v EXCEPT !.protocol_kind = "wireguard", !.wg_peer = p.peer, !.wg_reserved = p.reserved,
                      !.wg_mtu = IF p.mtu = 0 THEN Null ELSE p.mtu, !.wg_warp = p.warp]
      [] p.kind = "vless"     ->
            [v EXCEPT !.protocol_kind = "vless", !.address = p.address, !.uuid = p.id,
                      !.flow = p.flow, !.reverse_tag = p.reverse_tag,
                      !.encryption_mode = IF p.enc = {} THEN "none" ELSE "mlkem768x25519plus",
                      !.encryption_client_key =
                          IF p.enc = {} THEN "blank" ELSE (CHOOSE e \in p.enc : TRUE).key,
                      !.encryption_padding =
                          IF p.enc = {} THEN <<>> ELSE (CHOOSE e \in p.enc : TRUE).padding]

\* Mutant: the transport selector is handed a kind it has no entry for.
NetworkAsStored(kind) == kind

\* The hysteria transport has no entry in the selector.
NetworkOf(kind) == IF kind = "hysteria" THEN "tcp" ELSE kind

HydrateTransport(v, t) ==
    LET n == [v EXCEPT !.network = NetworkOf(t.kind)]
    IN CASE t.kind = "tcp"      -> n
         [] t.kind = "ws"       -> [n EXCEPT !.http_host = t.host, !.headers = t.headers]
         [] t.kind = "xhttp"    ->
              [n EXCEPT !.http_host = t.host, !.headers = t.headers, !.xhttp_mode = t.mode,
                        !.obfs_mode = t.obfs, !.obfs_keys = t.obfs_keys,
                        !.session_keys = t.session, !.uplink_keys = t.uplink]
         [] t.kind = "hysteria" ->
              [n EXCEPT !.hysteria_auth = t.auth,
                        !.hy_quic = {k \in {"tuned"} : \E q \in t.quic : q.congestion # "none"}
                             \cup {k \in {"hop_ports", "hop_interval"} : \E q \in t.quic :
                                      \E h \in q.udp_hop : k = "hop_interval" => h.interval}]

HydrateSecurity(v, s) ==
    CASE s.kind = "none"    -> [v EXCEPT !.security = "none"]
      [] s.kind = "tls"     -> [v EXCEPT !.security = "tls", !.server_name = s.server_name,
                                         !.tls_alpn = UNION s.alpn, !.tls_pins = s.pins]
      [] s.kind = "reality" -> [v EXCEPT !.security = "reality",
                                         !.server_name = HeadOr(s.server_names, "blank"),
                                         !.reality_public_key = s.public_key,
                                         !.reality_short_id = HeadOr(s.short_ids, "blank")]

OutboundToForm(ob) ==
    LET p == HydrateProtocol(OUTBOUND_DEFAULTS, ob.protocol)
        t == HydrateTransport(p, ob.transport)
        s == [HydrateSecurity(t, ob.security) EXCEPT !.mux_enabled = ob.mux]
    IN HydrateFinalMask(s, ob.finalmask)

\* A mask with nothing in it is no mask.
RunningMask(fm) ==
    IF \/ fm.kind = "noise" /\ fm.items \subseteq {"blank"}
       \/ fm.kind = "xmc" /\ fm.profiles = {}
    THEN [kind |-> "none"] ELSE EffectiveMask(fm)

\* What the form has fields for: no layer's `rest`, two numbers of the masks left
\* out, and every brutal the plain one.
ShownTransport(t) ==
    CASE t.kind = "hysteria" ->
            [t EXCEPT !.rest = "blank",
                      !.quic = {[q EXCEPT !.congestion = IF @ = "none" THEN @ ELSE "brutal"] : q \in @}]
      [] t.kind \in {"ws", "xhttp"} -> [t EXCEPT !.rest = "blank"]
      [] OTHER -> t

Shown(ob) ==
    [ob EXCEPT !.transport = ShownTransport(@), !.finalmask = ShownMask(@),
               !.security = IF @.kind = "tls" THEN [@ EXCEPT !.rest = "blank"] ELSE @]

\* What a layer means once the handler is built: the head of a list is what a
\* client uses, padding keys count under obfuscation, and a tunnel ignores mux.
EffectiveLayer(l, ob) ==
    CASE l = "finalmask" -> RunningMask(ob.finalmask)
      [] l = "security" /\ ob.security.kind = "reality" ->
            [kind |-> "reality", name |-> HeadOr(ob.security.server_names, "blank"),
             key |-> ob.security.public_key, sid |-> HeadOr(ob.security.short_ids, "blank")]
      [] l = "mux" -> ob.mux /\ ob.protocol.kind # "wireguard"
      [] OTHER -> ob[l]

-----------------------------------------------------------------------------
(* The rules of the list. A mask the row already had is not judged again.  *)

OverHttp3(t, s) == t.kind = "xhttp" /\ s.kind = "tls" /\ s.alpn = {{"h3"}}

MaskIsNew(ob, previous) == \A p \in previous : p.finalmask # ob.finalmask

ValidateFinalMask(ob, checkMatrix) ==
    /\ checkMatrix /\ RunningMask(ob.finalmask).kind # "none" =>
          /\ ob.finalmask.kind \in SupportedKinds(ob.transport.kind, ob.security.kind)
          /\ OverHttp3(ob.transport, ob.security) => ob.finalmask.kind \notin {"fragment", "xmc"}
    /\ ~(ob.security.kind = "reality" /\ ob.finalmask.kind = "xmc")

ValidateWireguard(w) == w.peer = "good" /\ Len(w.reserved) \in {0, 3}

ValidateOutbound(ob, previous) ==
    /\ ValidateFinalMask(ob, MaskIsNew(ob, previous))
    /\ ob.protocol.kind = "hysteria" <=> ob.transport.kind = "hysteria"
    /\ ob.protocol.kind = "hysteria" =>
          /\ ob.protocol.address # "blank" /\ ob.transport.auth # "blank"
          /\ ob.security.kind = "tls"
    /\ ob.protocol.kind = "wireguard" => ValidateWireguard(ob.protocol)

Builds(ob) == ob.security.kind = "reality" => ob.security.public_key # "blank"

-----------------------------------------------------------------------------
(* The share link: the client's view of an inbound, as query parameters.    *)
(* A parameter that is left out is blank.                                  *)

MaskParam(fm) == Opt(RunningMask(fm).kind # "none", RunningMask(fm))

EncryptionParam(s) ==
    IF s.enc = {} THEN <<"none">>
    ELSE LET e == CHOOSE x \in s.enc : TRUE
         IN <<"mlkem768x25519plus", "native", "0rtt">> \o e.padding \o <<e.key>>

\* Only what is not a default rides in `extra`: padding under obfuscation,
\* uplink placement under packet-up.
ExtraParam(t) ==
    [obfs |-> t.obfs, obfs_keys |-> IF t.obfs THEN t.obfs_keys ELSE "blank",
     session |-> t.session, uplink |-> IF t.mode = "packet-up" THEN t.uplink ELSE "blank",
     method |-> IF t.mode = "packet-up" THEN t.method ELSE "blank"]

HostOf(t) == IF t.kind \in {"ws", "xhttp"} THEN t.host ELSE "blank"

EffectiveSni(s, fallback) == IF s.sni # "blank" THEN s.sni ELSE fallback

BuildVlessShareLink(srv) ==
    LET t == srv.transport  s == srv.security
    IN [scheme |-> "vless", user |-> "id", encryption |-> EncryptionParam(srv), flow |-> srv.flow,
        type |-> t.kind, host |-> HostOf(t),
        mode |-> IF t.kind = "xhttp" THEN t.mode ELSE "blank",
        extra |-> IF t.kind = "xhttp" THEN {ExtraParam(t)} ELSE {},
        security |-> s.kind,
        sni |-> CASE s.kind = "tls" -> EffectiveSni(s, HostOf(t))
                  [] s.kind = "reality" -> s.sni
                  [] OTHER -> "blank",
        alpn |-> IF s.kind = "tls" THEN s.alpn ELSE {},
        pbk |-> IF s.kind = "reality" THEN "key" ELSE "blank",
        sid |-> IF s.kind = "reality" THEN HeadOr(s.short_ids, "blank") ELSE "blank",
        fm |-> MaskParam(srv.finalmask), reverse |-> srv.reverse_tag]

\* Salamander is the protocol's own obfuscation; a self-signed certificate is
\* pinned, since there is no skipping the check.
BuildHysteria2ShareLink(srv) ==
    [scheme |-> "hysteria2", user |-> "password",
     sni |-> EffectiveSni(srv.security, "host"), alpn |-> {"h3"},
     pins |-> IF srv.security.self_signed THEN {"pin"} ELSE {},
     obfs |-> srv.finalmask.kind = "salamander",
     fm |-> IF srv.finalmask.kind = "salamander" THEN {} ELSE MaskParam(srv.finalmask)]

BuildShareLink(srv) ==
    IF srv.protocol = "hysteria2" THEN BuildHysteria2ShareLink(srv) ELSE BuildVlessShareLink(srv)

-----------------------------------------------------------------------------
(* The import: the fields a link specifies.                                *)

None == [f \in {} |-> "blank"]

\* A cipher's last token is the key and what stands before it the padding.
ParseEncryption(e) ==
    IF e[1] # "mlkem768x25519plus" THEN [encryption_mode |-> "none"]
    ELSE [encryption_mode |-> e[1], encryption_padding |-> SubSeq(e, 4, Len(e) - 1),
          encryption_client_key |-> e[Len(e)]]

ParseSecurity(q) ==
    CASE q.security = "reality" -> [security |-> "reality", server_name |-> q.sni,
                                    reality_public_key |-> q.pbk, reality_short_id |-> q.sid]
      [] q.security = "tls"     -> [security |-> "tls", server_name |-> q.sni, tls_alpn |-> q.alpn]
      [] OTHER                  -> [security |-> "none"]

ApplyXhttpExtra(x) ==
    [obfs_mode |-> x.obfs, obfs_keys |-> x.obfs_keys,
     session_keys |-> x.session, uplink_keys |-> x.uplink]

ParseTransport(q) ==
    CASE q.type = "ws"    -> [network |-> "ws", http_host |-> q.host]
      [] q.type = "xhttp" ->
            Overlay([network |-> "xhttp", http_host |-> q.host, xhttp_mode |-> q.mode],
                    ApplyXhttpExtra(CHOOSE x \in q.extra : TRUE))
      [] OTHER            -> [network |-> "tcp"]

\* Of a sudoku mask only the password is read, and neither a fragment's limit on
\* its pieces nor the reset interval of a noise.
ApplyFinalMask(fm) ==
    CASE fm.kind \in {"salamander", "sudoku"} -> [finalmask_kind |-> fm.kind]
      [] fm.kind = "fragment" ->
            LET mode == PacketsMode(fm.from, fm.to)
            IN Overlay([finalmask_kind |-> "fragment", packets_mode |-> mode],
                       IF mode # "range" THEN None
                       ELSE [packets_from |-> fm.from, packets_to |-> fm.to])
      [] fm.kind = "noise"    -> [finalmask_kind |-> "noise",
                                  noise_items |-> {BuildNoiseItem(i) : i \in fm.items \ {"blank"}}]
      [] fm.kind = "xmc"      -> [finalmask_kind |-> "xmc", xmc_profiles |-> fm.profiles]

ParseHysteriaLink(q) ==
    Overlay([protocol_kind |-> "hysteria", address |-> "host", hysteria_auth |-> q.user,
             security |-> "tls", server_name |-> q.sni, tls_pins |-> q.pins, tls_alpn |-> q.alpn],
            IF q.obfs THEN [finalmask_kind |-> "salamander"] ELSE None)

\* The protocol of a vless link is the default base's.
ParseOutboundLink(q) ==
    IF q.scheme = "hysteria2" THEN ParseHysteriaLink(q)
    ELSE Overlay([address |-> "host", uuid |-> q.user, flow |-> q.flow],
         Overlay(ParseEncryption(q.encryption),
         Overlay(ParseSecurity(q),
         Overlay(ParseTransport(q),
         Overlay(IF q.fm = {} THEN None ELSE ApplyFinalMask(CHOOSE m \in q.fm : TRUE),
                 IF q.reverse = "blank" THEN None ELSE [reverse_tag |-> q.reverse])))))

\* Mutant: the link's fields land over whatever the form held.
OverlayOnForm(current, q) == Overlay(ParseOutboundLink(q), current)

\* The operator's other fields give way to the defaults.
ApplyLink(current, q) == Overlay(ParseOutboundLink(q), OUTBOUND_DEFAULTS)
=============================================================================
