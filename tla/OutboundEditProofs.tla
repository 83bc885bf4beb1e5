--------------------------- MODULE OutboundEditProofs ---------------------------
(***************************************************************************)
(* The outbound form for any number of edits, pasted links and saves: the   *)
(* store and the row stay well typed, a settled form is one the backend    *)
(* takes, an untouched layer survives a save, and a pasted link gives an   *)
(* outbound that speaks what the inbound speaks.                           *)
(***************************************************************************)
EXTENDS OutboundEdit, FiniteSetTheorems, SequenceTheorems, TLAPS

-----------------------------------------------------------------------------
(* The store, field by field.                                              *)

\* The fields each layer is built from; all but the protocol's also look at the
\* protocol.
ProtocolFields  == {"protocol_kind", "address", "uuid", "flow", "reverse_tag",
                    "encryption_mode", "encryption_client_key", "encryption_padding",
                    "wg_peer", "wg_reserved", "wg_mtu", "wg_warp"}
TransportFields == {"network", "http_host", "headers", "xhttp_mode", "obfs_mode", "obfs_keys",
                    "session_keys", "uplink_keys", "hysteria_auth", "hy_quic"}
SecurityFields  == {"security", "server_name", "tls_alpn", "tls_pins", "reality_public_key",
                    "reality_short_id"}
MaskFields      == {"finalmask_kind", "sudoku_tables", "packets_mode", "packets_from",
                    "packets_to", "noise_items", "xmc_profiles"}
MuxFields       == {"mux_enabled"}
Fields == ProtocolFields \cup TransportFields \cup SecurityFields \cup MaskFields \cup MuxFields

FieldType ==
    [protocol_kind |-> Protocols, address |-> {"blank", "host"}, uuid |-> {"blank", "id"},
     flow |-> {"blank", "vision"}, reverse_tag |-> {"blank", "tag"},
     encryption_mode |-> {"none", "mlkem768x25519plus"},
     encryption_client_key |-> {"blank", "key"}, encryption_padding |-> Paddings,
     wg_peer |-> {"blank", "good", "bad"}, wg_reserved |-> {<<>>, <<1>>, <<1, 2, 3>>},
     wg_mtu |-> {Null, 0, 1280}, wg_warp |-> BOOLEAN, network |-> Networks,
     http_host |-> {"blank", "cdn"}, headers |-> SUBSET {"blank", "named"},
     xhttp_mode |-> {"auto", "packet-up"}, obfs_mode |-> BOOLEAN,
     obfs_keys |-> {"blank", "key"}, session_keys |-> {"blank", "key"},
     uplink_keys |-> {"blank", "key"}, hysteria_auth |-> {"blank", "password"},
     hy_quic |-> SUBSET {"tuned", "hop_ports", "hop_interval"}, security |-> Securities,
     server_name |-> {"blank", "host", "cdn", "sni"}, tls_alpn |-> SUBSET {"h1", "h2", "h3"},
     tls_pins |-> SUBSET {"pin"}, reality_public_key |-> {"blank", "key"},
     reality_short_id |-> {"blank", "sid"}, finalmask_kind |-> MaskKinds,
     sudoku_tables |-> SUBSET {"blank", "table"},
     packets_mode |-> {"tlshello", "all", "range"}, packets_from |-> PacketBounds,
     packets_to |-> PacketBounds, noise_items |-> SUBSET NoiseItems,
     xmc_profiles |-> SUBSET XmcProfiles, mux_enabled |-> BOOLEAN]

LEMMA FieldTypes ==
    /\ FieldType.protocol_kind = Protocols
    /\ FieldType.address = {"blank", "host"}
    /\ FieldType.uuid = {"blank", "id"}
    /\ FieldType.flow = {"blank", "vision"}
    /\ FieldType.reverse_tag = {"blank", "tag"}
    /\ FieldType.encryption_mode = {"none", "mlkem768x25519plus"}
    /\ FieldType.encryption_client_key = {"blank", "key"}
    /\ FieldType.encryption_padding = Paddings
    /\ FieldType.wg_peer = {"blank", "good", "bad"}
    /\ FieldType.wg_reserved = {<<>>, <<1>>, <<1, 2, 3>>}
    /\ FieldType.wg_mtu = {Null, 0, 1280}
    /\ FieldType.wg_warp = BOOLEAN
    /\ FieldType.network = Networks
    /\ FieldType.http_host = {"blank", "cdn"}
    /\ FieldType.headers = SUBSET {"blank", "named"}
    /\ FieldType.xhttp_mode = {"auto", "packet-up"}
    /\ FieldType.obfs_mode = BOOLEAN
    /\ FieldType.obfs_keys = {"blank", "key"}
    /\ FieldType.session_keys = {"blank", "key"}
    /\ FieldType.uplink_keys = {"blank", "key"}
    /\ FieldType.hysteria_auth = {"blank", "password"}
    /\ FieldType.hy_quic = SUBSET {"tuned", "hop_ports", "hop_interval"}
    /\ FieldType.security = Securities
    /\ FieldType.server_name = {"blank", "host", "cdn", "sni"}
    /\ FieldType.tls_alpn = SUBSET {"h1", "h2", "h3"}
    /\ FieldType.tls_pins = SUBSET {"pin"}
    /\ FieldType.reality_public_key = {"blank", "key"}
    /\ FieldType.reality_short_id = {"blank", "sid"}
    /\ FieldType.finalmask_kind = MaskKinds
    /\ FieldType.sudoku_tables = SUBSET {"blank", "table"}
    /\ FieldType.packets_mode = {"tlshello", "all", "range"}
    /\ FieldType.packets_from = PacketBounds
    /\ FieldType.packets_to = PacketBounds
    /\ FieldType.noise_items = SUBSET NoiseItems
    /\ FieldType.xmc_profiles = SUBSET XmcProfiles
    /\ FieldType.mux_enabled = BOOLEAN
<1>1. /\ FieldType.protocol_kind = Protocols
      /\ FieldType.address = {"blank", "host"}
      /\ FieldType.uuid = {"blank", "id"}
      /\ FieldType.flow = {"blank", "vision"}
      /\ FieldType.reverse_tag = {"blank", "tag"}
      /\ FieldType.encryption_mode = {"none", "mlkem768x25519plus"}
      /\ FieldType.encryption_client_key = {"blank", "key"}
      /\ FieldType.encryption_padding = Paddings
      /\ FieldType.wg_peer = {"blank", "good", "bad"}
  BY DEF FieldType
<1>2. /\ FieldType.wg_reserved = {<<>>, <<1>>, <<1, 2, 3>>}
      /\ FieldType.wg_mtu = {Null, 0, 1280}
      /\ FieldType.wg_warp = BOOLEAN
      /\ FieldType.network = Networks
      /\ FieldType.http_host = {"blank", "cdn"}
      /\ FieldType.headers = SUBSET {"blank", "named"}
      /\ FieldType.xhttp_mode = {"auto", "packet-up"}
      /\ FieldType.obfs_mode = BOOLEAN
      /\ FieldType.obfs_keys = {"blank", "key"}
  BY DEF FieldType
<1>3. /\ FieldType.session_keys = {"blank", "key"}
      /\ FieldType.uplink_keys = {"blank", "key"}
      /\ FieldType.hysteria_auth = {"blank", "password"}
      /\ FieldType.hy_quic = SUBSET {"tuned", "hop_ports", "hop_interval"}
      /\ FieldType.security = Securities
      /\ FieldType.server_name = {"blank", "host", "cdn", "sni"}
      /\ FieldType.tls_alpn = SUBSET {"h1", "h2", "h3"}
      /\ FieldType.tls_pins = SUBSET {"pin"}
      /\ FieldType.reality_public_key = {"blank", "key"}
  BY DEF FieldType
<1>4. /\ FieldType.reality_short_id = {"blank", "sid"}
      /\ FieldType.finalmask_kind = MaskKinds
      /\ FieldType.sudoku_tables = SUBSET {"blank", "table"}
      /\ FieldType.packets_mode = {"tlshello", "all", "range"}
      /\ FieldType.packets_from = PacketBounds
      /\ FieldType.packets_to = PacketBounds
      /\ FieldType.noise_items = SUBSET NoiseItems
      /\ FieldType.xmc_profiles = SUBSET XmcProfiles
      /\ FieldType.mux_enabled = BOOLEAN
  BY DEF FieldType
<1> QED
  BY <1>1, <1>2, <1>3, <1>4

LEMMA FormHas ==
    ASSUME NEW v \in OutboundFormValues
    PROVE  /\ DOMAIN v = Fields /\ v = [f \in Fields |-> v[f]]
           /\ \A f \in Fields : v[f] \in FieldType[f]
<1>1. DOMAIN v = Fields /\ v = [f \in Fields |-> v[f]]
  BY DEF OutboundFormValues, Fields, ProtocolFields, TransportFields, SecurityFields, MaskFields, MuxFields
<1>2. \A f \in Fields : v[f] \in FieldType[f]
  BY DEF OutboundFormValues, Fields, ProtocolFields, TransportFields, SecurityFields, MaskFields, MuxFields, FieldType
<1> QED
  BY <1>1, <1>2

LEMMA FormIs ==
    ASSUME NEW v, DOMAIN v = Fields, v = [f \in Fields |-> v[f]],
           \A f \in Fields : v[f] \in FieldType[f]
    PROVE  v \in OutboundFormValues
<1>1. /\ v.protocol_kind \in Protocols
      /\ v.address \in {"blank", "host"}
      /\ v.uuid \in {"blank", "id"}
      /\ v.flow \in {"blank", "vision"}
      /\ v.reverse_tag \in {"blank", "tag"}
      /\ v.encryption_mode \in {"none", "mlkem768x25519plus"}
      /\ v.encryption_client_key \in {"blank", "key"}
      /\ v.encryption_padding \in Paddings
      /\ v.wg_peer \in {"blank", "good", "bad"}
      /\ v.wg_reserved \in {<<>>, <<1>>, <<1, 2, 3>>}
      /\ v.wg_mtu \in {Null, 0, 1280}
      /\ v.wg_warp \in BOOLEAN
  <2>1. \A f \in ProtocolFields : v[f] \in FieldType[f]
    BY DEF Fields
  <2> QED
    BY <2>1 DEF ProtocolFields, FieldType
<1>2. /\ v.network \in Networks
      /\ v.http_host \in {"blank", "cdn"}
      /\ v.headers \in SUBSET {"blank", "named"}
      /\ v.xhttp_mode \in {"auto", "packet-up"}
      /\ v.obfs_mode \in BOOLEAN
      /\ v.obfs_keys \in {"blank", "key"}
      /\ v.session_keys \in {"blank", "key"}
      /\ v.uplink_keys \in {"blank", "key"}
      /\ v.hysteria_auth \in {"blank", "password"}
      /\ v.hy_quic \in SUBSET {"tuned", "hop_ports", "hop_interval"}
  <2>1. \A f \in TransportFields : v[f] \in FieldType[f]
    BY DEF Fields
  <2> QED
    BY <2>1 DEF TransportFields, FieldType
<1>3. /\ v.security \in Securities
      /\ v.server_name \in {"blank", "host", "cdn", "sni"}
      /\ v.tls_alpn \in SUBSET {"h1", "h2", "h3"}
      /\ v.tls_pins \in SUBSET {"pin"}
      /\ v.reality_public_key \in {"blank", "key"}
      /\ v.reality_short_id \in {"blank", "sid"}
  <2>1. \A f \in SecurityFields : v[f] \in FieldType[f]
    BY DEF Fields
  <2> QED
    BY <2>1 DEF SecurityFields, FieldType
<1>4. /\ v.finalmask_kind \in MaskKinds
      /\ v.sudoku_tables \in SUBSET {"blank", "table"}
      /\ v.packets_mode \in {"tlshello", "all", "range"}
      /\ v.packets_from \in PacketBounds
      /\ v.packets_to \in PacketBounds
      /\ v.noise_items \in SUBSET NoiseItems
      /\ v.xmc_profiles \in SUBSET XmcProfiles
  <2>1. \A f \in MaskFields : v[f] \in FieldType[f]
    BY DEF Fields
  <2> QED
    BY <2>1 DEF MaskFields, FieldType
<1>5. /\ v.mux_enabled \in BOOLEAN
  <2>1. \A f \in MuxFields : v[f] \in FieldType[f]
    BY DEF Fields
  <2> QED
    BY <2>1 DEF MuxFields, FieldType
<1>6. v = [protocol_kind |-> v.protocol_kind, address |-> v.address, uuid |-> v.uuid, flow |-> v.flow,
            reverse_tag |-> v.reverse_tag, encryption_mode |-> v.encryption_mode,
            encryption_client_key |-> v.encryption_client_key,
            encryption_padding |-> v.encryption_padding, wg_peer |-> v.wg_peer,
            wg_reserved |-> v.wg_reserved, wg_mtu |-> v.wg_mtu, wg_warp |-> v.wg_warp,
            network |-> v.network, http_host |-> v.http_host, headers |-> v.headers,
            xhttp_mode |-> v.xhttp_mode, obfs_mode |-> v.obfs_mode, obfs_keys |-> v.obfs_keys,
            session_keys |-> v.session_keys, uplink_keys |-> v.uplink_keys,
            hysteria_auth |-> v.hysteria_auth, hy_quic |-> v.hy_quic, security |-> v.security,
            server_name |-> v.server_name, tls_alpn |-> v.tls_alpn, tls_pins |-> v.tls_pins,
            reality_public_key |-> v.reality_public_key,
            reality_short_id |-> v.reality_short_id, finalmask_kind |-> v.finalmask_kind,
            sudoku_tables |-> v.sudoku_tables, packets_mode |-> v.packets_mode,
            packets_from |-> v.packets_from, packets_to |-> v.packets_to,
            noise_items |-> v.noise_items, xmc_profiles |-> v.xmc_profiles,
            mux_enabled |-> v.mux_enabled]
  BY DEF Fields, ProtocolFields, TransportFields, SecurityFields, MaskFields, MuxFields
<1> QED
  BY <1>1, <1>2, <1>3, <1>4, <1>5, <1>6 DEF OutboundFormValues

\* w is the store v but for the fields of F.
Changed(w, v, F) ==
    /\ DOMAIN w = Fields /\ w = [f \in Fields |-> w[f]]
    /\ \A f \in Fields : f \notin F => w[f] = v[f]

LEMMA ChangedIsTyped ==
    ASSUME NEW v \in OutboundFormValues, NEW w, NEW F, Changed(w, v, F),
           \A f \in F : w[f] \in FieldType[f]
    PROVE  w \in OutboundFormValues
<1>1. \A f \in Fields : w[f] \in FieldType[f]
  BY FormHas DEF Changed
<1> QED
  BY <1>1, FormIs DEF Changed

LEMMA ChangedMore ==
    ASSUME NEW v, NEW w, NEW F, NEW G, Changed(w, v, F), F \subseteq G
    PROVE  Changed(w, v, G)
  BY DEF Changed

LEMMA ChangedTwice ==
    ASSUME NEW u, NEW v, NEW w, NEW F, NEW G, Changed(v, u, F), Changed(w, v, G)
    PROVE  Changed(w, u, F \cup G)
  BY DEF Changed

LEMMA OneField ==
    ASSUME NEW v \in OutboundFormValues, NEW f \in Fields, NEW x \in FieldType[f]
    PROVE  LET w == [v EXCEPT ![f] = x]
           IN w \in OutboundFormValues /\ Changed(w, v, {f}) /\ w[f] = x
<1> DEFINE w == [v EXCEPT ![f] = x]
<1>1. DOMAIN v = Fields
  BY FormHas
<1>2. Changed(w, v, {f}) /\ w[f] = x
  BY <1>1 DEF Changed
<1> HIDE DEF w
<1>3. \A g \in {f} : w[g] \in FieldType[g]
  BY <1>2
<1> DEFINE F == {f}
<1>4. Changed(w, v, F) /\ \A g \in F : w[g] \in FieldType[g]
  BY <1>2, <1>3
<1> HIDE DEF F
<1>5. w \in OutboundFormValues
  BY <1>4, ChangedIsTyped
<1> QED
  BY <1>2, <1>5 DEF w

\* Some fields with the values they are to have.
Patch(g) == DOMAIN g \subseteq Fields /\ \A f \in DOMAIN g : g[f] \in FieldType[f]

LEMMA OverlayHas ==
    ASSUME NEW f, NEW g
    PROVE  /\ DOMAIN Overlay(f, g) = (DOMAIN f) \cup (DOMAIN g)
           /\ \A x \in DOMAIN f : Overlay(f, g)[x] = f[x]
           /\ \A x \in (DOMAIN g) \ (DOMAIN f) : Overlay(f, g)[x] = g[x]
           /\ Overlay(f, g) = [x \in DOMAIN Overlay(f, g) |-> Overlay(f, g)[x]]
  BY DEF Overlay

LEMMA OverlaidPatches ==
    ASSUME NEW f, NEW g, Patch(f), Patch(g)
    PROVE  Patch(Overlay(f, g))
<1> DEFINE o == Overlay(f, g)
<1>1. /\ DOMAIN o = (DOMAIN f) \cup (DOMAIN g)
      /\ \A x \in DOMAIN f : o[x] = f[x]
      /\ \A x \in (DOMAIN g) \ (DOMAIN f) : o[x] = g[x]
      /\ o = [x \in DOMAIN o |-> o[x]]
  BY OverlayHas
<1> HIDE DEF o
<1>2. Patch(o)
  BY <1>1 DEF Patch
<1> QED
  BY <1>2 DEF o

LEMMA PatchedIsTyped ==
    ASSUME NEW g, Patch(g), NEW v \in OutboundFormValues
    PROVE  Overlay(g, v) \in OutboundFormValues /\ Changed(Overlay(g, v), v, DOMAIN g)
<1> DEFINE o == Overlay(g, v)
<1>1. DOMAIN v = Fields
  BY FormHas
<1>2. /\ DOMAIN o = (DOMAIN g) \cup (DOMAIN v)
      /\ \A x \in DOMAIN g : o[x] = g[x]
      /\ \A x \in (DOMAIN v) \ (DOMAIN g) : o[x] = v[x]
      /\ o = [x \in DOMAIN o |-> o[x]]
  BY OverlayHas
<1> HIDE DEF o
<1>3. DOMAIN o = Fields /\ \A f \in DOMAIN g : o[f] \in FieldType[f]
  BY <1>1, <1>2 DEF Patch
<1>4. Changed(o, v, DOMAIN g)
  BY <1>1, <1>2, <1>3 DEF Changed
<1>5. o \in OutboundFormValues
  BY <1>3, <1>4, ChangedIsTyped
<1> QED
  BY <1>4, <1>5 DEF o

LEMMA DefaultsTyped == OUTBOUND_DEFAULTS \in OutboundFormValues
<1>1. (DOMAIN FieldDefaults) \cup (DOMAIN MaskDefaults) = Fields
  BY DEF FieldDefaults, MaskDefaults, Fields, ProtocolFields, TransportFields, SecurityFields,
         MaskFields, MuxFields
<1>2. \A f \in DOMAIN FieldDefaults : FieldDefaults[f] \in FieldType[f]
  <2> DEFINE F == FieldDefaults
             T == FieldType
  <2>1. /\ F.protocol_kind \in T.protocol_kind /\ F.address \in T.address /\ F.uuid \in T.uuid
        /\ F.flow \in T.flow /\ F.reverse_tag \in T.reverse_tag
        /\ F.encryption_mode \in T.encryption_mode
        /\ F.encryption_client_key \in T.encryption_client_key
        /\ F.encryption_padding \in T.encryption_padding
        /\ F.hysteria_auth \in T.hysteria_auth /\ F.hy_quic \in T.hy_quic
    BY FieldTypes DEF FieldDefaults, Protocols, Paddings
  <2>2. /\ F.network \in T.network /\ F.http_host \in T.http_host /\ F.headers \in T.headers
        /\ F.xhttp_mode \in T.xhttp_mode /\ F.obfs_mode \in T.obfs_mode
        /\ F.obfs_keys \in T.obfs_keys /\ F.session_keys \in T.session_keys
        /\ F.uplink_keys \in T.uplink_keys
    BY FieldTypes DEF FieldDefaults, Networks
  <2>3. /\ F.security \in T.security /\ F.server_name \in T.server_name
        /\ F.tls_alpn \in T.tls_alpn /\ F.tls_pins \in T.tls_pins
        /\ F.reality_public_key \in T.reality_public_key
        /\ F.reality_short_id \in T.reality_short_id /\ F.mux_enabled \in T.mux_enabled
        /\ F.wg_peer \in T.wg_peer /\ F.wg_reserved \in T.wg_reserved
        /\ F.wg_mtu \in T.wg_mtu /\ F.wg_warp \in T.wg_warp
    BY FieldTypes DEF FieldDefaults, Securities
  <2>4. DOMAIN F = {"protocol_kind", "address", "uuid", "flow", "reverse_tag", "encryption_mode",
                    "encryption_client_key", "encryption_padding", "hysteria_auth", "hy_quic",
                    "network", "http_host", "headers", "xhttp_mode", "obfs_mode", "obfs_keys",
                    "session_keys", "uplink_keys", "security", "server_name", "tls_alpn",
                    "tls_pins", "reality_public_key", "reality_short_id", "mux_enabled",
                    "wg_peer", "wg_reserved", "wg_mtu", "wg_warp"}
    BY DEF FieldDefaults
  <2> HIDE DEF F, T
  <2> QED
    BY <2>1, <2>2, <2>3, <2>4 DEF F, T
<1>3. \A f \in DOMAIN MaskDefaults : MaskDefaults[f] \in FieldType[f]
  BY FieldTypes DEF MaskDefaults, MaskKinds, PacketBounds, NoiseItems, XmcProfiles
<1> DEFINE F == FieldDefaults
           M == MaskDefaults
           D == Overlay(F, M)
<1>4. /\ DOMAIN D = (DOMAIN F) \cup (DOMAIN M)
      /\ \A x \in DOMAIN F : D[x] = F[x]
      /\ \A x \in (DOMAIN M) \ (DOMAIN F) : D[x] = M[x]
      /\ D = [x \in DOMAIN D |-> D[x]]
  BY OverlayHas
<1> HIDE DEF D
<1>5. DOMAIN D = Fields
  BY <1>1, <1>4
<1>6. \A f \in Fields : D[f] \in FieldType[f]
  BY <1>1, <1>2, <1>3, <1>4, <1>5
<1>7. D \in OutboundFormValues
  BY <1>4, <1>5, <1>6, FormIs
<1> QED
  BY <1>7 DEF D, OUTBOUND_DEFAULTS

\* What the defaults hold, where a later argument looks.
LEMMA DefaultsHold ==
    LET D == OUTBOUND_DEFAULTS
    IN /\ D.protocol_kind = "vless" /\ D.address = "blank" /\ D.finalmask_kind = "none"
       /\ D.network = "tcp" /\ D.security = "reality" /\ D.http_host = "blank"
       /\ D.reverse_tag = "blank" /\ D.wg_peer = "blank" /\ D.wg_reserved = <<>>
       /\ D.tls_pins = {} /\ D.headers = {}
       /\ D.sudoku_tables = {} /\ D.noise_items = {"random"}
<1> DEFINE F == FieldDefaults
           M == MaskDefaults
           D == Overlay(F, M)
<1>1. /\ DOMAIN D = (DOMAIN F) \cup (DOMAIN M)
      /\ \A x \in DOMAIN F : D[x] = F[x]
      /\ \A x \in (DOMAIN M) \ (DOMAIN F) : D[x] = M[x]
      /\ D = [x \in DOMAIN D |-> D[x]]
  BY OverlayHas
<1>2. /\ {"protocol_kind", "address", "network", "security", "http_host", "reverse_tag",
          "wg_peer", "wg_reserved", "tls_pins", "headers"} \subseteq DOMAIN F
      /\ {"finalmask_kind", "sudoku_tables", "noise_items"} \subseteq (DOMAIN M) \ (DOMAIN F)
  BY DEF FieldDefaults, MaskDefaults
<1> HIDE DEF D, F, M
<1>3. /\ D.protocol_kind = F.protocol_kind /\ D.address = F.address /\ D.network = F.network
      /\ D.security = F.security /\ D.http_host = F.http_host /\ D.reverse_tag = F.reverse_tag
      /\ D.wg_peer = F.wg_peer /\ D.wg_reserved = F.wg_reserved /\ D.tls_pins = F.tls_pins
      /\ D.headers = F.headers
      /\ D.finalmask_kind = M.finalmask_kind /\ D.sudoku_tables = M.sudoku_tables
      /\ D.noise_items = M.noise_items
  BY <1>1, <1>2
<1>4. /\ F.protocol_kind = "vless" /\ F.address = "blank" /\ F.network = "tcp"
      /\ F.security = "reality" /\ F.http_host = "blank" /\ F.reverse_tag = "blank"
      /\ F.wg_peer = "blank" /\ F.wg_reserved = <<>> /\ F.tls_pins = {} /\ F.headers = {}
      /\ M.finalmask_kind = "none" /\ M.sudoku_tables = {} /\ M.noise_items = {"random"}
  BY DEF F, M, FieldDefaults, MaskDefaults
<1> QED
  BY <1>3, <1>4 DEF D, F, M, OUTBOUND_DEFAULTS
-----------------------------------------------------------------------------
(* What a stored outbound can hold, the form's rows and other clients'.    *)

Names == {"blank", "host", "cdn", "sni"}

HopType == {{}} \cup {{h} : h \in [interval : BOOLEAN]}

QuicType ==
    {{}} \cup {{q} : q \in {x \in [congestion : {"none", "brutal", "force-brutal"}, udp_hop : HopType] :
                               x.congestion # "none" \/ x.udp_hop # {}}}

EncType == {{}} \cup {{e} : e \in [key : {"blank", "key"}, padding : Paddings]}

ProtocolType ==
    [kind : {"hysteria"}, address : {"blank", "host"}]
    \cup [kind : {"vless"}, address : {"blank", "host"}, id : {"blank", "id"},
          flow : {"blank", "vision"}, reverse_tag : {"blank", "tag"}, enc : EncType]
    \cup [kind : {"wireguard"}, peer : {"blank", "good", "bad"},
          reserved : {<<>>, <<1>>, <<1, 2, 3>>}, mtu : {0, 1280}, warp : BOOLEAN]

TransportType ==
    [kind : {"tcp"}]
    \cup [kind : {"ws"}, host : {"blank", "cdn"}, headers : SUBSET {"named"}, rest : {"blank", "set"}]
    \cup [kind : {"xhttp"}, host : {"blank", "cdn"}, headers : SUBSET {"named"},
          mode : {"auto", "packet-up"}, obfs : BOOLEAN, obfs_keys : {"blank", "key"},
          session : {"blank", "key"}, uplink : {"blank", "key"}, rest : {"blank", "set"}]
    \cup [kind : {"hysteria"}, auth : {"blank", "password"}, quic : QuicType, rest : {"blank", "set"}]

TlsType ==
    [kind : {"tls"}, server_name : Names,
     alpn : {{}} \cup {{a} : a \in (SUBSET {"h1", "h2", "h3"}) \ {{}}}, pins : SUBSET {"pin"},
     rest : {"blank", "set"}]

SecurityType ==
    [kind : {"none"}] \cup TlsType
    \cup [kind : {"reality"}, server_names : Seq(Names), public_key : {"blank", "key"},
          short_ids : Seq({"blank", "sid"})]

FragmentType == [kind : {"fragment"}, packets : PacketBounds \X PacketBounds, max_split : {Null, 1}]
NoiseType    == [kind : {"noise"}, items : SUBSET {"blank", "literal", "random"}, reset : {Null, 1}]

MaskType ==
    [kind : {"none", "salamander"}]
    \cup [kind : {"sudoku"}, custom_table : SUBSET {"table"}, custom_tables : SUBSET {"table"}]
    \cup FragmentType \cup NoiseType
    \cup [kind : {"xmc"}, profiles : SUBSET {"resolved", "renamed"}]

\* A tunnel has no transport, security or mask of its own.
RowType ==
    {b \in [protocol : ProtocolType, transport : TransportType, security : SecurityType,
            finalmask : MaskType, mux : BOOLEAN] :
        /\ b.protocol.kind = "hysteria" <=> b.transport.kind = "hysteria"
        /\ b.protocol.kind = "wireguard" =>
              b.transport.kind = "tcp" /\ b.security.kind = "none" /\ b.finalmask.kind = "none"}

LEMMA QuicIsTyped == ASSUME NEW v PROVE BuildHyQuic(v) \in QuicType
<1> DEFINE tuned == "tuned" \in v.hy_quic
           ports == "hop_ports" \in v.hy_quic
           interval == "hop_interval" \in v.hy_quic
           hop == Opt(ports, [interval |-> interval])
           cong == IF tuned THEN "brutal" ELSE "none"
<1>1. tuned \in BOOLEAN /\ ports \in BOOLEAN /\ interval \in BOOLEAN
  OBVIOUS
<1>2. BuildHyQuic(v) = Opt(cong # "none" \/ hop # {}, [congestion |-> cong, udp_hop |-> hop])
  BY DEF BuildHyQuic
<1>a. cong \in {"none", "brutal", "force-brutal"}
  OBVIOUS
<1> HIDE DEF tuned, ports, interval, cong
<1>3. hop \in HopType
  BY <1>1 DEF Opt, HopType
<1> HIDE DEF hop
<1> QED
  BY <1>a, <1>2, <1>3 DEF Opt, QuicType

LEMMA MaskIsTyped ==
    ASSUME NEW v \in OutboundFormValues
    PROVE  BuildFinalMask(v) \in MaskType /\ BuildFinalMask(v).kind = v.finalmask_kind
<1>0. /\ v.finalmask_kind \in MaskKinds /\ v.sudoku_tables \in SUBSET {"blank", "table"}
      /\ v.packets_mode \in {"tlshello", "all", "range"} /\ v.packets_from \in PacketBounds
      /\ v.packets_to \in PacketBounds /\ v.noise_items \in SUBSET NoiseItems
  BY DEF OutboundFormValues
<1>1. CASE v.finalmask_kind \in {"none", "salamander"}
  BY <1>1 DEF BuildFinalMask, MaskType
<1>2. CASE v.finalmask_kind = "sudoku"
  BY <1>0, <1>2 DEF BuildFinalMask, MaskType
<1>3. CASE v.finalmask_kind = "fragment"
  <2>1. BuildPackets(v) \in PacketBounds \X PacketBounds
    BY <1>0 DEF BuildPackets, PacketBounds
  <2> QED
    BY <1>3, <2>1 DEF BuildFinalMask, MaskType, FragmentType
<1>4. CASE v.finalmask_kind = "noise"
  <2> DEFINE items == {BuildNoiseItem(i) : i \in v.noise_items}
  <2>1. items \in SUBSET {"blank", "literal", "random"}
    BY <1>0 DEF BuildNoiseItem, NoiseItems
  <2>2. BuildFinalMask(v) = [kind |-> "noise", items |-> items, reset |-> Null]
    BY <1>4 DEF BuildFinalMask
  <2> HIDE DEF items
  <2> QED
    BY <1>4, <2>1, <2>2 DEF MaskType, NoiseType
<1>5. CASE v.finalmask_kind = "xmc"
  BY <1>5 DEF BuildFinalMask, MaskType
<1> QED
  BY <1>0, <1>1, <1>2, <1>3, <1>4, <1>5 DEF MaskKinds

\* Building gives typed layers, and says which kinds they have.
LEMMA BuiltIsTyped ==
    ASSUME NEW v \in OutboundFormValues
    PROVE  LET ob == FormToOutbound(v)
           IN /\ ob \in RowType
              /\ ob.protocol = BuildProtocol(v) /\ ob.protocol.kind = v.protocol_kind
              /\ ob.transport = BuildTransport(v)
              /\ ob.transport.kind = CASE v.protocol_kind = "wireguard" -> "tcp"
                                       [] v.protocol_kind = "hysteria" -> "hysteria"
                                       [] v.protocol_kind = "vless" -> v.network
              /\ ob.security = BuildSecurity(v)
              /\ ob.security.kind = IF v.protocol_kind = "wireguard" THEN "none" ELSE v.security
              /\ ob.finalmask = IF v.protocol_kind = "wireguard" THEN [kind |-> "none"]
                                ELSE BuildFinalMask(v)
              /\ ob.mux = (v.protocol_kind # "wireguard" /\ v.mux_enabled)
<1>0. /\ v.protocol_kind \in Protocols /\ v.network \in Networks /\ v.security \in Securities
      /\ v.mux_enabled \in BOOLEAN
  BY DEF OutboundFormValues
<1>1. BuildProtocol(v) \in ProtocolType /\ BuildProtocol(v).kind = v.protocol_kind
  <2>1. CASE v.protocol_kind = "hysteria"
    BY <2>1 DEF BuildProtocol, ProtocolType, OutboundFormValues
  <2>2. CASE v.protocol_kind = "wireguard"
    <3>1. OrZero(v.wg_mtu) \in {0, 1280} /\ WarpCarried(v) \in BOOLEAN
      BY DEF OrZero, Null, WarpCarried, OutboundFormValues
    <3> QED
      BY <2>2, <3>1 DEF BuildProtocol, ProtocolType, OutboundFormValues
  <2>3. CASE v.protocol_kind = "vless"
    <3> DEFINE e == [key |-> v.encryption_client_key, padding |-> v.encryption_padding]
               enc == Opt(v.encryption_mode # "none", e)
    <3>1. enc \in EncType
      BY DEF Opt, EncType, OutboundFormValues
    <3>2. BuildProtocol(v) = [kind |-> "vless", address |-> v.address, id |-> v.uuid, flow |-> v.flow,
                              reverse_tag |-> v.reverse_tag, enc |-> enc]
      BY <2>3 DEF BuildProtocol
    <3> HIDE DEF enc
    <3> QED
      BY <2>3, <3>1, <3>2 DEF ProtocolType, OutboundFormValues
  <2> QED
    BY <1>0, <2>1, <2>2, <2>3 DEF Protocols
<1>2. /\ BuildTransport(v) \in TransportType
      /\ BuildTransport(v).kind = CASE v.protocol_kind = "wireguard" -> "tcp"
                                    [] v.protocol_kind = "hysteria" -> "hysteria"
                                    [] v.protocol_kind = "vless" -> v.network
  <2>1. CASE v.protocol_kind = "wireguard"
    BY <2>1 DEF BuildTransport, TransportType
  <2>2. CASE v.protocol_kind = "hysteria"
    BY <2>2, QuicIsTyped DEF BuildTransport, TransportType, OutboundFormValues
  <2>3. CASE v.protocol_kind = "vless" /\ v.network = "tcp"
    BY <2>3 DEF BuildTransport, TransportType
  <2>4. CASE v.protocol_kind = "vless" /\ v.network = "ws"
    BY <2>4 DEF BuildTransport, TransportType, OutboundFormValues
  <2>5. CASE v.protocol_kind = "vless" /\ v.network = "xhttp"
    BY <2>5 DEF BuildTransport, TransportType, OutboundFormValues
  <2> QED
    BY <1>0, <2>1, <2>2, <2>3, <2>4, <2>5 DEF Protocols, Networks
<1>3. /\ BuildSecurity(v) \in SecurityType
      /\ BuildSecurity(v).kind = IF v.protocol_kind = "wireguard" THEN "none" ELSE v.security
  <2>1. CASE v.protocol_kind = "wireguard" \/ v.security = "none"
    BY <2>1 DEF BuildSecurity, SecurityType
  <2>2. CASE v.protocol_kind # "wireguard" /\ v.security = "tls"
    <3>1. Opt(v.tls_alpn # {}, v.tls_alpn) \in {{}} \cup {{a} : a \in (SUBSET {"h1", "h2", "h3"}) \ {{}}}
      BY DEF Opt, OutboundFormValues
    <3> QED
      BY <2>2, <3>1 DEF BuildSecurity, SecurityType, TlsType, Names, OutboundFormValues
  <2>3. CASE v.protocol_kind # "wireguard" /\ v.security = "reality"
    <3>1. <<v.server_name>> \in Seq(Names) /\ <<v.reality_short_id>> \in Seq({"blank", "sid"})
      BY DEF Names, OutboundFormValues
    <3> QED
      BY <2>3, <3>1 DEF BuildSecurity, SecurityType, OutboundFormValues
  <2> QED
    BY <1>0, <2>1, <2>2, <2>3 DEF Securities
<1>4. BuildFinalMask(v) \in MaskType /\ [kind |-> "none"] \in MaskType
  BY MaskIsTyped DEF MaskType
<1>5. "hysteria" \notin Networks
  BY DEF Networks
<1> QED
  BY <1>0, <1>1, <1>2, <1>3, <1>4, <1>5 DEF FormToOutbound, RowType, Protocols
-----------------------------------------------------------------------------
(* Hydrating a layer and building it back.                                 *)

LEMMA ProtocolSurvives ==
    ASSUME NEW v \in OutboundFormValues, NEW x \in ProtocolType
    PROVE  LET w == HydrateProtocol(v, x)
           IN /\ w \in OutboundFormValues /\ Changed(w, v, ProtocolFields)
              /\ w.protocol_kind = x.kind /\ BuildProtocol(w) = x
              /\ x.kind # "wireguard" => w.wg_peer = v.wg_peer /\ w.wg_reserved = v.wg_reserved
              /\ x.kind = "wireguard" => w.wg_peer = x.peer /\ w.wg_reserved = x.reserved
<1> DEFINE w == HydrateProtocol(v, x)
<1>0. DOMAIN v = Fields
  BY FormHas
<1>1. CASE x.kind = "hysteria"
  <2>1. x \in [kind : {"hysteria"}, address : {"blank", "host"}]
    BY <1>1 DEF ProtocolType
  <2> DEFINE F == {"protocol_kind", "address"}
  <2>2. w = [v EXCEPT !.protocol_kind = "hysteria", !.address = x.address]
    BY <1>1 DEF HydrateProtocol
  <2>3. /\ F \subseteq ProtocolFields /\ F \subseteq Fields
        /\ {"wg_peer", "wg_reserved"} \subseteq Fields \ F
    BY DEF ProtocolFields, Fields
  <2> HIDE DEF w
  <2>4. Changed(w, v, F)
    BY <1>0, <2>2, <2>3 DEF Changed
  <2>5. w.protocol_kind = "hysteria" /\ w.address = x.address
    BY <1>0, <2>2, <2>3
  <2>6. \A f \in F : w[f] \in FieldType[f]
    BY <2>1, <2>5, FieldTypes DEF Protocols
  <2>7. w \in OutboundFormValues /\ Changed(w, v, ProtocolFields)
    BY <2>3, <2>4, <2>6, ChangedIsTyped, ChangedMore
  <2>8. BuildProtocol(w) = x
    BY <2>1, <2>5 DEF BuildProtocol
  <2>9. w.wg_peer = v.wg_peer /\ w.wg_reserved = v.wg_reserved
    BY <2>3, <2>4 DEF Changed
  <2> QED
    BY <1>1, <2>5, <2>7, <2>8, <2>9 DEF w
<1>2. CASE x.kind = "wireguard"
  <2>1. x \in [kind : {"wireguard"}, peer : {"blank", "good", "bad"},
               reserved : {<<>>, <<1>>, <<1, 2, 3>>}, mtu : {0, 1280}, warp : BOOLEAN]
    BY <1>2 DEF ProtocolType
  <2> DEFINE F == {"protocol_kind", "wg_peer", "wg_reserved", "wg_mtu", "wg_warp"}
             mtu == IF x.mtu = 0 THEN Null ELSE x.mtu
  <2>2. w = [v EXCEPT !.protocol_kind = "wireguard", !.wg_peer = x.peer, !.wg_reserved = x.reserved,
                      !.wg_mtu = mtu, !.wg_warp = x.warp]
    BY <1>2 DEF HydrateProtocol
  <2>3. F \subseteq ProtocolFields /\ F \subseteq Fields
    BY DEF ProtocolFields, Fields
  <2>a. mtu \in {Null, 1280} /\ OrZero(mtu) = x.mtu
    BY <2>1 DEF OrZero, Null
  <2> HIDE DEF w, mtu
  <2>4. Changed(w, v, F)
    BY <1>0, <2>2, <2>3 DEF Changed
  <2>5. /\ w.protocol_kind = "wireguard" /\ w.wg_peer = x.peer /\ w.wg_reserved = x.reserved
        /\ w.wg_mtu = mtu /\ w.wg_warp = x.warp
    BY <1>0, <2>2, <2>3
  <2>6. \A f \in F : w[f] \in FieldType[f]
    <3>1. /\ w.protocol_kind \in FieldType.protocol_kind /\ w.wg_peer \in FieldType.wg_peer
          /\ w.wg_reserved \in FieldType.wg_reserved
      BY <2>1, <2>5, FieldTypes DEF Protocols
    <3>2. w.wg_mtu \in FieldType.wg_mtu /\ w.wg_warp \in FieldType.wg_warp
      BY <2>1, <2>a, <2>5, FieldTypes
    <3> QED
      BY <3>1, <3>2
  <2>7. w \in OutboundFormValues /\ Changed(w, v, ProtocolFields)
    BY <2>3, <2>4, <2>6, ChangedIsTyped, ChangedMore
  <2>8. BuildProtocol(w) = [kind |-> "wireguard", peer |-> x.peer, reserved |-> x.reserved,
                            mtu |-> x.mtu, warp |-> x.warp]
    BY <2>a, <2>5 DEF BuildProtocol, WarpCarried
  <2>9. BuildProtocol(w) = x
    BY <2>1, <2>8
  <2> QED
    BY <1>2, <2>5, <2>7, <2>9 DEF w
<1>3. CASE x.kind = "vless"
  <2>1. x \in [kind : {"vless"}, address : {"blank", "host"}, id : {"blank", "id"},
               flow : {"blank", "vision"}, reverse_tag : {"blank", "tag"}, enc : EncType]
    BY <1>3 DEF ProtocolType
  <2> DEFINE F == {"protocol_kind", "address", "uuid", "flow", "reverse_tag", "encryption_mode",
                   "encryption_client_key", "encryption_padding"}
             mode == IF x.enc = {} THEN "none" ELSE "mlkem768x25519plus"
             key == IF x.enc = {} THEN "blank" ELSE (CHOOSE e \in x.enc : TRUE).key
             padding == IF x.enc = {} THEN <<>> ELSE (CHOOSE e \in x.enc : TRUE).padding
  <2>2. w = [v EXCEPT !.protocol_kind = "vless", !.address = x.address, !.uuid = x.id,
                      !.flow = x.flow, !.reverse_tag = x.reverse_tag, !.encryption_mode = mode,
                      !.encryption_client_key = key, !.encryption_padding = padding]
    BY <1>3 DEF HydrateProtocol
  <2>3. /\ F \subseteq ProtocolFields /\ F \subseteq Fields
        /\ {"wg_peer", "wg_reserved"} \subseteq Fields \ F
    BY DEF ProtocolFields, Fields
  <2>a. /\ mode \in {"none", "mlkem768x25519plus"} /\ key \in {"blank", "key"} /\ padding \in Paddings
        /\ Opt(mode # "none", [key |-> key, padding |-> padding]) = x.enc
    <3>1. CASE x.enc = {}
      BY <3>1 DEF Opt, Paddings
    <3>2. CASE x.enc # {}
      <4>1. PICK e \in [key : {"blank", "key"}, padding : Paddings] : x.enc = {e}
        BY <2>1, <3>2 DEF EncType
      <4>2. (CHOOSE y \in x.enc : TRUE) = e
        BY <4>1
      <4>3. key = e.key /\ padding = e.padding /\ mode = "mlkem768x25519plus"
        BY <3>2, <4>2
      <4>4. e = [key |-> e.key, padding |-> e.padding]
        BY <4>1
      <4> HIDE DEF key, padding, mode
      <4> QED
        BY <4>1, <4>3, <4>4 DEF Opt
    <3> QED
      BY <3>1, <3>2
  <2> HIDE DEF w, mode, key, padding
  <2>4. Changed(w, v, F)
    BY <1>0, <2>2, <2>3 DEF Changed
  <2>5. /\ w.protocol_kind = "vless" /\ w.address = x.address /\ w.uuid = x.id /\ w.flow = x.flow
        /\ w.reverse_tag = x.reverse_tag /\ w.encryption_mode = mode
        /\ w.encryption_client_key = key /\ w.encryption_padding = padding
    BY <1>0, <2>2, <2>3
  <2>6. \A f \in F : w[f] \in FieldType[f]
    <3>1. /\ w.protocol_kind \in FieldType.protocol_kind /\ w.address \in FieldType.address
          /\ w.uuid \in FieldType.uuid /\ w.flow \in FieldType.flow
          /\ w.reverse_tag \in FieldType.reverse_tag
      BY <2>1, <2>5, FieldTypes DEF Protocols
    <3>2. /\ w.encryption_mode \in FieldType.encryption_mode
          /\ w.encryption_client_key \in FieldType.encryption_client_key
          /\ w.encryption_padding \in FieldType.encryption_padding
      BY <2>a, <2>5, FieldTypes
    <3> QED
      BY <3>1, <3>2
  <2>7. w \in OutboundFormValues /\ Changed(w, v, ProtocolFields)
    BY <2>3, <2>4, <2>6, ChangedIsTyped, ChangedMore
  <2>8. BuildProtocol(w) = [kind |-> "vless", address |-> x.address, id |-> x.id, flow |-> x.flow,
                            reverse_tag |-> x.reverse_tag, enc |-> x.enc]
    BY <2>a, <2>5 DEF BuildProtocol
  <2>9. BuildProtocol(w) = x
    BY <2>1, <2>8
  <2>10. w.wg_peer = v.wg_peer /\ w.wg_reserved = v.wg_reserved
    BY <2>3, <2>4 DEF Changed
  <2> QED
    BY <1>3, <2>5, <2>7, <2>9, <2>10 DEF w
<1> QED
  BY <1>1, <1>2, <1>3 DEF ProtocolType
LEMMA QuicSurvives ==
    ASSUME NEW q \in QuicType, NEW v,
           v.hy_quic = {k \in {"tuned"} : \E u \in q : u.congestion # "none"}
                           \cup {k \in {"hop_ports", "hop_interval"} : \E u \in q :
                                    \E h \in u.udp_hop : k = "hop_interval" => h.interval}
    PROVE  BuildHyQuic(v) = {[u EXCEPT !.congestion = IF @ = "none" THEN @ ELSE "brutal"] : u \in q}
<1>1. CASE q = {}
  <2>1. v.hy_quic = {}
    BY <1>1
  <2> QED
    BY <1>1, <2>1 DEF BuildHyQuic, Opt
<1>2. CASE q # {}
  <2>1. PICK x \in [congestion : {"none", "brutal", "force-brutal"}, udp_hop : HopType] :
            q = {x} /\ (x.congestion # "none" \/ x.udp_hop # {})
    BY <1>2 DEF QuicType
  <2>2. /\ "tuned" \in v.hy_quic <=> x.congestion # "none"
        /\ "hop_ports" \in v.hy_quic <=> x.udp_hop # {}
        /\ "hop_interval" \in v.hy_quic <=> \E h \in x.udp_hop : h.interval
    BY <2>1
  <2> DEFINE cong == IF "tuned" \in v.hy_quic THEN "brutal" ELSE "none"
             interval == "hop_interval" \in v.hy_quic
             hop == Opt("hop_ports" \in v.hy_quic, [interval |-> interval])
  <2>3. hop = x.udp_hop
    <3>1. CASE x.udp_hop = {}
      BY <2>2, <3>1 DEF Opt
    <3>2. CASE x.udp_hop # {}
      <4>1. PICK h \in [interval : BOOLEAN] : x.udp_hop = {h}
        BY <2>1, <3>2 DEF HopType
      <4>2. interval <=> h.interval
        BY <2>2, <4>1
      <4>3. interval \in BOOLEAN
        OBVIOUS
      <4> HIDE DEF interval
      <4>4. [interval |-> interval] = h
        BY <4>1, <4>2, <4>3
      <4>5. hop = {[interval |-> interval]}
        BY <2>2, <3>2 DEF Opt
      <4> QED
        BY <4>1, <4>4, <4>5
    <3> QED
      BY <3>1, <3>2
  <2>4. BuildHyQuic(v) = Opt(cong # "none" \/ hop # {}, [congestion |-> cong, udp_hop |-> hop])
    BY DEF BuildHyQuic
  <2>5. cong = IF x.congestion = "none" THEN "none" ELSE "brutal"
    BY <2>1, <2>2
  <2> HIDE DEF cong, hop
  <2> DEFINE y == [x EXCEPT !.congestion = IF @ = "none" THEN @ ELSE "brutal"]
  <2>6. [congestion |-> cong, udp_hop |-> hop] = y
    BY <2>1, <2>3, <2>5
  <2>7. cong # "none" \/ hop # {}
    BY <2>1, <2>3, <2>5
  <2> QED
    BY <2>1, <2>4, <2>6, <2>7 DEF Opt
<1> QED
  BY <1>1, <1>2

LEMMA TransportSurvives ==
    ASSUME NEW v \in OutboundFormValues, NEW x \in TransportType,
           v.protocol_kind = "hysteria" <=> x.kind = "hysteria",
           v.protocol_kind = "wireguard" => x.kind = "tcp"
    PROVE  LET w == HydrateTransport(v, x)
           IN /\ w \in OutboundFormValues /\ Changed(w, v, TransportFields)
              /\ w.network = NetworkOf(x.kind) /\ BuildTransport(w) = ShownTransport(x)
<1> DEFINE w == HydrateTransport(v, x)
           q == {k \in {"tuned"} : \E u \in x.quic : u.congestion # "none"}
                    \cup {k \in {"hop_ports", "hop_interval"} : \E u \in x.quic :
                             \E h \in u.udp_hop : k = "hop_interval" => h.interval}
<1>0. DOMAIN v = Fields /\ v.protocol_kind \in Protocols
  BY FormHas DEF OutboundFormValues
<1>q. q \in SUBSET {"tuned", "hop_ports", "hop_interval"}
  OBVIOUS
<1>p. "protocol_kind" \in Fields \ TransportFields
  BY DEF Fields, ProtocolFields, TransportFields
<1>1. CASE x.kind = "tcp"
  <2>1. x = [kind |-> "tcp"]
    BY <1>1 DEF TransportType
  <2> DEFINE F == {"network"}
  <2>2. w = [v EXCEPT !.network = "tcp"]
    BY <1>1 DEF HydrateTransport, NetworkOf
  <2>3. F \subseteq TransportFields /\ F \subseteq Fields
    BY DEF TransportFields, Fields
  <2> HIDE DEF w
  <2>4. Changed(w, v, F)
    BY <1>0, <2>2, <2>3 DEF Changed
  <2>5. w.network = "tcp"
    BY <1>0, <2>2, <2>3
  <2>6. \A f \in F : w[f] \in FieldType[f]
    BY <2>5, FieldTypes DEF Networks
  <2>7. w \in OutboundFormValues /\ Changed(w, v, TransportFields)
    BY <2>3, <2>4, <2>6, ChangedIsTyped, ChangedMore
  <2>8. w.protocol_kind = v.protocol_kind
    BY <1>p, <2>7 DEF Changed
  <2>9. BuildTransport(w) = ShownTransport(x)
    BY <1>0, <1>1, <2>1, <2>5, <2>8 DEF BuildTransport, ShownTransport, Protocols
  <2> QED
    BY <1>1, <2>5, <2>7, <2>9 DEF w, NetworkOf
<1>2. CASE x.kind = "ws"
  <2>1. x \in [kind : {"ws"}, host : {"blank", "cdn"}, headers : SUBSET {"named"}, rest : {"blank", "set"}]
    BY <1>2 DEF TransportType
  <2> DEFINE F == {"network", "http_host", "headers"}
  <2>2. w = [v EXCEPT !.network = "ws", !.http_host = x.host, !.headers = x.headers]
    BY <1>2 DEF HydrateTransport, NetworkOf
  <2>3. F \subseteq TransportFields /\ F \subseteq Fields
    BY DEF TransportFields, Fields
  <2> HIDE DEF w
  <2>4. Changed(w, v, F)
    BY <1>0, <2>2, <2>3 DEF Changed
  <2>5. w.network = "ws" /\ w.http_host = x.host /\ w.headers = x.headers
    BY <1>0, <2>2, <2>3
  <2>6. \A f \in F : w[f] \in FieldType[f]
    BY <2>1, <2>5, FieldTypes DEF Networks
  <2>7. w \in OutboundFormValues /\ Changed(w, v, TransportFields)
    BY <2>3, <2>4, <2>6, ChangedIsTyped, ChangedMore
  <2>8. w.protocol_kind = v.protocol_kind
    BY <1>p, <2>7 DEF Changed
  <2>9. w.headers \ {"blank"} = x.headers
    BY <2>1, <2>5
  <2>10. BuildTransport(w) = [kind |-> "ws", host |-> x.host, headers |-> x.headers, rest |-> "blank"]
    BY <1>0, <1>2, <2>5, <2>8, <2>9 DEF BuildTransport, Protocols
  <2>11. BuildTransport(w) = ShownTransport(x)
    BY <1>2, <2>1, <2>10 DEF ShownTransport
  <2> QED
    BY <1>2, <2>5, <2>7, <2>11 DEF w, NetworkOf
<1>3. CASE x.kind = "xhttp"
  <2>1. x \in [kind : {"xhttp"}, host : {"blank", "cdn"}, headers : SUBSET {"named"},
               mode : {"auto", "packet-up"}, obfs : BOOLEAN, obfs_keys : {"blank", "key"},
               session : {"blank", "key"}, uplink : {"blank", "key"}, rest : {"blank", "set"}]
    BY <1>3 DEF TransportType
  <2> DEFINE F == {"network", "http_host", "headers", "xhttp_mode", "obfs_mode", "obfs_keys",
                   "session_keys", "uplink_keys"}
  <2>2. w = [v EXCEPT !.network = "xhttp", !.http_host = x.host, !.headers = x.headers,
                      !.xhttp_mode = x.mode, !.obfs_mode = x.obfs, !.obfs_keys = x.obfs_keys,
                      !.session_keys = x.session, !.uplink_keys = x.uplink]
    BY <1>3 DEF HydrateTransport, NetworkOf
  <2>3. F \subseteq TransportFields /\ F \subseteq Fields
    BY DEF TransportFields, Fields
  <2> HIDE DEF w
  <2>4. Changed(w, v, F)
    BY <1>0, <2>2, <2>3 DEF Changed
  <2>5. /\ w.network = "xhttp" /\ w.http_host = x.host /\ w.headers = x.headers
        /\ w.xhttp_mode = x.mode /\ w.obfs_mode = x.obfs /\ w.obfs_keys = x.obfs_keys
        /\ w.session_keys = x.session /\ w.uplink_keys = x.uplink
    BY <1>0, <2>2, <2>3
  <2>6. \A f \in F : w[f] \in FieldType[f]
    <3>1. /\ w.network \in FieldType.network /\ w.http_host \in FieldType.http_host
          /\ w.headers \in FieldType.headers /\ w.xhttp_mode \in FieldType.xhttp_mode
      BY <2>1, <2>5, FieldTypes DEF Networks
    <3>2. /\ w.obfs_mode \in FieldType.obfs_mode /\ w.obfs_keys \in FieldType.obfs_keys
          /\ w.session_keys \in FieldType.session_keys /\ w.uplink_keys \in FieldType.uplink_keys
      BY <2>1, <2>5, FieldTypes
    <3> QED
      BY <3>1, <3>2
  <2>7. w \in OutboundFormValues /\ Changed(w, v, TransportFields)
    BY <2>3, <2>4, <2>6, ChangedIsTyped, ChangedMore
  <2>8. w.protocol_kind = v.protocol_kind
    BY <1>p, <2>7 DEF Changed
  <2>9. w.headers \ {"blank"} = x.headers
    BY <2>1, <2>5
  <2>10. BuildTransport(w) = [kind |-> "xhttp", host |-> x.host, headers |-> x.headers,
                              mode |-> x.mode, obfs |-> x.obfs, obfs_keys |-> x.obfs_keys,
                              session |-> x.session, uplink |-> x.uplink, rest |-> "blank"]
    BY <1>0, <1>3, <2>5, <2>8, <2>9 DEF BuildTransport, Protocols
  <2>11. BuildTransport(w) = ShownTransport(x)
    BY <1>3, <2>1, <2>10 DEF ShownTransport
  <2> QED
    BY <1>3, <2>5, <2>7, <2>11 DEF w, NetworkOf
<1>4. CASE x.kind = "hysteria"
  <2>1. x \in [kind : {"hysteria"}, auth : {"blank", "password"}, quic : QuicType, rest : {"blank", "set"}]
    BY <1>4 DEF TransportType
  <2> DEFINE F == {"network", "hysteria_auth", "hy_quic"}
  <2>2. w = [v EXCEPT !.network = "tcp", !.hysteria_auth = x.auth, !.hy_quic = q]
    BY <1>4 DEF HydrateTransport, NetworkOf
  <2>3. F \subseteq TransportFields /\ F \subseteq Fields
    BY DEF TransportFields, Fields
  <2> HIDE DEF w, q
  <2>4. Changed(w, v, F)
    BY <1>0, <2>2, <2>3 DEF Changed
  <2>5. w.network = "tcp" /\ w.hysteria_auth = x.auth /\ w.hy_quic = q
    BY <1>0, <2>2, <2>3
  <2>6. \A f \in F : w[f] \in FieldType[f]
    <3>1. w.network \in FieldType.network /\ w.hysteria_auth \in FieldType.hysteria_auth
      BY <2>1, <2>5, FieldTypes DEF Networks
    <3>2. w.hy_quic \in FieldType.hy_quic
      BY <1>q, <2>5, FieldTypes
    <3> QED
      BY <3>1, <3>2
  <2>7. w \in OutboundFormValues /\ Changed(w, v, TransportFields)
    BY <2>3, <2>4, <2>6, ChangedIsTyped, ChangedMore
  <2>8. w.protocol_kind = v.protocol_kind
    BY <1>p, <2>7 DEF Changed
  <2> DEFINE m == {[u EXCEPT !.congestion = IF @ = "none" THEN @ ELSE "brutal"] : u \in x.quic}
  <2>9. BuildHyQuic(w) = m
    BY <2>1, <2>5, QuicSurvives DEF q
  <2>12. ShownTransport(x) = [x EXCEPT !.rest = "blank", !.quic = m]
    BY <1>4 DEF ShownTransport
  <2> HIDE DEF m
  <2>10. BuildTransport(w) = [kind |-> "hysteria", auth |-> x.auth, quic |-> m, rest |-> "blank"]
    BY <1>4, <2>5, <2>8, <2>9 DEF BuildTransport
  <2>11. BuildTransport(w) = ShownTransport(x)
    BY <2>1, <2>10, <2>12
  <2> QED
    BY <1>4, <2>5, <2>7, <2>11 DEF w, NetworkOf
<1> QED
  BY <1>1, <1>2, <1>3, <1>4 DEF TransportType

\* A client uses the head of a list.
LEMMA HeadIsTyped ==
    ASSUME NEW S, NEW d \in S, NEW s \in Seq(S)
    PROVE  HeadOr(s, d) \in S /\ HeadOr(<<HeadOr(s, d)>>, d) = HeadOr(s, d)
<1>1. ASSUME s # <<>> PROVE s[1] \in S
  <2>1. Len(s) \in Nat /\ Len(s) # 0
    BY <1>1, EmptySeq
  <2> QED
    BY <2>1, ElementOfSeq
<1>2. HeadOr(s, d) \in S
  BY <1>1 DEF HeadOr
<1> QED
  BY <1>2 DEF HeadOr

LEMMA SecuritySurvives ==
    ASSUME NEW v \in OutboundFormValues, NEW x \in SecurityType,
           v.protocol_kind = "wireguard" => x.kind = "none"
    PROVE  LET w == HydrateSecurity(v, x)
               b == BuildSecurity(w)
           IN /\ w \in OutboundFormValues /\ Changed(w, v, SecurityFields) /\ w.security = x.kind
              /\ x.kind = "none" => b = x
              /\ x.kind = "tls" => b = [x EXCEPT !.rest = "blank"]
              /\ x.kind = "reality" =>
                    /\ b.public_key = x.public_key
                    /\ HeadOr(b.server_names, "blank") = HeadOr(x.server_names, "blank")
                    /\ HeadOr(b.short_ids, "blank") = HeadOr(x.short_ids, "blank")
<1> DEFINE w == HydrateSecurity(v, x)
<1>0. DOMAIN v = Fields /\ v.protocol_kind \in Protocols
  BY FormHas DEF OutboundFormValues
<1>p. "protocol_kind" \in Fields \ SecurityFields
  BY DEF Fields, ProtocolFields, SecurityFields
<1>1. CASE x.kind = "none"
  <2>1. x = [kind |-> "none"]
    BY <1>1 DEF SecurityType, TlsType
  <2> DEFINE F == {"security"}
  <2>2. w = [v EXCEPT !.security = "none"]
    BY <1>1 DEF HydrateSecurity
  <2>3. F \subseteq SecurityFields /\ F \subseteq Fields
    BY DEF SecurityFields, Fields
  <2> HIDE DEF w
  <2>4. Changed(w, v, F)
    BY <1>0, <2>2, <2>3 DEF Changed
  <2>5. w.security = "none"
    BY <1>0, <2>2, <2>3
  <2>6. \A f \in F : w[f] \in FieldType[f]
    BY <2>5, FieldTypes DEF Securities
  <2>7. w \in OutboundFormValues /\ Changed(w, v, SecurityFields)
    BY <2>3, <2>4, <2>6, ChangedIsTyped, ChangedMore
  <2>8. BuildSecurity(w) = x
    BY <2>1, <2>5 DEF BuildSecurity
  <2> QED
    BY <1>1, <2>5, <2>7, <2>8 DEF w
<1>2. CASE x.kind = "tls"
  <2>1. x \in [kind : {"tls"}, server_name : Names,
               alpn : {{}} \cup {{a} : a \in (SUBSET {"h1", "h2", "h3"}) \ {{}}}, pins : SUBSET {"pin"},
               rest : {"blank", "set"}]
    BY <1>2 DEF SecurityType, TlsType
  <2> DEFINE F == {"security", "server_name", "tls_alpn", "tls_pins"}
             alpn == UNION x.alpn
  <2>2. w = [v EXCEPT !.security = "tls", !.server_name = x.server_name, !.tls_alpn = alpn,
                      !.tls_pins = x.pins]
    BY <1>2 DEF HydrateSecurity
  <2>3. F \subseteq SecurityFields /\ F \subseteq Fields
    BY DEF SecurityFields, Fields
  <2>a. alpn \in SUBSET {"h1", "h2", "h3"} /\ Opt(alpn # {}, alpn) = x.alpn
    <3>1. CASE x.alpn = {}
      BY <3>1 DEF Opt
    <3>2. CASE x.alpn # {}
      <4>1. PICK a \in (SUBSET {"h1", "h2", "h3"}) \ {{}} : x.alpn = {a}
        BY <2>1, <3>2
      <4>2. alpn = a
        BY <4>1
      <4> QED
        BY <4>1, <4>2 DEF Opt
    <3> QED
      BY <3>1, <3>2
  <2> HIDE DEF w, alpn
  <2>4. Changed(w, v, F)
    BY <1>0, <2>2, <2>3 DEF Changed
  <2>5. w.security = "tls" /\ w.server_name = x.server_name /\ w.tls_alpn = alpn /\ w.tls_pins = x.pins
    BY <1>0, <2>2, <2>3
  <2>6. \A f \in F : w[f] \in FieldType[f]
    <3>1. /\ w.security \in FieldType.security /\ w.server_name \in FieldType.server_name
          /\ w.tls_pins \in FieldType.tls_pins
      BY <2>1, <2>5, FieldTypes DEF Securities, Names
    <3>2. w.tls_alpn \in FieldType.tls_alpn
      BY <2>a, <2>5, FieldTypes
    <3> QED
      BY <3>1, <3>2
  <2>7. w \in OutboundFormValues /\ Changed(w, v, SecurityFields)
    BY <2>3, <2>4, <2>6, ChangedIsTyped, ChangedMore
  <2>8. w.protocol_kind # "wireguard"
    BY <1>2, <1>p, <2>7 DEF Changed
  <2>9. BuildSecurity(w) = [kind |-> "tls", server_name |-> x.server_name, alpn |-> x.alpn,
                            pins |-> x.pins, rest |-> "blank"]
    BY <2>5, <2>8, <2>a DEF BuildSecurity
  <2>10. BuildSecurity(w) = [x EXCEPT !.rest = "blank"]
    BY <2>1, <2>9
  <2> QED
    BY <1>2, <2>5, <2>7, <2>10 DEF w
<1>3. CASE x.kind = "reality"
  <2>1. x \in [kind : {"reality"}, server_names : Seq(Names), public_key : {"blank", "key"},
               short_ids : Seq({"blank", "sid"})]
    BY <1>3 DEF SecurityType, TlsType
  <2> DEFINE F == {"security", "server_name", "reality_public_key", "reality_short_id"}
             name == HeadOr(x.server_names, "blank")
             sid == HeadOr(x.short_ids, "blank")
  <2>2. w = [v EXCEPT !.security = "reality", !.server_name = name,
                      !.reality_public_key = x.public_key, !.reality_short_id = sid]
    BY <1>3 DEF HydrateSecurity
  <2>3. F \subseteq SecurityFields /\ F \subseteq Fields
    BY DEF SecurityFields, Fields
  <2>a. name \in Names /\ HeadOr(<<name>>, "blank") = name
    <3>1. "blank" \in Names /\ x.server_names \in Seq(Names)
      BY <2>1 DEF Names
    <3> QED
      BY <3>1, HeadIsTyped
  <2>b. sid \in {"blank", "sid"} /\ HeadOr(<<sid>>, "blank") = sid
    <3> DEFINE S == {"blank", "sid"}
    <3>1. "blank" \in S /\ x.short_ids \in Seq(S)
      BY <2>1
    <3> HIDE DEF S
    <3>2. sid \in S /\ HeadOr(<<sid>>, "blank") = sid
      BY <3>1, HeadIsTyped
    <3> QED
      BY <3>2 DEF S
  <2> HIDE DEF w, name, sid
  <2>4. Changed(w, v, F)
    BY <1>0, <2>2, <2>3 DEF Changed
  <2>5. /\ w.security = "reality" /\ w.server_name = name /\ w.reality_public_key = x.public_key
        /\ w.reality_short_id = sid
    BY <1>0, <2>2, <2>3
  <2>6. \A f \in F : w[f] \in FieldType[f]
    <3>1. w.security \in FieldType.security /\ w.reality_public_key \in FieldType.reality_public_key
      BY <2>1, <2>5, FieldTypes DEF Securities
    <3>2. w.server_name \in FieldType.server_name /\ w.reality_short_id \in FieldType.reality_short_id
      BY <2>a, <2>b, <2>5, FieldTypes DEF Names
    <3> QED
      BY <3>1, <3>2
  <2>7. w \in OutboundFormValues /\ Changed(w, v, SecurityFields)
    BY <2>3, <2>4, <2>6, ChangedIsTyped, ChangedMore
  <2>8. w.protocol_kind # "wireguard"
    BY <1>3, <1>p, <2>7 DEF Changed
  <2>9. BuildSecurity(w) = [kind |-> "reality", server_names |-> <<name>>,
                            public_key |-> x.public_key, short_ids |-> <<sid>>]
    BY <2>5, <2>8 DEF BuildSecurity
  <2>10. /\ BuildSecurity(w).public_key = x.public_key
         /\ HeadOr(BuildSecurity(w).server_names, "blank") = name
         /\ HeadOr(BuildSecurity(w).short_ids, "blank") = sid
    BY <2>9, <2>a, <2>b
  <2> QED
    BY <1>3, <2>5, <2>7, <2>10 DEF w, name, sid
<1> QED
  BY <1>1, <1>2, <1>3 DEF SecurityType, TlsType
\* A mask with nothing in it is spelled in several ways, and runs as none.
LEMMA MaskSurvives ==
    ASSUME NEW v \in OutboundFormValues, v.finalmask_kind = "none", NEW x \in MaskType
    PROVE  LET w == HydrateFinalMask(v, x)
           IN /\ w \in OutboundFormValues /\ Changed(w, v, MaskFields) /\ w.finalmask_kind = x.kind
              /\ RunningMask(BuildFinalMask(w)) = RunningMask(ShownMask(x))
<1> DEFINE w == HydrateFinalMask(v, x)
<1>0. DOMAIN v = Fields /\ Changed(v, v, MaskFields)
  BY FormHas DEF Changed
<1>s. x.kind \notin {"fragment", "noise"} => ShownMask(x) = x
  BY DEF ShownMask
<1>1. CASE x.kind = "none"
  <2>1. x = [kind |-> "none"]
    BY <1>1 DEF MaskType, FragmentType, NoiseType
  <2>2. w = v
    BY <1>1 DEF HydrateFinalMask
  <2>3. BuildFinalMask(v) = x
    BY <2>1 DEF BuildFinalMask
  <2> QED
    BY <1>0, <1>1, <1>s, <2>2, <2>3
<1>2. CASE x.kind = "salamander"
  <2>1. x = [kind |-> "salamander"]
    BY <1>2 DEF MaskType, FragmentType, NoiseType
  <2> DEFINE F == {"finalmask_kind"}
  <2>2. w = [v EXCEPT !.finalmask_kind = "salamander"]
    BY <1>2 DEF HydrateFinalMask
  <2>3. F \subseteq MaskFields /\ F \subseteq Fields
    BY DEF MaskFields, Fields
  <2> HIDE DEF w
  <2>4. Changed(w, v, F)
    BY <1>0, <2>2, <2>3 DEF Changed
  <2>5. w.finalmask_kind = "salamander"
    BY <1>0, <2>2, <2>3
  <2>6. \A f \in F : w[f] \in FieldType[f]
    BY <2>5, FieldTypes DEF MaskKinds
  <2>7. w \in OutboundFormValues /\ Changed(w, v, MaskFields)
    BY <2>3, <2>4, <2>6, ChangedIsTyped, ChangedMore
  <2>8. BuildFinalMask(w) = x
    BY <2>1, <2>5 DEF BuildFinalMask
  <2> QED
    BY <1>2, <1>s, <2>5, <2>7, <2>8 DEF w
<1>3. CASE x.kind = "sudoku"
  <2>1. x \in [kind : {"sudoku"}, custom_table : SUBSET {"table"}, custom_tables : SUBSET {"table"}]
    BY <1>3 DEF MaskType, FragmentType, NoiseType
  <2> DEFINE F == {"finalmask_kind", "sudoku_tables"}
             tables == IF x.custom_tables # {} THEN x.custom_tables ELSE x.custom_table
  <2>2. w = [v EXCEPT !.finalmask_kind = "sudoku", !.sudoku_tables = tables]
    BY <1>3 DEF HydrateFinalMask
  <2>3. F \subseteq MaskFields /\ F \subseteq Fields
    BY DEF MaskFields, Fields
  <2>a. tables \in SUBSET {"table"} /\ RunningMask(x) = [kind |-> "sudoku", tables |-> tables]
    BY <1>3, <2>1 DEF RunningMask, EffectiveMask
  <2> HIDE DEF w, tables
  <2>4. Changed(w, v, F)
    BY <1>0, <2>2, <2>3 DEF Changed
  <2>5. w.finalmask_kind = "sudoku" /\ w.sudoku_tables = tables
    BY <1>0, <2>2, <2>3
  <2>6. \A f \in F : w[f] \in FieldType[f]
    <3>1. w.finalmask_kind \in FieldType.finalmask_kind
      BY <2>5, FieldTypes DEF MaskKinds
    <3>2. w.sudoku_tables \in FieldType.sudoku_tables
      BY <2>a, <2>5, FieldTypes
    <3> QED
      BY <3>1, <3>2
  <2>7. w \in OutboundFormValues /\ Changed(w, v, MaskFields)
    BY <2>3, <2>4, <2>6, ChangedIsTyped, ChangedMore
  <2>8. w.sudoku_tables \ {"blank"} = tables
    BY <2>a, <2>5
  <2>9. BuildFinalMask(w) = [kind |-> "sudoku", custom_table |-> {}, custom_tables |-> tables]
    BY <2>5, <2>8 DEF BuildFinalMask
  <2>10. RunningMask([kind |-> "sudoku", custom_table |-> {}, custom_tables |-> tables])
             = [kind |-> "sudoku", tables |-> tables]
    BY DEF RunningMask, EffectiveMask
  <2> QED
    BY <1>3, <1>s, <2>5, <2>7, <2>9, <2>10, <2>a DEF w
<1>4. CASE x.kind = "fragment"
  <2>1. x \in [kind : {"fragment"}, packets : PacketBounds \X PacketBounds, max_split : {Null, 1}]
    BY <1>4 DEF MaskType, FragmentType, NoiseType
  <2> DEFINE F == {"finalmask_kind", "packets_mode", "packets_from", "packets_to"}
             from == x.packets[1]
             to == x.packets[2]
             mode == PacketsMode(from, to)
  <2>2. w = [v EXCEPT !.finalmask_kind = "fragment", !.packets_mode = mode,
                      !.packets_from = from, !.packets_to = to]
    BY <1>4 DEF HydrateFinalMask
  <2>3. F \subseteq MaskFields /\ F \subseteq Fields
    BY DEF MaskFields, Fields
  <2>a. from \in PacketBounds /\ to \in PacketBounds
        /\ RunningMask(ShownMask(x))
             = [kind |-> "fragment", from |-> OrZero(from), to |-> OrZero(to), max_split |-> OrZero(Null)]
    <3>1. ShownMask(x) = [kind |-> "fragment", packets |-> x.packets, max_split |-> Null]
      BY <1>4, <2>1 DEF ShownMask
    <3> QED
      BY <2>1, <3>1 DEF RunningMask, EffectiveMask
  <2>b. /\ mode \in {"tlshello", "all", "range"}
        /\ mode = "tlshello" => OrZero(from) = 0 /\ OrZero(to) = 1
        /\ mode = "all" => OrZero(from) = 0 /\ OrZero(to) = 0
    BY DEF PacketsMode
  <2> HIDE DEF w, from, to, mode
  <2>4. Changed(w, v, F)
    BY <1>0, <2>2, <2>3 DEF Changed
  <2>5. /\ w.finalmask_kind = "fragment" /\ w.packets_mode = mode
        /\ w.packets_from = from /\ w.packets_to = to
    BY <1>0, <2>2, <2>3
  <2>6. \A f \in F : w[f] \in FieldType[f]
    <3>1. w.finalmask_kind \in FieldType.finalmask_kind
      BY <2>5, FieldTypes DEF MaskKinds
    <3>2. /\ w.packets_mode \in FieldType.packets_mode /\ w.packets_from \in FieldType.packets_from
          /\ w.packets_to \in FieldType.packets_to
      BY <2>a, <2>b, <2>5, FieldTypes
    <3> QED
      BY <3>1, <3>2
  <2>7. w \in OutboundFormValues /\ Changed(w, v, MaskFields)
    BY <2>3, <2>4, <2>6, ChangedIsTyped, ChangedMore
  <2> DEFINE b == BuildPackets(w)
  <2>8. OrZero(b[1]) = OrZero(from) /\ OrZero(b[2]) = OrZero(to)
    <3>1. CASE mode = "tlshello"
      <4>1. b = <<0, 1>>
        BY <2>5, <3>1 DEF BuildPackets
      <4> QED
        BY <2>b, <3>1, <4>1 DEF OrZero, Null
    <3>2. CASE mode = "all"
      <4>1. b = <<0, 0>>
        BY <2>5, <3>2 DEF BuildPackets
      <4> QED
        BY <2>b, <3>2, <4>1 DEF OrZero, Null
    <3>3. CASE mode = "range"
      BY <2>5, <3>3 DEF BuildPackets
    <3> QED
      BY <2>b, <3>1, <3>2, <3>3
  <2> HIDE DEF b
  <2>9. BuildFinalMask(w) = [kind |-> "fragment", packets |-> b, max_split |-> Null]
    BY <2>5 DEF BuildFinalMask, b
  <2>10. RunningMask([kind |-> "fragment", packets |-> b, max_split |-> Null])
             = [kind |-> "fragment", from |-> OrZero(b[1]), to |-> OrZero(b[2]), max_split |-> OrZero(Null)]
    BY DEF RunningMask, EffectiveMask
  <2> QED
    BY <1>4, <2>5, <2>7, <2>8, <2>9, <2>10, <2>a DEF w
<1>5. CASE x.kind = "noise"
  <2>1. x \in [kind : {"noise"}, items : SUBSET {"blank", "literal", "random"}, reset : {Null, 1}]
    BY <1>5 DEF MaskType, FragmentType, NoiseType
  <2> DEFINE F == {"finalmask_kind", "noise_items"}
             items == IF x.items = {} THEN {"blank"} ELSE x.items
  <2>2. w = [v EXCEPT !.finalmask_kind = "noise", !.noise_items = items]
    BY <1>5, <2>1 DEF HydrateFinalMask
  <2>3. F \subseteq MaskFields /\ F \subseteq Fields
    BY DEF MaskFields, Fields
  <2>a. /\ items \in SUBSET {"blank", "literal", "random"}
        /\ items \subseteq {"blank"} <=> x.items \subseteq {"blank"}
        /\ ~(x.items \subseteq {"blank"}) => items = x.items
    BY <2>1
  <2> HIDE DEF w, items
  <2>4. Changed(w, v, F)
    BY <1>0, <2>2, <2>3 DEF Changed
  <2>5. w.finalmask_kind = "noise" /\ w.noise_items = items
    BY <1>0, <2>2, <2>3
  <2>6. \A f \in F : w[f] \in FieldType[f]
    <3>1. w.finalmask_kind \in FieldType.finalmask_kind
      BY <2>5, FieldTypes DEF MaskKinds
    <3>2. w.noise_items \in FieldType.noise_items
      BY <2>a, <2>5, FieldTypes DEF NoiseItems
    <3> QED
      BY <3>1, <3>2
  <2>7. w \in OutboundFormValues /\ Changed(w, v, MaskFields)
    BY <2>3, <2>4, <2>6, ChangedIsTyped, ChangedMore
  <2>8. {BuildNoiseItem(i) : i \in w.noise_items} = items
    <3>1. \A i \in items : BuildNoiseItem(i) = i
      BY <2>a DEF BuildNoiseItem
    <3> QED
      BY <2>5, <3>1
  <2>9. BuildFinalMask(w) = [kind |-> "noise", items |-> items, reset |-> Null]
    BY <2>5, <2>8 DEF BuildFinalMask
  <2>12. ShownMask(x) = [kind |-> "noise", items |-> x.items, reset |-> Null]
    BY <1>5, <2>1 DEF ShownMask
  <2>10. CASE x.items \subseteq {"blank"}
    <3>1. RunningMask(ShownMask(x)) = [kind |-> "none"]
      BY <2>10, <2>12 DEF RunningMask
    <3>2. RunningMask([kind |-> "noise", items |-> items, reset |-> Null]) = [kind |-> "none"]
      BY <2>a, <2>10 DEF RunningMask
    <3> QED
      BY <1>5, <2>5, <2>7, <2>9, <3>1, <3>2 DEF w
  <2>11. CASE ~(x.items \subseteq {"blank"})
    <3>1. BuildFinalMask(w) = ShownMask(x)
      BY <2>9, <2>12, <2>a, <2>11
    <3> QED
      BY <1>5, <2>5, <2>7, <3>1 DEF w
  <2> QED
    BY <2>10, <2>11
<1>6. CASE x.kind = "xmc"
  <2>1. x \in [kind : {"xmc"}, profiles : SUBSET {"resolved", "renamed"}]
    BY <1>6 DEF MaskType, FragmentType, NoiseType
  <2> DEFINE F == {"finalmask_kind", "xmc_profiles"}
             profiles == IF x.profiles = {} THEN {"blank"} ELSE x.profiles
  <2>2. w = [v EXCEPT !.finalmask_kind = "xmc", !.xmc_profiles = profiles]
    BY <1>6 DEF HydrateFinalMask
  <2>3. F \subseteq MaskFields /\ F \subseteq Fields
    BY DEF MaskFields, Fields
  <2>a. /\ profiles \in SUBSET {"blank", "resolved", "renamed"}
        /\ profiles \cap {"resolved", "renamed"} = x.profiles
    BY <2>1
  <2> HIDE DEF w, profiles
  <2>4. Changed(w, v, F)
    BY <1>0, <2>2, <2>3 DEF Changed
  <2>5. w.finalmask_kind = "xmc" /\ w.xmc_profiles = profiles
    BY <1>0, <2>2, <2>3
  <2>6. \A f \in F : w[f] \in FieldType[f]
    <3>1. w.finalmask_kind \in FieldType.finalmask_kind
      BY <2>5, FieldTypes DEF MaskKinds
    <3>2. w.xmc_profiles \in FieldType.xmc_profiles
      BY <2>a, <2>5, FieldTypes DEF XmcProfiles
    <3> QED
      BY <3>1, <3>2
  <2>7. w \in OutboundFormValues /\ Changed(w, v, MaskFields)
    BY <2>3, <2>4, <2>6, ChangedIsTyped, ChangedMore
  <2>8. BuildFinalMask(w) = [kind |-> "xmc", profiles |-> x.profiles]
    BY <2>a, <2>5 DEF BuildFinalMask
  <2>9. BuildFinalMask(w) = x
    BY <2>1, <2>8
  <2> QED
    BY <1>6, <1>s, <2>5, <2>7, <2>9 DEF w
<1> QED
  BY <1>1, <1>2, <1>3, <1>4, <1>5, <1>6 DEF MaskType, FragmentType, NoiseType

\* Which fields a layer is built from.
LEMMA BuildReads ==
    ASSUME NEW v, NEW w, NEW F, Changed(v, w, F)
    PROVE  /\ F \cap ProtocolFields = {} => BuildProtocol(v) = BuildProtocol(w)
           /\ F \cap (TransportFields \cup {"protocol_kind"}) = {} => BuildTransport(v) = BuildTransport(w)
           /\ F \cap (SecurityFields \cup {"protocol_kind"}) = {} => BuildSecurity(v) = BuildSecurity(w)
           /\ F \cap MaskFields = {} => BuildFinalMask(v) = BuildFinalMask(w)
<1>0. \A f \in Fields : f \notin F => v[f] = w[f]
  BY DEF Changed
<1>1. ASSUME F \cap ProtocolFields = {} PROVE BuildProtocol(v) = BuildProtocol(w)
  <2>1. \A f \in ProtocolFields : v[f] = w[f]
    BY <1>0, <1>1 DEF Fields
  <2> QED
    BY <2>1 DEF ProtocolFields, BuildProtocol, WarpCarried
<1>2. ASSUME F \cap (TransportFields \cup {"protocol_kind"}) = {} PROVE BuildTransport(v) = BuildTransport(w)
  <2>0. (\A f \in TransportFields : v[f] = w[f]) /\ v.protocol_kind = w.protocol_kind
    BY <1>0, <1>2 DEF Fields, ProtocolFields
  <2>1. /\ v.protocol_kind = w.protocol_kind /\ v.network = w.network
        /\ v.http_host = w.http_host /\ v.headers = w.headers /\ v.xhttp_mode = w.xhttp_mode
        /\ v.obfs_mode = w.obfs_mode /\ v.obfs_keys = w.obfs_keys
        /\ v.session_keys = w.session_keys /\ v.uplink_keys = w.uplink_keys
        /\ v.hysteria_auth = w.hysteria_auth /\ v.hy_quic = w.hy_quic
    BY <2>0 DEF TransportFields
  <2>2. BuildHyQuic(v) = BuildHyQuic(w)
    BY <2>1 DEF BuildHyQuic
  <2> QED
    BY <2>1, <2>2 DEF BuildTransport
<1>3. ASSUME F \cap (SecurityFields \cup {"protocol_kind"}) = {} PROVE BuildSecurity(v) = BuildSecurity(w)
  <2>1. (\A f \in SecurityFields : v[f] = w[f]) /\ v.protocol_kind = w.protocol_kind
    BY <1>0, <1>3 DEF Fields, ProtocolFields
  <2> QED
    BY <2>1 DEF SecurityFields, BuildSecurity
<1>4. ASSUME F \cap MaskFields = {} PROVE BuildFinalMask(v) = BuildFinalMask(w)
  <2>0. \A f \in MaskFields : v[f] = w[f]
    BY <1>0, <1>4 DEF Fields
  <2>1. /\ v.finalmask_kind = w.finalmask_kind /\ v.sudoku_tables = w.sudoku_tables
        /\ v.packets_mode = w.packets_mode /\ v.packets_from = w.packets_from
        /\ v.packets_to = w.packets_to /\ v.noise_items = w.noise_items
        /\ v.xmc_profiles = w.xmc_profiles
    BY <2>0 DEF MaskFields
  <2>2. BuildPackets(v) = BuildPackets(w)
    BY <2>1 DEF BuildPackets
  <2> QED
    BY <2>1, <2>2 DEF BuildFinalMask
<1> QED
  BY <1>1, <1>2, <1>3, <1>4
\* What the layers mean, layer by layer.
LEMMA Meaning ==
    ASSUME NEW ob
    PROVE  /\ EffectiveLayer("protocol", ob) = ob.protocol
           /\ EffectiveLayer("transport", ob) = ob.transport
           /\ EffectiveLayer("finalmask", ob) = RunningMask(ob.finalmask)
           /\ EffectiveLayer("mux", ob) = (ob.mux /\ ob.protocol.kind # "wireguard")
           /\ ob.security.kind # "reality" => EffectiveLayer("security", ob) = ob.security
           /\ ob.security.kind = "reality" =>
                 EffectiveLayer("security", ob) =
                     [kind |-> "reality", name |-> HeadOr(ob.security.server_names, "blank"),
                      key |-> ob.security.public_key, sid |-> HeadOr(ob.security.short_ids, "blank")]
  BY DEF EffectiveLayer

\* What the form shows of a row, layer by layer.
LEMMA ShownHas ==
    ASSUME NEW ob \in RowType
    PROVE  /\ Shown(ob).protocol = ob.protocol /\ Shown(ob).mux = ob.mux
           /\ Shown(ob).transport = ShownTransport(ob.transport)
           /\ Shown(ob).finalmask = ShownMask(ob.finalmask)
           /\ Shown(ob).security.kind = ob.security.kind
           /\ ob.security.kind = "tls" => Shown(ob).security = [ob.security EXCEPT !.rest = "blank"]
           /\ ob.security.kind # "tls" => Shown(ob).security = ob.security
<1> DEFINE c == IF ob.security.kind = "tls" THEN [ob.security EXCEPT !.rest = "blank"] ELSE ob.security
           t == ShownTransport(ob.transport)
           m == ShownMask(ob.finalmask)
<1>1. /\ ob \in [protocol : ProtocolType, transport : TransportType, security : SecurityType,
                 finalmask : MaskType, mux : BOOLEAN]
      /\ ob.security \in SecurityType
  BY DEF RowType
<1>2. c.kind = ob.security.kind
  <2>1. CASE ob.security.kind = "tls"
    <3>1. ob.security \in TlsType
      BY <1>1, <2>1 DEF SecurityType
    <3> QED
      BY <2>1, <3>1 DEF TlsType
  <2> QED
    BY <2>1
<1>3. Shown(ob) = [ob EXCEPT !.transport = t, !.finalmask = m, !.security = c]
  BY <1>1 DEF Shown
<1> HIDE DEF c, t, m
<1>4. Shown(ob) = [protocol |-> ob.protocol, transport |-> t, security |-> c, finalmask |-> m,
                   mux |-> ob.mux]
  BY <1>1, <1>3
<1>5. /\ Shown(ob).protocol = ob.protocol /\ Shown(ob).mux = ob.mux
      /\ Shown(ob).transport = t /\ Shown(ob).finalmask = m /\ Shown(ob).security = c
  BY <1>4
<1> QED
  BY <1>2, <1>5 DEF c, t, m

\* Hydrating a whole row: what the form shows of every layer means the same
\* built back.
LEMMA RowSurvives ==
    ASSUME NEW ob \in RowType
    PROVE  LET w == OutboundToForm(ob)
           IN /\ w \in OutboundFormValues
              /\ w.protocol_kind = ob.protocol.kind /\ w.network = NetworkOf(ob.transport.kind)
              /\ w.security = ob.security.kind /\ w.finalmask_kind = ob.finalmask.kind
              /\ ob.protocol.kind # "wireguard" => w.wg_peer = "blank" /\ w.wg_reserved = <<>>
              /\ ob.protocol.kind = "wireguard" =>
                    w.wg_peer = ob.protocol.peer /\ w.wg_reserved = ob.protocol.reserved
              /\ \A l \in Layers : EffectiveLayer(l, FormToOutbound(w)) = EffectiveLayer(l, Shown(ob))
<1> DEFINE p == HydrateProtocol(OUTBOUND_DEFAULTS, ob.protocol)
           t == HydrateTransport(p, ob.transport)
           c == HydrateSecurity(t, ob.security)
           s == [c EXCEPT !.mux_enabled = ob.mux]
           w == HydrateFinalMask(s, ob.finalmask)
           h == Shown(ob)
<1>0. /\ ob.protocol \in ProtocolType /\ ob.transport \in TransportType
      /\ ob.security \in SecurityType /\ ob.finalmask \in MaskType /\ ob.mux \in BOOLEAN
      /\ ob.protocol.kind = "hysteria" <=> ob.transport.kind = "hysteria"
      /\ ob.protocol.kind = "wireguard" =>
            ob.transport.kind = "tcp" /\ ob.security.kind = "none" /\ ob.finalmask.kind = "none"
  BY DEF RowType
<1>d. /\ {"finalmask_kind", "network", "security", "mux_enabled", "protocol_kind", "wg_peer",
          "wg_reserved"} \subseteq Fields
      /\ "finalmask_kind" \notin ProtocolFields \cup TransportFields \cup SecurityFields \cup MuxFields
      /\ "network" \notin SecurityFields \cup MuxFields \cup MaskFields
      /\ "security" \notin MuxFields \cup MaskFields
      /\ "mux_enabled" \notin MaskFields /\ MuxFields = {"mux_enabled"}
      /\ {"protocol_kind", "wg_peer", "wg_reserved"} \cap
            (TransportFields \cup SecurityFields \cup MuxFields \cup MaskFields) = {}
  BY DEF Fields, ProtocolFields, TransportFields, SecurityFields, MaskFields, MuxFields
<1>1. /\ p \in OutboundFormValues /\ Changed(p, OUTBOUND_DEFAULTS, ProtocolFields)
      /\ p.protocol_kind = ob.protocol.kind /\ BuildProtocol(p) = ob.protocol
      /\ ob.protocol.kind # "wireguard" => p.wg_peer = "blank" /\ p.wg_reserved = <<>>
      /\ ob.protocol.kind = "wireguard" =>
            p.wg_peer = ob.protocol.peer /\ p.wg_reserved = ob.protocol.reserved
  <2>1. OUTBOUND_DEFAULTS.wg_peer = "blank" /\ OUTBOUND_DEFAULTS.wg_reserved = <<>>
    BY DefaultsHold
  <2> QED
    BY <1>0, <2>1, DefaultsTyped, ProtocolSurvives
<1> HIDE DEF p
<1>2. /\ t \in OutboundFormValues /\ Changed(t, p, TransportFields)
      /\ t.network = NetworkOf(ob.transport.kind) /\ BuildTransport(t) = ShownTransport(ob.transport)
  BY <1>0, <1>1, TransportSurvives
<1> HIDE DEF t
<1>3. t.protocol_kind = ob.protocol.kind
  BY <1>1, <1>2, <1>d DEF Changed
<1> DEFINE b == BuildSecurity(c)
<1>4. /\ c \in OutboundFormValues /\ Changed(c, t, SecurityFields) /\ c.security = ob.security.kind
      /\ ob.security.kind = "none" => b = ob.security
      /\ ob.security.kind = "tls" => b = [ob.security EXCEPT !.rest = "blank"]
      /\ ob.security.kind = "reality" =>
            /\ b.public_key = ob.security.public_key
            /\ HeadOr(b.server_names, "blank") = HeadOr(ob.security.server_names, "blank")
            /\ HeadOr(b.short_ids, "blank") = HeadOr(ob.security.short_ids, "blank")
  BY <1>0, <1>2, <1>3, SecuritySurvives
<1> HIDE DEF c, b
<1>5. s \in OutboundFormValues /\ Changed(s, c, MuxFields) /\ s.mux_enabled = ob.mux
  <2>1. ob.mux \in FieldType.mux_enabled
    BY <1>0, FieldTypes
  <2> QED
    BY <1>4, <1>d, <2>1, OneField
<1> HIDE DEF s
<1>6. s.finalmask_kind = "none"
  <2>1. OUTBOUND_DEFAULTS.finalmask_kind = "none"
    BY DefaultsHold
  <2> QED
    BY <1>1, <1>2, <1>4, <1>5, <1>d, <2>1 DEF Changed
<1>7. /\ w \in OutboundFormValues /\ Changed(w, s, MaskFields) /\ w.finalmask_kind = ob.finalmask.kind
      /\ RunningMask(BuildFinalMask(w)) = RunningMask(ShownMask(ob.finalmask))
  BY <1>0, <1>5, <1>6, MaskSurvives
<1> HIDE DEF w
<1>8. /\ Changed(w, c, MuxFields \cup MaskFields)
      /\ Changed(w, t, SecurityFields \cup (MuxFields \cup MaskFields))
      /\ Changed(w, p, TransportFields \cup (SecurityFields \cup (MuxFields \cup MaskFields)))
  BY <1>2, <1>4, <1>5, <1>7, ChangedTwice
<1>9. BuildProtocol(w) = ob.protocol
  <2>1. (TransportFields \cup (SecurityFields \cup (MuxFields \cup MaskFields))) \cap ProtocolFields = {}
    BY DEF ProtocolFields, TransportFields, SecurityFields, MaskFields, MuxFields
  <2> QED
    BY <1>1, <1>8, <2>1, BuildReads
<1>10. BuildTransport(w) = ShownTransport(ob.transport)
  <2>1. (SecurityFields \cup (MuxFields \cup MaskFields)) \cap (TransportFields \cup {"protocol_kind"}) = {}
    BY DEF TransportFields, SecurityFields, MaskFields, MuxFields
  <2> QED
    BY <1>2, <1>8, <2>1, BuildReads
<1>11. BuildSecurity(w) = b
  <2>1. (MuxFields \cup MaskFields) \cap (SecurityFields \cup {"protocol_kind"}) = {}
    BY DEF SecurityFields, MaskFields, MuxFields
  <2> QED
    BY <1>8, <2>1, BuildReads DEF b
<1>12. /\ w.protocol_kind = ob.protocol.kind /\ w.network = NetworkOf(ob.transport.kind)
       /\ w.security = ob.security.kind /\ w.mux_enabled = ob.mux
       /\ w.wg_peer = p.wg_peer /\ w.wg_reserved = p.wg_reserved
  BY <1>1, <1>2, <1>4, <1>5, <1>7, <1>8, <1>d DEF Changed
<1>13. OutboundToForm(ob) = w
  BY DEF OutboundToForm, p, t, c, s, w
<1> DEFINE r == FormToOutbound(w)
<1>14. /\ r.protocol = ob.protocol /\ r.transport = ShownTransport(ob.transport) /\ r.security = b
       /\ r.security.kind = ob.security.kind
       /\ RunningMask(r.finalmask) = RunningMask(ShownMask(ob.finalmask))
       /\ (r.mux /\ r.protocol.kind # "wireguard") = (ob.mux /\ ob.protocol.kind # "wireguard")
  <2>1. /\ r.protocol = BuildProtocol(w) /\ r.transport = BuildTransport(w)
        /\ r.security = BuildSecurity(w)
        /\ r.security.kind = IF w.protocol_kind = "wireguard" THEN "none" ELSE w.security
        /\ r.finalmask = IF w.protocol_kind = "wireguard" THEN [kind |-> "none"] ELSE BuildFinalMask(w)
        /\ r.mux = (w.protocol_kind # "wireguard" /\ w.mux_enabled)
    BY <1>7, BuiltIsTyped
  <2> HIDE DEF r
  <2>2. CASE ob.protocol.kind = "wireguard"
    <3>1. ob.finalmask = [kind |-> "none"]
      BY <1>0, <2>2 DEF MaskType, FragmentType, NoiseType
    <3>2. ShownMask(ob.finalmask) = ob.finalmask
      BY <3>1 DEF ShownMask
    <3> QED
      BY <1>0, <1>9, <1>10, <1>11, <1>12, <2>1, <2>2, <3>1, <3>2
  <2>3. CASE ob.protocol.kind # "wireguard"
    BY <1>0, <1>7, <1>9, <1>10, <1>11, <1>12, <2>1, <2>3
  <2> QED
    BY <2>2, <2>3
<1> HIDE DEF r
<1>18. /\ h.protocol = ob.protocol /\ h.mux = ob.mux
       /\ h.transport = ShownTransport(ob.transport) /\ h.finalmask = ShownMask(ob.finalmask)
       /\ h.security.kind = ob.security.kind
       /\ ob.security.kind = "tls" => h.security = [ob.security EXCEPT !.rest = "blank"]
       /\ ob.security.kind # "tls" => h.security = ob.security
  BY ShownHas
<1> HIDE DEF h
<1>15. EffectiveLayer("security", r) = EffectiveLayer("security", h)
  <2>1. CASE ob.security.kind # "reality"
    <3>1. ob.security.kind \in {"none", "tls", "reality"}
      BY <1>0 DEF SecurityType, TlsType
    <3>2. b = h.security
      BY <1>4, <1>18, <2>1, <3>1
    <3> QED
      BY <1>14, <1>18, <2>1, <3>2, Meaning
  <2>2. CASE ob.security.kind = "reality"
    BY <1>4, <1>14, <1>18, <2>2, Meaning
  <2> QED
    BY <2>1, <2>2
<1>16. /\ EffectiveLayer("protocol", r) = EffectiveLayer("protocol", h)
       /\ EffectiveLayer("transport", r) = EffectiveLayer("transport", h)
       /\ EffectiveLayer("finalmask", r) = EffectiveLayer("finalmask", h)
       /\ EffectiveLayer("mux", r) = EffectiveLayer("mux", h)
  BY <1>14, <1>18, Meaning
<1>17. \A l \in Layers : EffectiveLayer(l, r) = EffectiveLayer(l, h)
  BY <1>15, <1>16 DEF Layers
<1> QED
  BY <1>1, <1>7, <1>12, <1>13, <1>17 DEF r, h
-----------------------------------------------------------------------------
(* The rows the store can start with.                                      *)

\* A row the backend keeps: typed, past the rules of the list, buildable.
Kept(ob) == ob \in RowType /\ ValidateOutbound(ob, {ob}) /\ Builds(ob)

\* The rules a row passed when it was saved are those it still passes, except
\* the matrix's.
LEMMA StoredRules ==
    ASSUME NEW ob, NEW previous, ValidateOutbound(ob, previous)
    PROVE  ValidateOutbound(ob, {ob})
<1>1. ~MaskIsNew(ob, {ob})
  BY DEF MaskIsNew
<1>2. ValidateFinalMask(ob, MaskIsNew(ob, {ob}))
  BY <1>1 DEF ValidateOutbound, ValidateFinalMask
<1> QED
  BY <1>2 DEF ValidateOutbound

LEMMA FilledIsTyped ==
    ASSUME NEW p \in Protocols, NEW n \in Networks, NEW s \in Securities, NEW m \in MaskKinds
    PROVE  Filled(p, n, s, m) \in OutboundFormValues
<1> DEFINE v == OUTBOUND_DEFAULTS
           w == Filled(p, n, s, m)
           F == {"protocol_kind", "network", "security", "finalmask_kind", "address", "uuid",
                 "hysteria_auth", "server_name", "reality_public_key", "wg_peer", "xmc_profiles"}
<1>1. v \in OutboundFormValues /\ DOMAIN v = Fields
  BY DefaultsTyped, FormHas
<1>2. F \subseteq Fields
  BY DEF Fields, ProtocolFields, TransportFields, SecurityFields, MaskFields
<1>3. w = [v EXCEPT !.protocol_kind = p, !.network = n, !.security = s, !.finalmask_kind = m,
                    !.address = "host", !.uuid = "id", !.hysteria_auth = "password",
                    !.server_name = "sni", !.reality_public_key = "key", !.wg_peer = "good",
                    !.xmc_profiles = {"resolved"}]
  BY DEF Filled
<1> HIDE DEF v, w
<1>4. Changed(w, v, F)
  BY <1>1, <1>2, <1>3 DEF Changed
<1>5. /\ w.protocol_kind = p /\ w.network = n /\ w.security = s /\ w.finalmask_kind = m
      /\ w.address = "host" /\ w.uuid = "id" /\ w.hysteria_auth = "password"
      /\ w.server_name = "sni" /\ w.reality_public_key = "key" /\ w.wg_peer = "good"
      /\ w.xmc_profiles = {"resolved"}
  BY <1>1, <1>2, <1>3
<1>6. \A f \in F : w[f] \in FieldType[f]
  <2>1. /\ w.protocol_kind \in FieldType.protocol_kind /\ w.network \in FieldType.network
        /\ w.security \in FieldType.security /\ w.finalmask_kind \in FieldType.finalmask_kind
    BY <1>5, FieldTypes
  <2>2. /\ w.address \in FieldType.address /\ w.uuid \in FieldType.uuid
        /\ w.hysteria_auth \in FieldType.hysteria_auth /\ w.server_name \in FieldType.server_name
        /\ w.reality_public_key \in FieldType.reality_public_key
        /\ w.wg_peer \in FieldType.wg_peer
    BY <1>5, FieldTypes
  <2>3. w.xmc_profiles \in FieldType.xmc_profiles
    BY <1>5, FieldTypes DEF XmcProfiles
  <2> QED
    BY <2>1, <2>2, <2>3
<1>7. w \in OutboundFormValues
  BY <1>1, <1>4, <1>6, ChangedIsTyped
<1> QED
  BY <1>7 DEF w

LEMMA OddlyWrittenIsKept ==
    ASSUME NEW b, Kept(b)
    PROVE  Kept(OddlyWritten(b))
<1> DEFINE o == OddlyWritten(b)
<1>0. /\ b \in [protocol : ProtocolType, transport : TransportType, security : SecurityType,
                finalmask : MaskType, mux : BOOLEAN]
      /\ b.protocol.kind = "hysteria" <=> b.transport.kind = "hysteria"
      /\ b.protocol.kind = "wireguard" =>
            b.transport.kind = "tcp" /\ b.security.kind = "none" /\ b.finalmask.kind = "none"
  BY DEF Kept, RowType
<1> DEFINE P == CASE b.protocol.kind = "wireguard" ->
                       [b.protocol EXCEPT !.warp = TRUE, !.reserved = <<1, 2, 3>>]
                  [] b.protocol.kind = "vless" ->
                       [b.protocol EXCEPT !.enc = {[key |-> "key", padding |-> <<"p", "q">>]},
                                          !.reverse_tag = "tag"]
                  [] OTHER -> b.protocol
           odd == {[congestion |-> "force-brutal", udp_hop |-> {[interval |-> TRUE]}]}
           T == CASE b.transport.kind = "hysteria" -> [b.transport EXCEPT !.rest = "set", !.quic = odd]
                  [] b.transport.kind \in {"ws", "xhttp"} -> [b.transport EXCEPT !.rest = "set"]
                  [] OTHER -> b.transport
           S == CASE b.security.kind = "reality" ->
                       [b.security EXCEPT !.server_names = <<"sni", "cdn">>, !.short_ids = <<>>]
                  [] b.security.kind = "tls" -> [b.security EXCEPT !.rest = "set"]
                  [] OTHER -> b.security
           M == CASE b.finalmask.kind = "sudoku" -> [b.finalmask EXCEPT !.custom_table = {"table"}]
                  [] b.finalmask.kind = "fragment" ->
                       [b.finalmask EXCEPT !.packets = <<Null, Null>>, !.max_split = 1]
                  [] b.finalmask.kind = "noise" -> [b.finalmask EXCEPT !.reset = 1]
                  [] OTHER -> b.finalmask
<1>a. o = [b EXCEPT !.protocol = P, !.transport = T, !.security = S, !.finalmask = M, !.mux = TRUE]
  BY <1>0 DEF OddlyWritten
<1> HIDE DEF o, P, T, S, M
<1>b. o = [protocol |-> P, transport |-> T, security |-> S, finalmask |-> M, mux |-> TRUE]
  BY <1>0, <1>a
<1>1. o.protocol = P /\ o.transport = T /\ o.security = S /\ o.finalmask = M
  BY <1>b
<1>2. /\ o.protocol \in ProtocolType /\ o.protocol.kind = b.protocol.kind
      /\ b.protocol.kind = "hysteria" => o.protocol = b.protocol
      /\ b.protocol.kind = "wireguard" =>
            o.protocol.peer = b.protocol.peer /\ o.protocol.reserved = <<1, 2, 3>>
  <2>1. CASE b.protocol.kind = "wireguard"
    <3>1. b.protocol \in [kind : {"wireguard"}, peer : {"blank", "good", "bad"},
                          reserved : {<<>>, <<1>>, <<1, 2, 3>>}, mtu : {0, 1280}, warp : BOOLEAN]
      BY <1>0, <2>1 DEF ProtocolType
    <3>2. P = [b.protocol EXCEPT !.warp = TRUE, !.reserved = <<1, 2, 3>>]
      BY <2>1 DEF P
    <3>3. P = [kind |-> "wireguard", peer |-> b.protocol.peer, reserved |-> <<1, 2, 3>>,
               mtu |-> b.protocol.mtu, warp |-> TRUE]
      <4> DEFINE bytes == <<1, 2, 3>>
                 all == {<<>>, <<1>>, <<1, 2, 3>>}
                 q == b.protocol
      <4>1. q \in [kind : {"wireguard"}, peer : {"blank", "good", "bad"}, reserved : all,
                    mtu : {0, 1280}, warp : BOOLEAN]
        BY <3>1
      <4>2. P = [q EXCEPT !.warp = TRUE, !.reserved = bytes]
        BY <3>2
      <4> HIDE DEF bytes, all, q
      <4>3. PICK e, r, n, w : q = [kind |-> "wireguard", peer |-> e, reserved |-> r, mtu |-> n, warp |-> w]
        BY <4>1
      <4>4. P = [kind |-> "wireguard", peer |-> q.peer, reserved |-> bytes, mtu |-> q.mtu, warp |-> TRUE]
        BY <4>2, <4>3
      <4> QED
        BY <4>4 DEF bytes, q
    <3>4. P \in [kind : {"wireguard"}, peer : {"blank", "good", "bad"},
                 reserved : {<<>>, <<1>>, <<1, 2, 3>>}, mtu : {0, 1280}, warp : BOOLEAN]
      BY <3>1, <3>3
    <3>5. P \in ProtocolType
      BY <3>4 DEF ProtocolType
    <3>6. P.kind = "wireguard" /\ P.peer = b.protocol.peer /\ P.reserved = <<1, 2, 3>>
      BY <3>3
    <3> QED
      BY <1>1, <2>1, <3>5, <3>6
  <2>2. CASE b.protocol.kind = "vless"
    <3>1. {[key |-> "key", padding |-> <<"p", "q">>]} \in EncType
      BY DEF EncType, Paddings
    <3>2. b.protocol \in [kind : {"vless"}, address : {"blank", "host"}, id : {"blank", "id"},
                          flow : {"blank", "vision"}, reverse_tag : {"blank", "tag"}, enc : EncType]
      BY <1>0, <2>2 DEF ProtocolType
    <3>3. P = [b.protocol EXCEPT !.enc = {[key |-> "key", padding |-> <<"p", "q">>]}, !.reverse_tag = "tag"]
      BY <2>2 DEF P
    <3> DEFINE enc == {[key |-> "key", padding |-> <<"p", "q">>]}
    <3> HIDE DEF enc
    <3>4. P = [kind |-> "vless", address |-> b.protocol.address, id |-> b.protocol.id,
               flow |-> b.protocol.flow, reverse_tag |-> "tag", enc |-> enc]
      BY <3>2, <3>3 DEF enc
    <3>5. P \in [kind : {"vless"}, address : {"blank", "host"}, id : {"blank", "id"},
                 flow : {"blank", "vision"}, reverse_tag : {"blank", "tag"}, enc : EncType]
      BY <3>1, <3>2, <3>4 DEF enc
    <3>6. P \in ProtocolType /\ P.kind = "vless"
      BY <3>4, <3>5 DEF ProtocolType
    <3> QED
      BY <1>1, <2>2, <3>6
  <2>3. CASE b.protocol.kind = "hysteria"
    BY <1>0, <1>1, <2>3 DEF P
  <2> QED
    BY <1>0, <2>1, <2>2, <2>3 DEF ProtocolType
<1>3. /\ o.transport \in TransportType /\ o.transport.kind = b.transport.kind
      /\ b.transport.kind = "hysteria" => o.transport.auth = b.transport.auth
  <2>1. CASE b.transport.kind = "hysteria"
    <3>1. odd \in QuicType
      BY DEF QuicType, HopType
    <3>2. b.transport \in [kind : {"hysteria"}, auth : {"blank", "password"}, quic : QuicType,
                           rest : {"blank", "set"}]
      BY <1>0, <2>1 DEF TransportType
    <3>3. T = [b.transport EXCEPT !.rest = "set", !.quic = odd]
      BY <2>1 DEF T
    <3> HIDE DEF odd
    <3>4. T = [kind |-> "hysteria", auth |-> b.transport.auth, quic |-> odd, rest |-> "set"]
      BY <3>2, <3>3
    <3>5. T \in [kind : {"hysteria"}, auth : {"blank", "password"}, quic : QuicType,
                 rest : {"blank", "set"}]
      BY <3>1, <3>2, <3>4
    <3>6. T \in TransportType /\ T.kind = "hysteria" /\ T.auth = b.transport.auth
      BY <3>4, <3>5 DEF TransportType
    <3> QED
      BY <1>1, <2>1, <3>6
  <2>2. CASE b.transport.kind = "ws"
    <3>1. b.transport \in [kind : {"ws"}, host : {"blank", "cdn"}, headers : SUBSET {"named"},
                           rest : {"blank", "set"}]
      BY <1>0, <2>2 DEF TransportType
    <3>2. T = [b.transport EXCEPT !.rest = "set"]
      BY <2>2 DEF T
    <3>3. T \in [kind : {"ws"}, host : {"blank", "cdn"}, headers : SUBSET {"named"},
                 rest : {"blank", "set"}]
      BY <3>1, <3>2
    <3>4. T \in TransportType /\ T.kind = "ws"
      BY <3>3 DEF TransportType
    <3> QED
      BY <1>1, <2>2, <3>4
  <2>3. CASE b.transport.kind = "xhttp"
    <3>1. b.transport \in [kind : {"xhttp"}, host : {"blank", "cdn"}, headers : SUBSET {"named"},
                           mode : {"auto", "packet-up"}, obfs : BOOLEAN, obfs_keys : {"blank", "key"},
                           session : {"blank", "key"}, uplink : {"blank", "key"}, rest : {"blank", "set"}]
      BY <1>0, <2>3 DEF TransportType
    <3>2. T = [b.transport EXCEPT !.rest = "set"]
      BY <2>3 DEF T
    <3>3. T \in [kind : {"xhttp"}, host : {"blank", "cdn"}, headers : SUBSET {"named"},
                 mode : {"auto", "packet-up"}, obfs : BOOLEAN, obfs_keys : {"blank", "key"},
                 session : {"blank", "key"}, uplink : {"blank", "key"}, rest : {"blank", "set"}]
      BY <3>1, <3>2
    <3>4. T \in TransportType /\ T.kind = "xhttp"
      BY <3>3 DEF TransportType
    <3> QED
      BY <1>1, <2>3, <3>4
  <2>4. CASE b.transport.kind \notin {"hysteria", "ws", "xhttp"}
    BY <1>0, <1>1, <2>4 DEF T
  <2> QED
    BY <2>1, <2>2, <2>3, <2>4
<1>4. /\ o.security \in SecurityType /\ o.security.kind = b.security.kind
      /\ b.security.kind = "reality" => o.security.public_key = b.security.public_key
  <2>1. CASE b.security.kind = "reality"
    <3>1. <<"sni", "cdn">> \in Seq(Names) /\ <<>> \in Seq({"blank", "sid"})
      BY DEF Names
    <3>2. b.security \in [kind : {"reality"}, server_names : Seq(Names), public_key : {"blank", "key"},
                          short_ids : Seq({"blank", "sid"})]
      BY <1>0, <2>1 DEF SecurityType, TlsType
    <3> QED
      BY <1>1, <2>1, <3>1, <3>2 DEF SecurityType, S
  <2>2. CASE b.security.kind = "tls"
    <3>1. b.security \in TlsType
      BY <1>0, <2>2 DEF SecurityType
    <3>2. S = [b.security EXCEPT !.rest = "set"]
      BY <2>2 DEF S
    <3>3. S \in TlsType /\ S.kind = "tls"
      BY <3>1, <3>2 DEF TlsType
    <3> QED
      BY <1>1, <2>2, <3>3 DEF SecurityType
  <2>3. CASE b.security.kind \notin {"reality", "tls"}
    BY <1>0, <1>1, <2>3 DEF S
  <2> QED
    BY <2>1, <2>2, <2>3
<1>5. o.finalmask \in MaskType /\ o.finalmask.kind = b.finalmask.kind
  <2>1. CASE b.finalmask.kind = "sudoku"
    BY <1>0, <1>1, <2>1 DEF MaskType, FragmentType, NoiseType, M
  <2>2. CASE b.finalmask.kind = "fragment"
    <3>1. <<Null, Null>> \in PacketBounds \X PacketBounds
      BY DEF PacketBounds
    <3>2. b.finalmask \in FragmentType
      BY <1>0, <2>2 DEF MaskType, FragmentType, NoiseType
    <3>3. M = [b.finalmask EXCEPT !.packets = <<Null, Null>>, !.max_split = 1]
      BY <2>2 DEF M
    <3>4. M \in FragmentType /\ M.kind = "fragment"
      BY <3>1, <3>2, <3>3 DEF FragmentType
    <3> QED
      BY <1>1, <2>2, <3>4 DEF MaskType
  <2>3. CASE b.finalmask.kind = "noise"
    <3>1. b.finalmask \in NoiseType
      BY <1>0, <2>3 DEF MaskType, FragmentType, NoiseType
    <3>2. M = [b.finalmask EXCEPT !.reset = 1]
      BY <2>3 DEF M
    <3>3. M \in NoiseType /\ M.kind = "noise"
      BY <3>1, <3>2 DEF NoiseType
    <3> QED
      BY <1>1, <2>3, <3>3 DEF MaskType
  <2>4. CASE b.finalmask.kind \notin {"sudoku", "fragment", "noise"}
    BY <1>0, <1>1, <2>4 DEF M
  <2> QED
    BY <2>1, <2>2, <2>3, <2>4
<1>6. o \in RowType
  BY <1>0, <1>1, <1>b, <1>2, <1>3, <1>4, <1>5 DEF RowType
<1>7. Builds(o)
  BY <1>4 DEF Kept, Builds
<1>8. ValidateOutbound(o, {o})
  <2>0. ValidateOutbound(b, {b})
    BY DEF Kept
  <2>1. ~MaskIsNew(o, {o})
    BY DEF MaskIsNew
  <2>2. ~(o.security.kind = "reality" /\ o.finalmask.kind = "xmc")
    BY <1>4, <1>5, <2>0 DEF ValidateOutbound, ValidateFinalMask
  <2>3. ValidateFinalMask(o, MaskIsNew(o, {o}))
    BY <2>1, <2>2 DEF ValidateFinalMask
  <2>4. o.protocol.kind = "hysteria" <=> o.transport.kind = "hysteria"
    BY <1>0, <1>2, <1>3
  <2>5. o.protocol.kind = "hysteria" =>
            /\ o.protocol.address # "blank" /\ o.transport.auth # "blank"
            /\ o.security.kind = "tls"
    BY <1>0, <1>2, <1>3, <1>4, <2>0 DEF ValidateOutbound
  <2>6. o.protocol.kind = "wireguard" => ValidateWireguard(o.protocol)
    <3>1. Len(<<1, 2, 3>>) = 3
      OBVIOUS
    <3> QED
      BY <1>2, <2>0, <3>1 DEF ValidateOutbound, ValidateWireguard
  <2> QED
    BY <2>3, <2>4, <2>5, <2>6 DEF ValidateOutbound
<1> QED
  BY <1>6, <1>7, <1>8 DEF Kept, o

LEMMA StoredRowsAreKept == \A ob \in StoredRows : Kept(ob)
<1> DEFINE Rows == {FormToOutbound(Filled("vless", n, s, "none")) : n \in Networks, s \in {"tls", "reality"}}
                   \cup {FormToOutbound(Filled(p, "tcp", "tls", m)) : p \in Protocols, m \in MaskKinds}
<1>1. \A b \in Rows : b \in RowType
  <2>1. ASSUME NEW n \in Networks, NEW s \in {"tls", "reality"}
        PROVE  FormToOutbound(Filled("vless", n, s, "none")) \in RowType
    <3>1. "vless" \in Protocols /\ s \in Securities /\ "none" \in MaskKinds
      BY DEF Protocols, Securities, MaskKinds
    <3> QED
      BY <3>1, FilledIsTyped, BuiltIsTyped
  <2>2. ASSUME NEW p \in Protocols, NEW m \in MaskKinds
        PROVE  FormToOutbound(Filled(p, "tcp", "tls", m)) \in RowType
    <3>1. "tcp" \in Networks /\ "tls" \in Securities
      BY DEF Networks, Securities
    <3> QED
      BY <3>1, FilledIsTyped, BuiltIsTyped
  <2> QED
    BY <2>1, <2>2
<1>2. StoredRows = {b \in Rows : ValidateOutbound(b, {b}) /\ Builds(b)}
                   \cup {OddlyWritten(b) : b \in {x \in Rows : ValidateOutbound(x, {}) /\ Builds(x)}}
  BY DEF StoredRows
<1> HIDE DEF Rows
<1>3. \A b \in Rows : ValidateOutbound(b, {}) /\ Builds(b) => Kept(OddlyWritten(b))
  BY <1>1, StoredRules, OddlyWrittenIsKept DEF Kept
<1> QED
  BY <1>1, <1>2, <1>3 DEF Kept
-----------------------------------------------------------------------------
(* Inbounds and the links to them.                                         *)

ServerTransportType ==
    [kind : {"tcp"}] \cup [kind : {"ws"}, host : {"blank", "cdn"}]
    \cup [kind : {"xhttp"}, host : {"cdn"}, mode : {"auto", "packet-up"}, obfs : BOOLEAN,
          obfs_keys : {"key"}, session : {"blank", "key"}, uplink : {"blank", "key"},
          method : {"blank", "GET"}]

ServerTlsType ==
    [kind : {"tls"}, sni : {"blank", "sni"}, alpn : SUBSET {"h1", "h2"}, self_signed : BOOLEAN]

ServerSecurityType ==
    [kind : {"none"}] \cup [kind : {"reality"}, sni : {"sni"}, short_ids : {<<"sid">>, <<>>}]
    \cup ServerTlsType

ServerMaskType == {m \in MaskType : m.kind = "sudoku" => m.custom_table = {}}

ServerEncType == {{}} \cup {{e} : e \in [key : {"key"}, padding : Paddings]}

VlessServerType ==
    [protocol : {"vless"}, transport : ServerTransportType, security : ServerSecurityType,
     finalmask : ServerMaskType, flow : {"blank", "vision"}, enc : ServerEncType,
     reverse_tag : {"blank", "tag"}]

QuicServerType ==
    {srv \in [protocol : {"hysteria2"}, transport : {[kind |-> "hysteria"]},
              security : ServerTlsType, finalmask : ServerMaskType] : srv.security.sni = "sni"}

LEMMA ServerPartsTyped ==
    /\ ServerTransports \subseteq ServerTransportType
    /\ ServerSecurities \subseteq ServerSecurityType
    /\ ServerMasks \subseteq ServerMaskType
<1>1. ServerTransports \subseteq ServerTransportType
  <2>1. ASSUME NEW t \in ServerTransports PROVE t \in ServerTransportType
    <3>1. \/ t \in {[kind |-> "tcp"], [kind |-> "ws", host |-> "blank"], [kind |-> "ws", host |-> "cdn"]}
          \/ \E m \in {"auto", "packet-up"}, o \in BOOLEAN, k \in {"blank", "key"} :
                t = Xhttp(m, o, k, k, "blank")
          \/ \E o \in BOOLEAN : t = Xhttp("packet-up", o, "blank", "blank", "GET")
      BY DEF ServerTransports
    <3> QED
      BY <3>1 DEF ServerTransportType, Xhttp
  <2> QED
    BY <2>1
<1>2. ServerSecurities \subseteq ServerSecurityType
  BY DEF ServerSecurities, ServerSecurityType, ServerTlsType, Tls
<1>3. ASSUME NEW m \in ServerMasks PROVE m \in ServerMaskType
  <2>1. CASE m \in {[kind |-> "none"], [kind |-> "salamander"]}
    BY <2>1 DEF ServerMaskType, MaskType
  <2>2. CASE m \in {[kind |-> "sudoku", custom_table |-> {}, custom_tables |-> t] : t \in {{}, {"table"}}}
    BY <2>2 DEF ServerMaskType, MaskType
  <2>3. CASE m \in {[kind |-> "fragment", packets |-> p, max_split |-> n] :
                       p \in {<<0, 1>>, <<0, 0>>, <<1, 2>>, <<Null, 2>>}, n \in {Null, 1}}
    <3>1. PICK p \in {<<0, 1>>, <<0, 0>>, <<1, 2>>, <<Null, 2>>}, n \in {Null, 1} :
             m = [kind |-> "fragment", packets |-> p, max_split |-> n]
      BY <2>3
    <3>2. p \in PacketBounds \X PacketBounds
      BY <3>1 DEF PacketBounds
    <3>3. m \in FragmentType
      BY <3>1, <3>2 DEF FragmentType
    <3> QED
      BY <3>1, <3>3 DEF ServerMaskType, MaskType
  <2>4. CASE m \in {[kind |-> "noise", items |-> i, reset |-> n] :
                       i \in {{"blank"}, {"literal"}, {"blank", "random"}}, n \in {Null, 1}}
    <3>1. m \in NoiseType /\ m.kind = "noise"
      BY <2>4 DEF NoiseType
    <3> QED
      BY <3>1 DEF ServerMaskType, MaskType
  <2>5. CASE m \in {[kind |-> "xmc", profiles |-> p] : p \in {{}, {"resolved"}}}
    BY <2>5 DEF ServerMaskType, MaskType
  <2> QED
    BY <2>1, <2>2, <2>3, <2>4, <2>5 DEF ServerMasks
<1> QED
  BY <1>1, <1>2, <1>3

LEMMA VlessServerTyped ==
    ASSUME NEW t \in ServerTransportType, NEW s \in ServerSecurityType, NEW m \in ServerMaskType,
           NEW flow \in {"blank", "vision"}, NEW enc \in ServerEncType, NEW tag \in {"blank", "tag"}
    PROVE  VlessServer(t, s, m, flow, enc, tag) \in VlessServerType
  BY DEF VlessServer, VlessServerType

LEMMA ServersTyped ==
    \A srv \in Servers : srv \in VlessServerType \cup QuicServerType /\ MaskAgrees(srv)
<1> DEFINE Tcp == [kind |-> "tcp"]
           NoMask == [kind |-> "none"]
           Real == [kind |-> "reality", sni |-> "sni", short_ids |-> <<"sid">>]
           Plain == CHOOSE x \in ServerSecurities : x.kind = "none"
           Layered == {VlessServer(t, Plain, NoMask, "blank", {}, "blank") : t \in ServerTransports}
                      \cup {VlessServer(t, s, NoMask, "blank", {}, "blank") :
                               t \in {[kind |-> "ws", host |-> "cdn"]}, s \in ServerSecurities}
           Masked == {VlessServer(Tcp, [kind |-> "none"], m, "blank", {}, "blank") : m \in ServerMasks}
           Encs == {{}} \cup {{[key |-> "key", padding |-> p]} : p \in Paddings}
           Users == {VlessServer(Tcp, Real, NoMask, f, e, r) :
                        f \in {"blank", "vision"}, r \in {"blank", "tag"}, e \in Encs}
           Quic == {[protocol |-> "hysteria2", transport |-> [kind |-> "hysteria"],
                     security |-> Tls("sni", {}, m.kind = "none"), finalmask |-> m] : m \in ServerMasks}
<1>1. Servers = {srv \in Layered \cup Masked \cup Users \cup Quic : MaskAgrees(srv)}
  BY DEF Servers
<1>2. /\ Tcp \in ServerTransportType /\ [kind |-> "ws", host |-> "cdn"] \in ServerTransportType
      /\ Real \in ServerSecurityType /\ [kind |-> "none"] \in ServerSecurityType
      /\ NoMask \in ServerMaskType /\ {} \in ServerEncType
  BY DEF ServerTransportType, ServerSecurityType, ServerMaskType, MaskType, ServerEncType
<1>3. Plain \in ServerSecurityType
  <2>1. [kind |-> "none"] \in ServerSecurities
    BY DEF ServerSecurities
  <2>2. Plain \in ServerSecurities
    BY <2>1
  <2> QED
    BY <2>2, ServerPartsTyped
<1>4. Encs \subseteq ServerEncType
  BY DEF ServerEncType
<1> HIDE DEF Tcp, NoMask, Real, Plain, Encs
<1>5. Layered \subseteq VlessServerType
  BY <1>2, <1>3, ServerPartsTyped, VlessServerTyped
<1>6. Masked \subseteq VlessServerType
  BY <1>2, ServerPartsTyped, VlessServerTyped
<1>7. Users \subseteq VlessServerType
  BY <1>2, <1>4, VlessServerTyped
<1>8. Quic \subseteq QuicServerType
  <2>1. ASSUME NEW m \in ServerMasks
        PROVE  [protocol |-> "hysteria2", transport |-> [kind |-> "hysteria"],
                security |-> Tls("sni", {}, m.kind = "none"), finalmask |-> m] \in QuicServerType
    <3>1. Tls("sni", {}, m.kind = "none") \in ServerTlsType /\ Tls("sni", {}, m.kind = "none").sni = "sni"
      BY DEF Tls, ServerTlsType
    <3> QED
      BY <3>1, ServerPartsTyped DEF QuicServerType
  <2> QED
    BY <2>1
<1> HIDE DEF Layered, Masked, Users, Quic
<1> QED
  BY <1>1, <1>5, <1>6, <1>7, <1>8

-----------------------------------------------------------------------------
(* What the import of a link fills in.                                     *)

\* What two patches laid over one another hold, neither hiding a field of the other.
Holds(o, f, g) ==
    /\ Patch(o) /\ DOMAIN o = (DOMAIN f) \cup (DOMAIN g)
    /\ \A x \in DOMAIN f : o[x] = f[x]
    /\ \A x \in DOMAIN g : o[x] = g[x]

LEMMA Laid ==
    ASSUME NEW f, NEW g, Patch(f), Patch(g), (DOMAIN f) \cap (DOMAIN g) = {}
    PROVE  Holds(Overlay(f, g), f, g)
<1> DEFINE o == Overlay(f, g)
<1>1. /\ DOMAIN o = (DOMAIN f) \cup (DOMAIN g)
      /\ \A x \in DOMAIN f : o[x] = f[x]
      /\ \A x \in (DOMAIN g) \ (DOMAIN f) : o[x] = g[x]
      /\ o = [x \in DOMAIN o |-> o[x]]
  BY OverlayHas
<1>2. Patch(o)
  BY OverlaidPatches
<1> HIDE DEF o
<1>3. \A x \in DOMAIN g : o[x] = g[x]
  BY <1>1
<1>4. Holds(o, f, g)
  BY <1>1, <1>2, <1>3 DEF Holds
<1> QED
  BY <1>4 DEF o

LEMMA LaidOverDefaults ==
    ASSUME NEW g, Patch(g)
    PROVE  LET o == Overlay(g, OUTBOUND_DEFAULTS)
           IN /\ o \in OutboundFormValues
              /\ \A f \in DOMAIN g : o[f] = g[f]
              /\ \A f \in Fields \ (DOMAIN g) : o[f] = OUTBOUND_DEFAULTS[f]
<1> DEFINE D == OUTBOUND_DEFAULTS
           o == Overlay(g, D)
<1>1. D \in OutboundFormValues /\ DOMAIN D = Fields
  BY DefaultsTyped, FormHas
<1>2. /\ DOMAIN o = (DOMAIN g) \cup (DOMAIN D)
      /\ \A x \in DOMAIN g : o[x] = g[x]
      /\ \A x \in (DOMAIN D) \ (DOMAIN g) : o[x] = D[x]
      /\ o = [x \in DOMAIN o |-> o[x]]
  BY OverlayHas
<1>3. o \in OutboundFormValues
  BY <1>1, PatchedIsTyped
<1> HIDE DEF o, D
<1> QED
  BY <1>1, <1>2, <1>3 DEF o, D

\* Six groups of fields laid over the defaults.
LEMMA Imported ==
    ASSUME NEW B, NEW E, NEW S, NEW T, NEW M, NEW R,
           Patch(B), Patch(E), Patch(S), Patch(T), Patch(M), Patch(R),
           DOMAIN B \subseteq {"address", "uuid", "flow"},
           DOMAIN E \subseteq {"encryption_mode", "encryption_client_key", "encryption_padding"},
           DOMAIN S \subseteq SecurityFields, DOMAIN T \subseteq TransportFields,
           DOMAIN M \subseteq MaskFields, DOMAIN R \subseteq {"reverse_tag"}
    PROVE  LET v == Overlay(Overlay(B, Overlay(E, Overlay(S, Overlay(T, Overlay(M, R))))), OUTBOUND_DEFAULTS)
           IN /\ v \in OutboundFormValues
              /\ \A f \in DOMAIN B : v[f] = B[f]
              /\ \A f \in DOMAIN E : v[f] = E[f]
              /\ \A f \in DOMAIN S : v[f] = S[f]
              /\ \A f \in DOMAIN T : v[f] = T[f]
              /\ \A f \in DOMAIN M : v[f] = M[f]
              /\ \A f \in DOMAIN R : v[f] = R[f]
              /\ \A f \in Fields \ ((DOMAIN B) \cup (DOMAIN E) \cup (DOMAIN S) \cup (DOMAIN T)
                                        \cup (DOMAIN M) \cup (DOMAIN R)) : v[f] = OUTBOUND_DEFAULTS[f]
<1> DEFINE o1 == Overlay(M, R)
           o2 == Overlay(T, o1)
           o3 == Overlay(S, o2)
           o4 == Overlay(E, o3)
           o5 == Overlay(B, o4)
           D == OUTBOUND_DEFAULTS
           v == Overlay(o5, D)
<1>d. D \in OutboundFormValues /\ DOMAIN D = Fields
  BY DefaultsTyped, FormHas
<1>g. /\ DOMAIN M \cap {"reverse_tag"} = {} /\ DOMAIN T \cap (MaskFields \cup {"reverse_tag"}) = {}
      /\ DOMAIN S \cap (TransportFields \cup MaskFields \cup {"reverse_tag"}) = {}
      /\ DOMAIN E \cap (SecurityFields \cup TransportFields \cup MaskFields \cup {"reverse_tag"}) = {}
      /\ DOMAIN B \cap (DOMAIN E) = {}
      /\ DOMAIN B \cap (SecurityFields \cup TransportFields \cup MaskFields \cup {"reverse_tag"}) = {}
  BY DEF MaskFields, TransportFields, SecurityFields
<1> HIDE DEF D
<1>1. /\ Patch(o1) /\ DOMAIN o1 = (DOMAIN M) \cup (DOMAIN R)
      /\ \A f \in DOMAIN M : o1[f] = M[f]
      /\ \A f \in DOMAIN R : o1[f] = R[f]
  <2>1. Patch(M) /\ Patch(R) /\ (DOMAIN M) \cap (DOMAIN R) = {}
    BY <1>g
  <2>2. Holds(o1, M, R)
    BY <2>1, Laid
  <2> QED
    BY <2>2 DEF Holds
<1> HIDE DEF o1
<1>2. /\ Patch(o2) /\ DOMAIN o2 = (DOMAIN T) \cup (DOMAIN o1)
      /\ \A f \in DOMAIN T : o2[f] = T[f]
      /\ \A f \in DOMAIN o1 : o2[f] = o1[f]
  <2>1. Patch(T) /\ Patch(o1) /\ (DOMAIN T) \cap (DOMAIN o1) = {}
    BY <1>g, <1>1
  <2>2. Holds(o2, T, o1)
    BY <2>1, Laid
  <2> QED
    BY <2>2 DEF Holds
<1> HIDE DEF o2
<1>3. /\ Patch(o3) /\ DOMAIN o3 = (DOMAIN S) \cup (DOMAIN o2)
      /\ \A f \in DOMAIN S : o3[f] = S[f]
      /\ \A f \in DOMAIN o2 : o3[f] = o2[f]
  <2>1. Patch(S) /\ Patch(o2) /\ (DOMAIN S) \cap (DOMAIN o2) = {}
    BY <1>g, <1>1, <1>2
  <2>2. Holds(o3, S, o2)
    BY <2>1, Laid
  <2> QED
    BY <2>2 DEF Holds
<1> HIDE DEF o3
<1>4. /\ Patch(o4) /\ DOMAIN o4 = (DOMAIN E) \cup (DOMAIN o3)
      /\ \A f \in DOMAIN E : o4[f] = E[f]
      /\ \A f \in DOMAIN o3 : o4[f] = o3[f]
  <2>1. Patch(E) /\ Patch(o3) /\ (DOMAIN E) \cap (DOMAIN o3) = {}
    BY <1>g, <1>1, <1>2, <1>3
  <2>2. Holds(o4, E, o3)
    BY <2>1, Laid
  <2> QED
    BY <2>2 DEF Holds
<1> HIDE DEF o4
<1>5. /\ Patch(o5) /\ DOMAIN o5 = (DOMAIN B) \cup (DOMAIN o4)
      /\ \A f \in DOMAIN B : o5[f] = B[f]
      /\ \A f \in DOMAIN o4 : o5[f] = o4[f]
  <2>1. Patch(B) /\ Patch(o4) /\ (DOMAIN B) \cap (DOMAIN o4) = {}
    BY <1>g, <1>1, <1>2, <1>3, <1>4
  <2>2. Holds(o5, B, o4)
    BY <2>1, Laid
  <2> QED
    BY <2>2 DEF Holds
<1> HIDE DEF o5
<1>6. /\ v \in OutboundFormValues
      /\ \A f \in DOMAIN o5 : v[f] = o5[f]
      /\ \A f \in Fields \ (DOMAIN o5) : v[f] = D[f]
  BY <1>5, LaidOverDefaults DEF D
<1> HIDE DEF v
<1>7. /\ \A f \in DOMAIN B : v[f] = B[f]
      /\ \A f \in DOMAIN E : v[f] = E[f]
      /\ \A f \in DOMAIN S : v[f] = S[f]
      /\ \A f \in DOMAIN T : v[f] = T[f]
      /\ \A f \in DOMAIN M : v[f] = M[f]
      /\ \A f \in DOMAIN R : v[f] = R[f]
  BY <1>1, <1>2, <1>3, <1>4, <1>5, <1>6
<1>8. \A f \in Fields \ ((DOMAIN B) \cup (DOMAIN E) \cup (DOMAIN S) \cup (DOMAIN T)
                              \cup (DOMAIN M) \cup (DOMAIN R)) : v[f] = D[f]
  BY <1>1, <1>2, <1>3, <1>4, <1>5, <1>6
<1> QED
  BY <1>6, <1>7, <1>8 DEF v, o1, o2, o3, o4, o5, D

\* What stands between a head of three and a last token.
LEMMA Sandwich ==
    ASSUME NEW S, NEW h \in Seq(S), Len(h) = 3, NEW p \in Seq(S), NEW k \in S
    PROVE  LET c == h \o p \o <<k>>
           IN c[1] = h[1] /\ c[Len(c)] = k /\ SubSeq(c, 4, Len(c) - 1) = p
<1> DEFINE hp == h \o p
           t == <<k>>
           c == hp \o t
           n == Len(p)
<1>0. n \in Nat
  BY LenProperties
<1>1. /\ hp \in Seq(S) /\ Len(hp) = 3 + n
      /\ \A i \in 1..3 + n : hp[i] = IF i <= 3 THEN h[i] ELSE p[i - 3]
  <2>1. /\ hp \in Seq(S) /\ Len(hp) = Len(h) + Len(p)
        /\ \A i \in 1..Len(h) + Len(p) : hp[i] = IF i <= Len(h) THEN h[i] ELSE p[i - Len(h)]
    BY ConcatProperties
  <2> HIDE DEF hp
  <2> QED
    BY <1>0, <2>1
<1>2. t \in Seq(S) /\ Len(t) = 1 /\ t[1] = k
  OBVIOUS
<1> HIDE DEF hp, t, n
<1>3. /\ c \in Seq(S) /\ Len(c) = 4 + n
      /\ \A i \in 1..4 + n : c[i] = IF i <= 3 + n THEN hp[i] ELSE t[i - (3 + n)]
  <2>1. /\ c \in Seq(S) /\ Len(c) = Len(hp) + Len(t)
        /\ \A i \in 1..Len(hp) + Len(t) : c[i] = IF i <= Len(hp) THEN hp[i] ELSE t[i - Len(hp)]
    BY <1>1, <1>2, ConcatProperties
  <2> HIDE DEF c
  <2> QED
    BY <1>0, <1>1, <1>2, <2>1
<1> HIDE DEF c
<1>4. c[1] = h[1] /\ c[Len(c)] = k
  BY <1>0, <1>1, <1>2, <1>3
<1> DEFINE q == SubSeq(c, 4, Len(c) - 1)
<1>5. /\ q \in Seq(S) /\ Len(q) = n
      /\ \A i \in 1..n : q[i] = c[3 + i]
  <2>1. \A i \in 4..(3 + n) : c[i] \in S
    BY <1>0, <1>3, ElementOfSeq
  <2>2. q = SubSeq(c, 4, 3 + n)
    BY <1>0, <1>3
  <2> HIDE DEF q
  <2>3. /\ q \in Seq(S) /\ Len(q) = IF 4 <= 3 + n THEN (3 + n) - 4 + 1 ELSE 0
        /\ \A i \in 1..(3 + n) - 4 + 1 : q[i] = c[4 + i - 1]
    BY <1>0, <2>1, <2>2, SubSeqProperties
  <2> QED
    BY <1>0, <2>3
<1> HIDE DEF q
<1>6. \A i \in 1..n : q[i] = p[i]
  BY <1>0, <1>1, <1>3, <1>5
<1>7. q = p
  BY <1>5, <1>6, SeqEqual DEF n
<1> QED
  BY <1>4, <1>7 DEF q, c, hp, t

\* A padding survives the trip through the cipher's name.
LEMMA EncryptionImported ==
    ASSUME NEW srv, srv.enc \in ServerEncType
    PROVE  LET E == ParseEncryption(EncryptionParam(srv))
           IN /\ srv.enc = {} => E = [encryption_mode |-> "none"]
              /\ \A e \in srv.enc :
                    E = [encryption_mode |-> "mlkem768x25519plus", encryption_padding |-> e.padding,
                         encryption_client_key |-> e.key]
<1>1. CASE srv.enc = {}
  <2>1. EncryptionParam(srv) = <<"none">>
    BY <1>1 DEF EncryptionParam
  <2>2. ParseEncryption(<<"none">>) = [encryption_mode |-> "none"]
    BY DEF ParseEncryption
  <2> QED
    BY <1>1, <2>1, <2>2
<1>2. CASE srv.enc # {}
  <2>1. PICK e \in [key : {"key"}, padding : Paddings] : srv.enc = {e}
    BY <1>2 DEF ServerEncType
  <2>2. (CHOOSE x \in srv.enc : TRUE) = e
    BY <2>1
  <2> DEFINE h == <<"mlkem768x25519plus", "native", "0rtt">>
             c == h \o e.padding \o <<e.key>>
  <2>3. EncryptionParam(srv) = c
    BY <1>2, <2>2 DEF EncryptionParam
  <2>4. /\ c[1] = "mlkem768x25519plus" /\ c[Len(c)] = e.key
        /\ SubSeq(c, 4, Len(c) - 1) = e.padding
    <3> DEFINE S == {"mlkem768x25519plus", "native", "0rtt", "p", "q", "key"}
    <3>1. h \in Seq(S) /\ Len(h) = 3 /\ h[1] = "mlkem768x25519plus"
      OBVIOUS
    <3>2. e.key \in S /\ e.padding \in {<<>>, <<"p">>, <<"p", "q">>}
      BY <2>1 DEF Paddings
    <3>3. <<>> \in Seq(S) /\ <<"p">> \in Seq(S) /\ <<"p", "q">> \in Seq(S)
      OBVIOUS
    <3>4. e.padding \in Seq(S)
      BY <3>2, <3>3
    <3> HIDE DEF h, S
    <3> QED
      BY <3>1, <3>2, <3>4, Sandwich
  <2> HIDE DEF c
  <2>5. ParseEncryption(c) = [encryption_mode |-> "mlkem768x25519plus", encryption_padding |-> e.padding,
                              encryption_client_key |-> e.key]
    BY <2>4 DEF ParseEncryption
  <2> QED
    BY <2>1, <2>3, <2>5
<1> QED
  BY <1>1, <1>2
LEMMA SecurityImported ==
    ASSUME NEW srv \in VlessServerType
    PROVE  LET S == ParseSecurity(BuildShareLink(srv))
               s == srv.security
           IN /\ Patch(S) /\ DOMAIN S \subseteq SecurityFields
              /\ s.kind \in {"none", "tls", "reality"}
              /\ s.kind = "none" => S = [security |-> "none"]
              /\ s.kind = "tls" =>
                    S = [security |-> "tls", server_name |-> EffectiveSni(s, HostOf(srv.transport)),
                         tls_alpn |-> s.alpn]
              /\ s.kind = "reality" =>
                    S = [security |-> "reality", server_name |-> s.sni, reality_public_key |-> "key",
                         reality_short_id |-> HeadOr(s.short_ids, "blank")]
<1> DEFINE s == srv.security
           t == srv.transport
           q == BuildShareLink(srv)
           S == ParseSecurity(q)
<1>0. s \in ServerSecurityType /\ t \in ServerTransportType /\ srv.protocol = "vless"
  BY DEF VlessServerType
<1>1. /\ q.security = s.kind
      /\ q.sni = CASE s.kind = "tls" -> EffectiveSni(s, HostOf(t)) [] s.kind = "reality" -> s.sni
                   [] OTHER -> "blank"
      /\ q.alpn = IF s.kind = "tls" THEN s.alpn ELSE {}
      /\ q.pbk = IF s.kind = "reality" THEN "key" ELSE "blank"
      /\ q.sid = IF s.kind = "reality" THEN HeadOr(s.short_ids, "blank") ELSE "blank"
  BY <1>0 DEF BuildShareLink, BuildVlessShareLink
<1>2. {"security", "server_name", "tls_alpn", "reality_public_key", "reality_short_id"}
          \subseteq SecurityFields \cap Fields
  BY DEF SecurityFields, Fields
<1> HIDE DEF q, s, t
<1>3. CASE s.kind = "none"
  <2>1. S = [security |-> "none"]
    BY <1>1, <1>3 DEF ParseSecurity
  <2> HIDE DEF S
  <2>2. DOMAIN S = {"security"} /\ S.security = "none"
    BY <2>1
  <2>3. S.security \in FieldType.security
    BY <2>2, FieldTypes DEF Securities
  <2>4. Patch(S) /\ DOMAIN S \subseteq SecurityFields
    BY <1>2, <2>2, <2>3 DEF Patch
  <2> QED
    BY <1>3, <2>1, <2>4 DEF S, s, q, t
<1>4. CASE s.kind = "tls"
  <2> DEFINE sni == EffectiveSni(s, HostOf(t))
  <2>1. sni \in {"blank", "sni", "cdn"}
    <3>1. HostOf(t) \in {"blank", "cdn"}
      BY <1>0 DEF HostOf, ServerTransportType
    <3>2. s.sni \in {"blank", "sni"}
      BY <1>0, <1>4 DEF ServerSecurityType, ServerTlsType
    <3> QED
      BY <3>1, <3>2 DEF EffectiveSni
  <2>2. s.alpn \in SUBSET {"h1", "h2"}
    BY <1>0, <1>4 DEF ServerSecurityType, ServerTlsType
  <2> HIDE DEF sni
  <2>3. S = [security |-> "tls", server_name |-> sni, tls_alpn |-> s.alpn]
    BY <1>1, <1>4 DEF ParseSecurity, sni
  <2> HIDE DEF S
  <2>4. /\ DOMAIN S = {"security", "server_name", "tls_alpn"}
        /\ S.security = "tls" /\ S.server_name = sni /\ S.tls_alpn = s.alpn
    BY <2>3
  <2>5. /\ S.security \in FieldType.security /\ S.server_name \in FieldType.server_name
        /\ S.tls_alpn \in FieldType.tls_alpn
    BY <2>1, <2>2, <2>4, FieldTypes DEF Securities
  <2>6. Patch(S) /\ DOMAIN S \subseteq SecurityFields
    BY <1>2, <2>4, <2>5 DEF Patch
  <2> QED
    BY <1>4, <2>3, <2>6 DEF S, s, q, t, sni
<1>5. CASE s.kind = "reality"
  <2> DEFINE sid == HeadOr(s.short_ids, "blank")
  <2>1. s.sni = "sni" /\ s.short_ids \in {<<"sid">>, <<>>}
    BY <1>0, <1>5 DEF ServerSecurityType, ServerTlsType
  <2>2. sid \in {"blank", "sid"}
    BY <2>1 DEF HeadOr
  <2> HIDE DEF sid
  <2>3. S = [security |-> "reality", server_name |-> s.sni, reality_public_key |-> "key",
             reality_short_id |-> sid]
    BY <1>1, <1>5 DEF ParseSecurity, sid
  <2> HIDE DEF S
  <2>4. /\ DOMAIN S = {"security", "server_name", "reality_public_key", "reality_short_id"}
        /\ S.security = "reality" /\ S.server_name = s.sni /\ S.reality_public_key = "key"
        /\ S.reality_short_id = sid
    BY <2>3
  <2>5. /\ S.security \in FieldType.security /\ S.server_name \in FieldType.server_name
        /\ S.reality_public_key \in FieldType.reality_public_key
        /\ S.reality_short_id \in FieldType.reality_short_id
    BY <2>1, <2>2, <2>4, FieldTypes DEF Securities
  <2>6. Patch(S) /\ DOMAIN S \subseteq SecurityFields
    BY <1>2, <2>4, <2>5 DEF Patch
  <2> QED
    BY <1>5, <2>3, <2>6 DEF S, s, q, t, sid
<1>6. s.kind \in {"none", "tls", "reality"}
  BY <1>0 DEF ServerSecurityType, ServerTlsType
<1> QED
  BY <1>3, <1>4, <1>5, <1>6 DEF s

LEMMA TransportImported ==
    ASSUME NEW srv \in VlessServerType
    PROVE  LET T == ParseTransport(BuildShareLink(srv))
               t == srv.transport
           IN /\ Patch(T) /\ DOMAIN T \subseteq TransportFields
              /\ "network" \in DOMAIN T /\ T.network = t.kind /\ t.kind \in Networks
              /\ t.kind # "tcp" => "http_host" \in DOMAIN T /\ T.http_host = t.host
              /\ t.kind = "xhttp" =>
                    /\ {"xhttp_mode", "obfs_mode", "obfs_keys", "session_keys", "uplink_keys"}
                          \subseteq DOMAIN T
                    /\ T.xhttp_mode = t.mode /\ T.obfs_mode = t.obfs
                    /\ t.obfs => T.obfs_keys = t.obfs_keys
                    /\ T.session_keys = t.session
                    /\ t.mode = "packet-up" => T.uplink_keys = t.uplink
<1> DEFINE t == srv.transport
           q == BuildShareLink(srv)
           T == ParseTransport(q)
<1>0. t \in ServerTransportType /\ srv.protocol = "vless"
  BY DEF VlessServerType
<1>1. /\ q.type = t.kind /\ q.host = HostOf(t)
      /\ q.mode = IF t.kind = "xhttp" THEN t.mode ELSE "blank"
      /\ q.extra = IF t.kind = "xhttp" THEN {ExtraParam(t)} ELSE {}
  BY <1>0 DEF BuildShareLink, BuildVlessShareLink
<1>2. {"network", "http_host", "xhttp_mode", "obfs_mode", "obfs_keys", "session_keys", "uplink_keys"}
          \subseteq TransportFields \cap Fields
  BY DEF TransportFields, Fields
<1> HIDE DEF q, t
<1>3. CASE t.kind = "tcp"
  <2>1. T = [network |-> "tcp"]
    BY <1>1, <1>3 DEF ParseTransport
  <2> HIDE DEF T
  <2>2. DOMAIN T = {"network"} /\ T.network = "tcp"
    BY <2>1
  <2>3. T.network \in FieldType.network
    BY <2>2, FieldTypes DEF Networks
  <2>4. Patch(T) /\ DOMAIN T \subseteq TransportFields
    BY <1>2, <2>2, <2>3 DEF Patch
  <2> QED
    BY <1>3, <2>2, <2>4 DEF T, q, t, Networks
<1>4. CASE t.kind = "ws"
  <2>1. t.host \in {"blank", "cdn"} /\ HostOf(t) = t.host
    BY <1>0, <1>4 DEF ServerTransportType, HostOf
  <2>2. T = [network |-> "ws", http_host |-> t.host]
    BY <1>1, <1>4, <2>1 DEF ParseTransport
  <2> HIDE DEF T
  <2>3. DOMAIN T = {"network", "http_host"} /\ T.network = "ws" /\ T.http_host = t.host
    BY <2>2
  <2>4. T.network \in FieldType.network /\ T.http_host \in FieldType.http_host
    BY <2>1, <2>3, FieldTypes DEF Networks
  <2>5. Patch(T) /\ DOMAIN T \subseteq TransportFields
    BY <1>2, <2>3, <2>4 DEF Patch
  <2> QED
    BY <1>4, <2>3, <2>5 DEF T, q, t, Networks
<1>5. CASE t.kind = "xhttp"
  <2>1. /\ t.host = "cdn" /\ HostOf(t) = t.host /\ t.mode \in {"auto", "packet-up"} /\ t.obfs \in BOOLEAN
        /\ t.obfs_keys = "key" /\ t.session \in {"blank", "key"} /\ t.uplink \in {"blank", "key"}
    BY <1>0, <1>5 DEF ServerTransportType, HostOf
  <2> DEFINE x == ExtraParam(t)
             H == [network |-> "xhttp", http_host |-> t.host, xhttp_mode |-> t.mode]
             X == ApplyXhttpExtra(x)
  <2>2. /\ x.obfs = t.obfs /\ x.obfs_keys \in {"blank", "key"} /\ (t.obfs => x.obfs_keys = t.obfs_keys)
        /\ x.session = t.session /\ x.uplink \in {"blank", "key"}
        /\ (t.mode = "packet-up" => x.uplink = t.uplink)
    BY <2>1 DEF ExtraParam
  <2> HIDE DEF x
  <2>3. T = Overlay(H, X)
    <3>1. (CHOOSE y \in q.extra : TRUE) = x
      BY <1>1, <1>5 DEF x
    <3> QED
      BY <1>1, <1>5, <2>1, <3>1 DEF ParseTransport
  <2>4. /\ DOMAIN H = {"network", "http_host", "xhttp_mode"}
        /\ H.network = "xhttp" /\ H.http_host = t.host /\ H.xhttp_mode = t.mode
    OBVIOUS
  <2>5. /\ DOMAIN X = {"obfs_mode", "obfs_keys", "session_keys", "uplink_keys"}
        /\ X.obfs_mode = x.obfs /\ X.obfs_keys = x.obfs_keys /\ X.session_keys = x.session
        /\ X.uplink_keys = x.uplink
    BY DEF ApplyXhttpExtra
  <2> HIDE DEF H, X
  <2>6. Patch(H)
    <3>1. /\ H.network \in FieldType.network /\ H.http_host \in FieldType.http_host
          /\ H.xhttp_mode \in FieldType.xhttp_mode
      BY <2>1, <2>4, FieldTypes DEF Networks
    <3> QED
      BY <1>2, <2>4, <3>1 DEF Patch
  <2>7. Patch(X)
    <3>1. /\ X.obfs_mode \in FieldType.obfs_mode /\ X.obfs_keys \in FieldType.obfs_keys
          /\ X.session_keys \in FieldType.session_keys /\ X.uplink_keys \in FieldType.uplink_keys
      BY <2>1, <2>2, <2>5, FieldTypes
    <3> QED
      BY <1>2, <2>5, <3>1 DEF Patch
  <2>8. (DOMAIN H) \cap (DOMAIN X) = {}
    BY <2>4, <2>5
  <2> DEFINE o == Overlay(H, X)
  <2>9. /\ Patch(o) /\ DOMAIN o = (DOMAIN H) \cup (DOMAIN X)
        /\ \A f \in DOMAIN H : o[f] = H[f]
        /\ \A f \in DOMAIN X : o[f] = X[f]
    <3>1. Holds(o, H, X)
      <4> HIDE DEF H, X
      <4> QED
        BY <2>6, <2>7, <2>8, Laid
    <3> HIDE DEF o
    <3> QED
      BY <3>1 DEF Holds
  <2> HIDE DEF o
  <2>10. T = o
    BY <2>3 DEF o
  <2> HIDE DEF T
  <2>11. /\ o.network = "xhttp" /\ o.http_host = t.host /\ o.xhttp_mode = t.mode
         /\ o.obfs_mode = t.obfs /\ o.obfs_keys = x.obfs_keys /\ o.session_keys = t.session
         /\ o.uplink_keys = x.uplink
    BY <2>2, <2>4, <2>5, <2>9
  <2>12. DOMAIN o = {"network", "http_host", "xhttp_mode", "obfs_mode", "obfs_keys", "session_keys",
                     "uplink_keys"}
    BY <2>4, <2>5, <2>9
  <2>13. DOMAIN o \subseteq TransportFields
    BY <1>2, <2>12
  <2> QED
    BY <1>5, <2>2, <2>9, <2>10, <2>11, <2>12, <2>13 DEF T, q, t, Networks
<1>6. t.kind \in {"tcp", "ws", "xhttp"}
  BY <1>0 DEF ServerTransportType
<1> QED
  BY <1>3, <1>4, <1>5, <1>6 DEF t
\* The mask parameter's fields, and the mask they build over the defaults.
LEMMA MaskImported ==
    ASSUME NEW fm \in ServerMaskType
    PROVE  LET q == MaskParam(fm)
               M == IF q = {} THEN None ELSE ApplyFinalMask(CHOOSE m \in q : TRUE)
               D == OUTBOUND_DEFAULTS
           IN /\ Patch(M) /\ DOMAIN M \subseteq MaskFields
              /\ RunningMask(fm).kind = "none" => DOMAIN M = {}
              /\ RunningMask(fm).kind # "none" =>
                    /\ "finalmask_kind" \in DOMAIN M /\ M.finalmask_kind = fm.kind
                    /\ RunningMask(fm).kind = fm.kind
              /\ \A v \in OutboundFormValues :
                    (/\ RunningMask(ShownMask(fm)) = RunningMask(fm)
                     /\ fm.kind = "noise" => RunningMask(fm).kind = "none"
                     /\ fm.kind = "sudoku" => fm.custom_tables = {}
                     /\ \A f \in DOMAIN M : v[f] = M[f]
                     /\ \A f \in MaskFields \ (DOMAIN M) : v[f] = D[f])
                    => RunningMask(BuildFinalMask(v)) = RunningMask(fm)
<1> DEFINE q == MaskParam(fm)
           r == RunningMask(fm)
           M == IF q = {} THEN None ELSE ApplyFinalMask(CHOOSE m \in q : TRUE)
           D == OUTBOUND_DEFAULTS
<1>0. fm \in MaskType /\ (fm.kind = "sudoku" => fm.custom_table = {})
  BY DEF ServerMaskType
<1>d. /\ D.finalmask_kind = "none" /\ D.sudoku_tables = {}
  BY DefaultsHold
<1>f. /\ MaskFields \subseteq Fields
      /\ {"finalmask_kind", "sudoku_tables", "packets_mode", "packets_from", "packets_to",
          "noise_items", "xmc_profiles"} = MaskFields
  BY DEF MaskFields, Fields
<1> DEFINE Good(m) ==
               /\ Patch(m) /\ DOMAIN m \subseteq MaskFields
               /\ r.kind = "none" => DOMAIN m = {}
               /\ r.kind # "none" =>
                     "finalmask_kind" \in DOMAIN m /\ m.finalmask_kind = fm.kind /\ r.kind = fm.kind
               /\ \A v \in OutboundFormValues :
                     (/\ RunningMask(ShownMask(fm)) = r
                      /\ fm.kind = "noise" => r.kind = "none"
                      /\ fm.kind = "sudoku" => fm.custom_tables = {}
                      /\ \A f \in DOMAIN m : v[f] = m[f]
                      /\ \A f \in MaskFields \ (DOMAIN m) : v[f] = D[f])
                     => RunningMask(BuildFinalMask(v)) = r
<1>1. CASE r.kind = "none"
  <2>1. r = [kind |-> "none"]
    BY <1>0, <1>1 DEF RunningMask, EffectiveMask, MaskType, FragmentType, NoiseType
  <2>2. M = None /\ DOMAIN None = {}
    BY <1>1 DEF MaskParam, Opt, None
  <2> HIDE DEF M, r, D
  <2>3. Patch(M) /\ DOMAIN M = {}
    BY <2>2 DEF Patch
  <2>4. ASSUME NEW v \in OutboundFormValues, \A f \in MaskFields \ (DOMAIN M) : v[f] = D[f]
        PROVE  RunningMask(BuildFinalMask(v)) = r
    <3>1. v.finalmask_kind = "none"
      BY <1>d, <1>f, <2>3, <2>4
    <3>2. BuildFinalMask(v) = [kind |-> "none"]
      BY <3>1 DEF BuildFinalMask
    <3>3. RunningMask([kind |-> "none"]) = [kind |-> "none"]
      BY DEF RunningMask, EffectiveMask
    <3> QED
      BY <2>1, <3>2, <3>3
  <2>5. Good(M)
    BY <1>1, <2>3, <2>4
  <2> QED
    BY <2>5 DEF M, r, D
<1>2. CASE r.kind # "none"
  <2>1. M = ApplyFinalMask(r)
    <3>1. q = {r}
      BY <1>2 DEF MaskParam, Opt
    <3>2. (CHOOSE m \in q : TRUE) = r
      BY <3>1
    <3> QED
      BY <3>1, <3>2
  <2>2. r = EffectiveMask(fm)
    BY <1>2 DEF RunningMask
  <2> HIDE DEF M, D
  <2>3. CASE fm.kind = "salamander"
    <3>1. fm = [kind |-> "salamander"]
      BY <1>0, <2>3 DEF MaskType, FragmentType, NoiseType
    <3>2. r = fm
      BY <2>2, <2>3 DEF EffectiveMask
    <3>a. r.kind = "salamander"
      BY <2>3, <3>2
    <3> HIDE DEF r
    <3>3. M = [finalmask_kind |-> "salamander"]
      BY <2>1, <3>a DEF ApplyFinalMask
    <3>4. DOMAIN M = {"finalmask_kind"} /\ M.finalmask_kind = "salamander"
      BY <3>3
    <3>5. M.finalmask_kind \in FieldType.finalmask_kind
      BY <3>4, FieldTypes DEF MaskKinds
    <3>6. Patch(M)
      BY <1>f, <3>4, <3>5 DEF Patch
    <3>7. ASSUME NEW v \in OutboundFormValues, \A f \in DOMAIN M : v[f] = M[f]
          PROVE  RunningMask(BuildFinalMask(v)) = r
      <4>1. v.finalmask_kind = "salamander"
        BY <3>4, <3>7
      <4>2. BuildFinalMask(v) = [kind |-> "salamander"]
        BY <4>1 DEF BuildFinalMask
      <4> QED
        BY <3>1, <4>2 DEF r
    <3>8. Good(M)
      BY <1>f, <2>3, <3>a, <3>4, <3>6, <3>7
    <3> QED
      BY <3>8 DEF M, r, D
  <2>4. CASE fm.kind = "sudoku"
    <3>1. fm.custom_table = {} /\ fm.custom_tables \in SUBSET {"table"}
      BY <1>0, <2>4 DEF MaskType, FragmentType, NoiseType
    <3>2. r = [kind |-> "sudoku", tables |-> fm.custom_tables]
      BY <2>2, <2>4, <3>1 DEF EffectiveMask
    <3>a. r.kind = "sudoku"
      BY <3>2
    <3> HIDE DEF r
    <3>3. M = [finalmask_kind |-> "sudoku"]
      BY <2>1, <3>a DEF ApplyFinalMask
    <3>4. DOMAIN M = {"finalmask_kind"} /\ M.finalmask_kind = "sudoku"
      BY <3>3
    <3>5. M.finalmask_kind \in FieldType.finalmask_kind
      BY <3>4, FieldTypes DEF MaskKinds
    <3>6. Patch(M)
      BY <1>f, <3>4, <3>5 DEF Patch
    <3>7. ASSUME NEW v \in OutboundFormValues, fm.custom_tables = {},
                 \A f \in DOMAIN M : v[f] = M[f], \A f \in MaskFields \ (DOMAIN M) : v[f] = D[f]
          PROVE  RunningMask(BuildFinalMask(v)) = r
      <4>1. v.finalmask_kind = "sudoku" /\ v.sudoku_tables = {}
        BY <1>d, <1>f, <3>4, <3>7
      <4>2. BuildFinalMask(v) = [kind |-> "sudoku", custom_table |-> {}, custom_tables |-> {}]
        BY <4>1 DEF BuildFinalMask
      <4>3. RunningMask([kind |-> "sudoku", custom_table |-> {}, custom_tables |-> {}])
                = [kind |-> "sudoku", tables |-> {}]
        BY DEF RunningMask, EffectiveMask
      <4> QED
        BY <3>2, <3>7, <4>2, <4>3
    <3>8. Good(M)
      BY <1>f, <2>4, <3>a, <3>4, <3>6, <3>7
    <3> QED
      BY <3>8 DEF M, r, D
  <2>5. CASE fm.kind = "fragment"
    <3>1. fm \in [kind : {"fragment"}, packets : PacketBounds \X PacketBounds, max_split : {Null, 1}]
      BY <1>0, <2>5 DEF MaskType, FragmentType, NoiseType
    <3> DEFINE from == OrZero(fm.packets[1])
               to == OrZero(fm.packets[2])
               split == OrZero(fm.max_split)
               mode == PacketsMode(from, to)
    <3>2. from \in {0, 1, 2} /\ to \in {0, 1, 2}
      BY <3>1 DEF OrZero, PacketBounds, Null
    <3>3. r = [kind |-> "fragment", from |-> from, to |-> to, max_split |-> split]
      BY <2>2, <2>5 DEF EffectiveMask
    <3>b. RunningMask(ShownMask(fm))
             = [kind |-> "fragment", from |-> from, to |-> to, max_split |-> OrZero(Null)]
      <4>1. ShownMask(fm) = [kind |-> "fragment", packets |-> fm.packets, max_split |-> Null]
        BY <2>5, <3>1 DEF ShownMask
      <4> QED
        BY <3>1, <4>1 DEF RunningMask, EffectiveMask
    <3> HIDE DEF r, from, to, split
    <3>4. OrZero(from) = from /\ OrZero(to) = to
      BY <3>2 DEF OrZero, Null
    <3>5. /\ mode \in {"tlshello", "all", "range"}
          /\ mode = "tlshello" => from = 0 /\ to = 1
          /\ mode = "all" => from = 0 /\ to = 0
      BY <3>4 DEF PacketsMode
    <3>a. r.kind = "fragment" /\ r.from = from /\ r.to = to
      BY <3>3
    <3>6. M = Overlay([finalmask_kind |-> "fragment", packets_mode |-> mode],
                      IF mode # "range" THEN None ELSE [packets_from |-> from, packets_to |-> to])
      BY <2>1, <3>a DEF ApplyFinalMask
    <3> HIDE DEF mode
    <3> DEFINE H == [finalmask_kind |-> "fragment", packets_mode |-> mode]
               X == IF mode # "range" THEN None ELSE [packets_from |-> from, packets_to |-> to]
               o == Overlay(H, X)
    <3>7. /\ DOMAIN H = {"finalmask_kind", "packets_mode"}
          /\ H.finalmask_kind = "fragment" /\ H.packets_mode = mode
      OBVIOUS
    <3>8. /\ mode # "range" => DOMAIN X = {}
          /\ mode = "range" =>
                DOMAIN X = {"packets_from", "packets_to"} /\ X.packets_from = from /\ X.packets_to = to
      BY DEF None
    <3> HIDE DEF H, X
    <3>9. Patch(H)
      <4>1. H.finalmask_kind \in FieldType.finalmask_kind /\ H.packets_mode \in FieldType.packets_mode
        BY <3>5, <3>7, FieldTypes DEF MaskKinds
      <4> QED
        BY <1>f, <3>7, <4>1 DEF Patch
    <3>10. Patch(X)
      <4>1. CASE mode # "range"
        BY <3>8, <4>1 DEF Patch
      <4>2. CASE mode = "range"
        <5>1. X.packets_from \in FieldType.packets_from /\ X.packets_to \in FieldType.packets_to
          BY <3>2, <3>8, <4>2, FieldTypes DEF PacketBounds
        <5> QED
          BY <1>f, <3>8, <4>2, <5>1 DEF Patch
      <4> QED
        BY <4>1, <4>2
    <3>11. (DOMAIN H) \cap (DOMAIN X) = {}
      BY <3>7, <3>8
    <3>12. /\ Patch(o) /\ DOMAIN o = (DOMAIN H) \cup (DOMAIN X)
           /\ \A f \in DOMAIN H : o[f] = H[f]
           /\ \A f \in DOMAIN X : o[f] = X[f]
      <4>1. Holds(o, H, X)
        <5> HIDE DEF H, X
        <5> QED
          BY <3>9, <3>10, <3>11, Laid
      <4> HIDE DEF o
      <4> QED
        BY <4>1 DEF Holds
    <3> HIDE DEF o
    <3>13. M = o
      BY <3>6 DEF o, H, X
    <3>14. DOMAIN o \subseteq MaskFields /\ "finalmask_kind" \in DOMAIN o /\ o.finalmask_kind = "fragment"
      BY <1>f, <3>7, <3>8, <3>12
    <3>15. ASSUME NEW v \in OutboundFormValues, \A f \in DOMAIN o : v[f] = o[f],
                  RunningMask(ShownMask(fm)) = r
           PROVE  RunningMask(BuildFinalMask(v)) = r
      <4>1. /\ v.finalmask_kind = "fragment" /\ v.packets_mode = mode
            /\ mode = "range" => v.packets_from = from /\ v.packets_to = to
        BY <3>7, <3>8, <3>12, <3>15
      <4> DEFINE b == BuildPackets(v)
      <4>2. OrZero(b[1]) = from /\ OrZero(b[2]) = to
        <5>1. CASE mode = "tlshello"
          <6>1. b = <<0, 1>>
            BY <4>1, <5>1 DEF BuildPackets
          <6> QED
            BY <3>5, <5>1, <6>1 DEF OrZero, Null
        <5>2. CASE mode = "all"
          <6>1. b = <<0, 0>>
            BY <4>1, <5>2 DEF BuildPackets
          <6> QED
            BY <3>5, <5>2, <6>1 DEF OrZero, Null
        <5>3. CASE mode = "range"
          <6>1. b = <<from, to>>
            BY <4>1, <5>3 DEF BuildPackets
          <6> QED
            BY <3>4, <6>1
        <5> QED
          BY <3>5, <5>1, <5>2, <5>3
      <4> HIDE DEF b
      <4>3. BuildFinalMask(v) = [kind |-> "fragment", packets |-> b, max_split |-> Null]
        BY <4>1 DEF BuildFinalMask, b
      <4>4. RunningMask([kind |-> "fragment", packets |-> b, max_split |-> Null])
                = [kind |-> "fragment", from |-> OrZero(b[1]), to |-> OrZero(b[2]),
                   max_split |-> OrZero(Null)]
        BY DEF RunningMask, EffectiveMask
      <4> QED
        BY <3>b, <3>15, <4>2, <4>3, <4>4
    <3>16. Good(M)
      BY <2>5, <3>a, <3>12, <3>13, <3>14, <3>15
    <3> QED
      BY <3>16 DEF M, r, D
  <2>6. CASE fm.kind = "noise"
    <3>1. fm \in [kind : {"noise"}, items : SUBSET {"blank", "literal", "random"}, reset : {Null, 1}]
      BY <1>0, <2>6 DEF MaskType, FragmentType, NoiseType
    <3>2. r = [fm EXCEPT !.reset = OrZero(@)]
      BY <2>2, <2>6 DEF EffectiveMask
    <3>a. r.kind = "noise" /\ r.items = fm.items
      BY <3>1, <3>2
    <3> DEFINE items == {BuildNoiseItem(i) : i \in fm.items \ {"blank"}}
    <3>3. M = [finalmask_kind |-> "noise", noise_items |-> items]
      BY <2>1, <3>a DEF ApplyFinalMask
    <3>4. items \in SUBSET NoiseItems
      BY <3>1 DEF BuildNoiseItem, NoiseItems
    <3> HIDE DEF items, r
    <3>5. /\ DOMAIN M = {"finalmask_kind", "noise_items"}
          /\ M.finalmask_kind = "noise" /\ M.noise_items = items
      BY <3>3
    <3>6. M.finalmask_kind \in FieldType.finalmask_kind /\ M.noise_items \in FieldType.noise_items
      BY <3>4, <3>5, FieldTypes DEF MaskKinds
    <3>7. Patch(M)
      BY <1>f, <3>5, <3>6 DEF Patch
    <3>8. Good(M)
      BY <1>2, <1>f, <2>6, <3>a, <3>5, <3>7
    <3> QED
      BY <3>8 DEF M, r, D
  <2>7. CASE fm.kind = "xmc"
    <3>1. fm \in [kind : {"xmc"}, profiles : SUBSET {"resolved", "renamed"}]
      BY <1>0, <2>7 DEF MaskType, FragmentType, NoiseType
    <3>2. r = [kind |-> "xmc", profiles |-> fm.profiles]
      BY <2>2, <2>7, <3>1 DEF EffectiveMask
    <3>a. r.kind = "xmc" /\ r.profiles = fm.profiles
      BY <3>2
    <3>b. fm.profiles # {}
      BY <1>2, <2>7 DEF RunningMask
    <3> HIDE DEF r
    <3>3. M = [finalmask_kind |-> "xmc", xmc_profiles |-> fm.profiles]
      BY <2>1, <3>a DEF ApplyFinalMask
    <3>4. /\ DOMAIN M = {"finalmask_kind", "xmc_profiles"}
          /\ M.finalmask_kind = "xmc" /\ M.xmc_profiles = fm.profiles
      BY <3>3
    <3>5. M.finalmask_kind \in FieldType.finalmask_kind /\ M.xmc_profiles \in FieldType.xmc_profiles
      BY <3>1, <3>4, FieldTypes DEF MaskKinds, XmcProfiles
    <3>6. Patch(M)
      BY <1>f, <3>4, <3>5 DEF Patch
    <3>7. ASSUME NEW v \in OutboundFormValues, \A f \in DOMAIN M : v[f] = M[f]
          PROVE  RunningMask(BuildFinalMask(v)) = r
      <4>1. v.finalmask_kind = "xmc" /\ v.xmc_profiles = fm.profiles
        BY <3>4, <3>7
      <4>2. fm.profiles \cap {"resolved", "renamed"} = fm.profiles
        BY <3>1
      <4>3. BuildFinalMask(v) = [kind |-> "xmc", profiles |-> fm.profiles]
        BY <4>1, <4>2 DEF BuildFinalMask
      <4> DEFINE x == fm.profiles
      <4> HIDE DEF x
      <4>4. x # {} => RunningMask([kind |-> "xmc", profiles |-> x]) = [kind |-> "xmc", profiles |-> x]
        BY DEF RunningMask, EffectiveMask
      <4> QED
        BY <3>2, <3>b, <4>3, <4>4 DEF x
    <3>8. Good(M)
      BY <1>f, <2>7, <3>a, <3>4, <3>6, <3>7
    <3> QED
      BY <3>8 DEF M, r, D
  <2>8. fm.kind # "none"
    BY <1>2, <2>2 DEF EffectiveMask
  <2>9. fm.kind \in {"none", "salamander", "sudoku", "fragment", "noise", "xmc"}
    BY <1>0 DEF MaskType, FragmentType, NoiseType
  <2> QED
    BY <2>3, <2>4, <2>5, <2>6, <2>7, <2>8, <2>9
<1> QED
  BY <1>1, <1>2
\* A link to one of the panel's VLESS inbounds, or to another panel's.
LEMMA VlessLink ==
    ASSUME NEW srv \in VlessServerType, NEW current
    PROVE  LET v == ApplyLink(current, BuildShareLink(srv))
           IN /\ v \in OutboundFormValues /\ v.protocol_kind = "vless"
              /\ Keys(v) = <<srv.transport.kind, srv.security.kind>>
              /\ v.finalmask_kind = RunningMask(srv.finalmask).kind
              /\ v.wg_peer = "blank" /\ v.wg_reserved = <<>>
              /\ (MaskAgrees(srv) /\ ~LinkGap(srv)) => Speaks(FormToOutbound(v), srv)
<1> DEFINE t == srv.transport
           s == srv.security
           fm == srv.finalmask
           q == BuildShareLink(srv)
           B == [address |-> "host", uuid |-> q.user, flow |-> q.flow]
           E == ParseEncryption(q.encryption)
           S == ParseSecurity(q)
           T == ParseTransport(q)
           M == IF q.fm = {} THEN None ELSE ApplyFinalMask(CHOOSE m \in q.fm : TRUE)
           R == IF q.reverse = "blank" THEN None ELSE [reverse_tag |-> q.reverse]
           D == OUTBOUND_DEFAULTS
           v == Overlay(Overlay(B, Overlay(E, Overlay(S, Overlay(T, Overlay(M, R))))), D)
<1>0. /\ srv.protocol = "vless" /\ t \in ServerTransportType /\ s \in ServerSecurityType
      /\ fm \in ServerMaskType /\ srv.flow \in {"blank", "vision"} /\ srv.enc \in ServerEncType
      /\ srv.reverse_tag \in {"blank", "tag"}
  BY DEF VlessServerType
<1>q. /\ q.scheme = "vless" /\ q.user = "id" /\ q.flow = srv.flow /\ q.encryption = EncryptionParam(srv)
      /\ q.fm = MaskParam(fm) /\ q.reverse = srv.reverse_tag
  BY <1>0 DEF BuildShareLink, BuildVlessShareLink
<1>1. ApplyLink(current, q) = v
  BY <1>q DEF ApplyLink, ParseOutboundLink
<1>d. /\ D.protocol_kind = "vless" /\ D.finalmask_kind = "none" /\ D.reverse_tag = "blank"
      /\ D.wg_peer = "blank" /\ D.wg_reserved = <<>> /\ D.tls_pins = {}
  BY DefaultsHold
<1>f. /\ {"protocol_kind", "finalmask_kind", "reverse_tag", "wg_peer", "wg_reserved", "tls_pins",
          "address", "uuid", "flow", "encryption_mode", "encryption_client_key",
          "encryption_padding"} \subseteq Fields
      /\ MaskFields \subseteq Fields
      /\ {"protocol_kind", "reverse_tag", "wg_peer", "wg_reserved", "address", "uuid", "flow",
          "encryption_mode", "encryption_client_key", "encryption_padding"}
            \cap (SecurityFields \cup TransportFields \cup MaskFields) = {}
      /\ SecurityFields \cap MaskFields = {} /\ TransportFields \cap MaskFields = {}
      /\ SecurityFields \cap TransportFields = {} /\ "finalmask_kind" \in MaskFields
      /\ "tls_pins" \in SecurityFields
  BY DEF Fields, ProtocolFields, TransportFields, SecurityFields, MaskFields
<1>B. /\ Patch(B) /\ DOMAIN B = {"address", "uuid", "flow"}
      /\ B.address = "host" /\ B.uuid = "id" /\ B.flow = srv.flow
  <2>1. /\ DOMAIN B = {"address", "uuid", "flow"}
        /\ B.address = "host" /\ B.uuid = "id" /\ B.flow = srv.flow
    BY <1>q
  <2> HIDE DEF B
  <2>2. /\ B.address \in FieldType.address /\ B.uuid \in FieldType.uuid /\ B.flow \in FieldType.flow
    BY <1>0, <2>1, FieldTypes
  <2>3. Patch(B)
    BY <1>f, <2>1, <2>2 DEF Patch
  <2> QED
    BY <2>1, <2>3
<1>E. /\ Patch(E)
      /\ DOMAIN E \subseteq {"encryption_mode", "encryption_client_key", "encryption_padding"}
      /\ "encryption_mode" \in DOMAIN E
      /\ srv.enc = {} => E.encryption_mode = "none"
      /\ \A e \in srv.enc :
            /\ DOMAIN E = {"encryption_mode", "encryption_client_key", "encryption_padding"}
            /\ E.encryption_mode = "mlkem768x25519plus" /\ E.encryption_client_key = e.key
            /\ E.encryption_padding = e.padding
  <2>1. /\ srv.enc = {} => E = [encryption_mode |-> "none"]
        /\ \A e \in srv.enc :
              E = [encryption_mode |-> "mlkem768x25519plus", encryption_padding |-> e.padding,
                   encryption_client_key |-> e.key]
    BY <1>0, <1>q, EncryptionImported
  <2> HIDE DEF E
  <2>2. CASE srv.enc = {}
    <3>1. DOMAIN E = {"encryption_mode"} /\ E.encryption_mode = "none"
      BY <2>1, <2>2
    <3>2. E.encryption_mode \in FieldType.encryption_mode
      BY <3>1, FieldTypes
    <3>3. Patch(E)
      BY <1>f, <3>1, <3>2 DEF Patch
    <3> QED
      BY <2>2, <3>1, <3>3
  <2>3. CASE srv.enc # {}
    <3>1. PICK e \in [key : {"key"}, padding : Paddings] : srv.enc = {e}
      BY <1>0, <2>3 DEF ServerEncType
    <3>2. /\ DOMAIN E = {"encryption_mode", "encryption_client_key", "encryption_padding"}
          /\ E.encryption_mode = "mlkem768x25519plus" /\ E.encryption_client_key = e.key
          /\ E.encryption_padding = e.padding
      BY <2>1, <3>1
    <3>3. /\ E.encryption_mode \in FieldType.encryption_mode
          /\ E.encryption_client_key \in FieldType.encryption_client_key
          /\ E.encryption_padding \in FieldType.encryption_padding
      BY <3>1, <3>2, FieldTypes
    <3>4. Patch(E)
      BY <1>f, <3>2, <3>3 DEF Patch
    <3> QED
      BY <3>1, <3>2, <3>4
  <2> QED
    BY <2>2, <2>3
<1>S. /\ Patch(S) /\ DOMAIN S \subseteq SecurityFields
      /\ s.kind \in {"none", "tls", "reality"}
      /\ s.kind = "none" => S = [security |-> "none"]
      /\ s.kind = "tls" =>
            S = [security |-> "tls", server_name |-> EffectiveSni(s, HostOf(t)), tls_alpn |-> s.alpn]
      /\ s.kind = "reality" =>
            S = [security |-> "reality", server_name |-> s.sni, reality_public_key |-> "key",
                 reality_short_id |-> HeadOr(s.short_ids, "blank")]
  BY SecurityImported
<1>T. /\ Patch(T) /\ DOMAIN T \subseteq TransportFields
      /\ "network" \in DOMAIN T /\ T.network = t.kind /\ t.kind \in Networks
      /\ t.kind # "tcp" => "http_host" \in DOMAIN T /\ T.http_host = t.host
      /\ t.kind = "xhttp" =>
            /\ {"xhttp_mode", "obfs_mode", "obfs_keys", "session_keys", "uplink_keys"} \subseteq DOMAIN T
            /\ T.xhttp_mode = t.mode /\ T.obfs_mode = t.obfs
            /\ t.obfs => T.obfs_keys = t.obfs_keys
            /\ T.session_keys = t.session
            /\ t.mode = "packet-up" => T.uplink_keys = t.uplink
  BY TransportImported
<1>M. /\ Patch(M) /\ DOMAIN M \subseteq MaskFields
      /\ RunningMask(fm).kind = "none" => DOMAIN M = {}
      /\ RunningMask(fm).kind # "none" =>
            /\ "finalmask_kind" \in DOMAIN M /\ M.finalmask_kind = fm.kind
            /\ RunningMask(fm).kind = fm.kind
      /\ \A x \in OutboundFormValues :
            (/\ RunningMask(ShownMask(fm)) = RunningMask(fm)
             /\ fm.kind = "noise" => RunningMask(fm).kind = "none"
             /\ fm.kind = "sudoku" => fm.custom_tables = {}
             /\ \A f \in DOMAIN M : x[f] = M[f]
             /\ \A f \in MaskFields \ (DOMAIN M) : x[f] = D[f])
            => RunningMask(BuildFinalMask(x)) = RunningMask(fm)
  <2> DEFINE m == MaskParam(fm)
             N == IF m = {} THEN None ELSE ApplyFinalMask(CHOOSE x \in m : TRUE)
  <2>1. M = N
    BY <1>q
  <2>2. /\ Patch(N) /\ DOMAIN N \subseteq MaskFields
        /\ RunningMask(fm).kind = "none" => DOMAIN N = {}
        /\ RunningMask(fm).kind # "none" =>
              /\ "finalmask_kind" \in DOMAIN N /\ N.finalmask_kind = fm.kind
              /\ RunningMask(fm).kind = fm.kind
        /\ \A x \in OutboundFormValues :
              (/\ RunningMask(ShownMask(fm)) = RunningMask(fm)
               /\ fm.kind = "noise" => RunningMask(fm).kind = "none"
               /\ fm.kind = "sudoku" => fm.custom_tables = {}
               /\ \A f \in DOMAIN N : x[f] = N[f]
               /\ \A f \in MaskFields \ (DOMAIN N) : x[f] = D[f])
              => RunningMask(BuildFinalMask(x)) = RunningMask(fm)
    BY <1>0, MaskImported
  <2> HIDE DEF M, N, D
  <2> QED
    BY <2>1, <2>2
<1>R. /\ Patch(R) /\ DOMAIN R \subseteq {"reverse_tag"}
      /\ srv.reverse_tag = "blank" => DOMAIN R = {}
      /\ srv.reverse_tag # "blank" => DOMAIN R = {"reverse_tag"} /\ R.reverse_tag = srv.reverse_tag
  <2>1. /\ srv.reverse_tag = "blank" => DOMAIN R = {}
        /\ srv.reverse_tag # "blank" => DOMAIN R = {"reverse_tag"} /\ R.reverse_tag = srv.reverse_tag
    BY <1>q DEF None
  <2> HIDE DEF R
  <2>2. srv.reverse_tag # "blank" => R.reverse_tag \in FieldType.reverse_tag
    BY <1>0, <2>1, FieldTypes
  <2>3. Patch(R)
    BY <1>f, <2>1, <2>2 DEF Patch
  <2> QED
    BY <2>1, <2>3
<1> HIDE DEF B, E, S, T, M, R
<1>2. /\ v \in OutboundFormValues
      /\ \A f \in DOMAIN B : v[f] = B[f]
      /\ \A f \in DOMAIN E : v[f] = E[f]
      /\ \A f \in DOMAIN S : v[f] = S[f]
      /\ \A f \in DOMAIN T : v[f] = T[f]
      /\ \A f \in DOMAIN M : v[f] = M[f]
      /\ \A f \in DOMAIN R : v[f] = R[f]
      /\ \A f \in Fields \ ((DOMAIN B) \cup (DOMAIN E) \cup (DOMAIN S) \cup (DOMAIN T)
                                \cup (DOMAIN M) \cup (DOMAIN R)) : v[f] = D[f]
  BY <1>B, <1>E, <1>S, <1>T, <1>M, <1>R, Imported
<1> HIDE DEF v, q, D, t, s, fm
<1>3. v.protocol_kind = "vless" /\ v.wg_peer = "blank" /\ v.wg_reserved = <<>>
  BY <1>2, <1>d, <1>f, <1>B, <1>E, <1>S, <1>T, <1>M, <1>R
<1>4. v.network = t.kind
  BY <1>2, <1>T
<1>5. v.security = s.kind
  <2>1. "security" \in DOMAIN S /\ S.security = s.kind
    BY <1>S
  <2> QED
    BY <1>2, <2>1
<1>6. v.finalmask_kind = RunningMask(fm).kind
  BY <1>2, <1>d, <1>f, <1>B, <1>E, <1>S, <1>T, <1>M, <1>R
<1>7. Keys(v) = <<t.kind, s.kind>>
  BY <1>3, <1>4, <1>5 DEF Keys
<1> DEFINE ob == FormToOutbound(v)
<1>8. ASSUME MaskAgrees(srv), ~LinkGap(srv) PROVE Speaks(ob, srv)
  <2>1. /\ ob.protocol = BuildProtocol(v) /\ ob.protocol.kind = "vless"
        /\ ob.transport = BuildTransport(v) /\ ob.transport.kind = t.kind
        /\ ob.security = BuildSecurity(v) /\ ob.security.kind = s.kind
        /\ ob.finalmask = BuildFinalMask(v)
    BY <1>2, <1>3, <1>4, <1>5, BuiltIsTyped
  <2> HIDE DEF ob
  <2>2. RunningMask(ob.finalmask) = RunningMask(fm)
    <3>1. fm.kind = "sudoku" => fm.custom_tables = {}
      BY <1>8 DEF LinkGap, fm
    <3>2. fm.kind = "noise" => RunningMask(fm).kind = "none"
      <4>1. RunningMask(fm).kind \in {"none"} \cup SupportedKinds(t.kind, s.kind)
        BY <1>8 DEF MaskAgrees, fm, t, s
      <4>2. "noise" \notin SupportedKinds(t.kind, s.kind)
        BY <1>T DEF SupportedKinds, Networks
      <4> QED
        BY <1>M, <4>1, <4>2
    <3>3. \A f \in MaskFields \ (DOMAIN M) : v[f] = D[f]
      BY <1>2, <1>f, <1>B, <1>E, <1>S, <1>T, <1>R
    <3>4. RunningMask(ShownMask(fm)) = RunningMask(fm)
      BY <1>8 DEF LinkGap, fm
    <3> QED
      BY <1>2, <1>M, <2>1, <3>1, <3>2, <3>3, <3>4
  <2>3. SpeaksVless(ob, srv)
    <3>1. ob.protocol.id = "id" /\ ob.protocol.flow = srv.flow
      <4>1. v.uuid = "id" /\ v.flow = srv.flow
        BY <1>2, <1>B
      <4> QED
        BY <1>3, <2>1, <4>1 DEF BuildProtocol
    <3>2. ob.protocol.enc = srv.enc
      <4> DEFINE enc == Opt(v.encryption_mode # "none",
                            [key |-> v.encryption_client_key, padding |-> v.encryption_padding])
      <4>1. ob.protocol.enc = enc
        BY <1>3, <2>1 DEF BuildProtocol
      <4>2. CASE srv.enc = {}
        <5>1. v.encryption_mode = "none"
          BY <1>2, <1>E, <4>2
        <5> QED
          BY <4>1, <4>2, <5>1 DEF Opt
      <4>3. CASE srv.enc # {}
        <5>1. PICK e \in [key : {"key"}, padding : Paddings] : srv.enc = {e}
          BY <1>0, <4>3 DEF ServerEncType
        <5>2. /\ v.encryption_mode = "mlkem768x25519plus" /\ v.encryption_client_key = e.key
              /\ v.encryption_padding = e.padding
          BY <1>2, <1>E, <5>1
        <5>3. enc = {[key |-> e.key, padding |-> e.padding]}
          BY <5>2 DEF Opt
        <5>4. e = [key |-> e.key, padding |-> e.padding]
          BY <5>1
        <5> QED
          BY <4>1, <5>1, <5>3, <5>4
      <4> QED
        BY <4>2, <4>3
    <3>3. ob.protocol.reverse_tag = srv.reverse_tag
      <4>1. v.reverse_tag = srv.reverse_tag
        BY <1>2, <1>d, <1>f, <1>B, <1>E, <1>S, <1>T, <1>M, <1>R
      <4> QED
        BY <1>3, <2>1, <4>1 DEF BuildProtocol
    <3>4. t.kind # "tcp" => ob.transport.host = t.host
      <4>1. ASSUME t.kind # "tcp" PROVE ob.transport.host = t.host
        <5>1. v.http_host = t.host
          BY <1>2, <1>T, <4>1
        <5>2. t.kind \in {"ws", "xhttp"}
          BY <1>T, <4>1 DEF Networks
        <5> QED
          BY <1>3, <1>4, <2>1, <5>1, <5>2 DEF BuildTransport
      <4> QED
        BY <4>1
    <3>5. t.kind = "xhttp" =>
             /\ ob.transport.mode = t.mode /\ ob.transport.obfs = t.obfs
             /\ t.obfs => ob.transport.obfs_keys = t.obfs_keys
             /\ ob.transport.session = t.session
             /\ t.mode = "packet-up" => ob.transport.uplink = t.uplink
      <4>1. ASSUME t.kind = "xhttp"
            PROVE  /\ v.xhttp_mode = t.mode /\ v.obfs_mode = t.obfs
                   /\ t.obfs => v.obfs_keys = t.obfs_keys
                   /\ v.session_keys = t.session
                   /\ t.mode = "packet-up" => v.uplink_keys = t.uplink
        BY <1>2, <1>T, <4>1
      <4>2. t.kind = "xhttp" =>
               /\ ob.transport.mode = v.xhttp_mode /\ ob.transport.obfs = v.obfs_mode
               /\ ob.transport.obfs_keys = v.obfs_keys /\ ob.transport.session = v.session_keys
               /\ ob.transport.uplink = v.uplink_keys
        BY <1>3, <1>4, <2>1 DEF BuildTransport
      <4> QED
        BY <4>1, <4>2
    <3> QED
      BY <2>1, <3>1, <3>2, <3>3, <3>4, <3>5 DEF SpeaksVless, t
  <2>4. SpeaksSecurity(ob, srv)
    <3> DEFINE c == ob.security
    <3>1. s.kind = "reality" =>
             /\ HeadOr(c.server_names, "blank") = s.sni /\ c.public_key = "key"
             /\ HeadOr(c.short_ids, "blank") = HeadOr(s.short_ids, "blank")
      <4>1. ASSUME s.kind = "reality"
            PROVE  /\ v.server_name = s.sni /\ v.reality_public_key = "key"
                   /\ v.reality_short_id = HeadOr(s.short_ids, "blank")
        <5> DEFINE sid == HeadOr(s.short_ids, "blank")
        <5> HIDE DEF sid
        <5>1. /\ {"server_name", "reality_public_key", "reality_short_id"} \subseteq DOMAIN S
              /\ S.server_name = s.sni /\ S.reality_public_key = "key" /\ S.reality_short_id = sid
          BY <1>S, <4>1 DEF sid
        <5> QED
          BY <1>2, <5>1 DEF sid
      <4>2. s.kind = "reality" =>
               /\ c.server_names = <<v.server_name>> /\ c.public_key = v.reality_public_key
               /\ c.short_ids = <<v.reality_short_id>>
        BY <1>3, <1>5, <2>1 DEF BuildSecurity
      <4>3. \A x : HeadOr(<<x>>, "blank") = x
        BY DEF HeadOr
      <4> QED
        BY <4>1, <4>2, <4>3
    <3>2. s.kind = "tls" =>
             /\ s.sni # "blank" => c.server_name = s.sni
             /\ s.self_signed => c.pins = {"pin"}
             /\ UNION c.alpn = s.alpn
      <4>1. ASSUME s.kind = "tls"
            PROVE  /\ s.sni # "blank" => c.server_name = s.sni
                   /\ s.self_signed => c.pins = {"pin"}
                   /\ UNION c.alpn = s.alpn
        <5>1. ~s.self_signed
          BY <1>0, <1>8, <4>1 DEF LinkGap, s
        <5>2. v.server_name = EffectiveSni(s, HostOf(t)) /\ v.tls_alpn = s.alpn
          <6> DEFINE sni == EffectiveSni(s, HostOf(t))
          <6> HIDE DEF sni
          <6>1. /\ {"server_name", "tls_alpn"} \subseteq DOMAIN S
                /\ S.server_name = sni /\ S.tls_alpn = s.alpn
            BY <1>S, <4>1 DEF sni
          <6> QED
            BY <1>2, <6>1 DEF sni
        <5>3. c.server_name = v.server_name /\ c.alpn = Opt(v.tls_alpn # {}, v.tls_alpn)
          BY <1>3, <1>5, <2>1, <4>1 DEF BuildSecurity
        <5>4. s.sni # "blank" => EffectiveSni(s, HostOf(t)) = s.sni
          BY DEF EffectiveSni
        <5>5. UNION c.alpn = v.tls_alpn
          BY <5>3 DEF Opt
        <5> QED
          BY <5>1, <5>2, <5>3, <5>4, <5>5
      <4> QED
        BY <4>1
    <3> QED
      BY <2>1, <3>1, <3>2 DEF SpeaksSecurity, s
  <2> QED
    BY <1>0, <2>1, <2>2, <2>3, <2>4 DEF Speaks, fm
<1> QED
  BY <1>1, <1>2, <1>3, <1>6, <1>7, <1>8 DEF q, t, s, fm, ob
\* A link to one of the panel's Hysteria inbounds.
LEMMA HysteriaLink ==
    ASSUME NEW srv \in QuicServerType, NEW current
    PROVE  LET v == ApplyLink(current, BuildShareLink(srv))
           IN /\ v \in OutboundFormValues /\ v.protocol_kind = "hysteria" /\ v.security = "tls"
              /\ Keys(v) = <<"hysteria", "tls">>
              /\ v.finalmask_kind \in {"none", "salamander"}
              /\ v.wg_peer = "blank" /\ v.wg_reserved = <<>>
              /\ ~LinkGap(srv) => Speaks(FormToOutbound(v), srv)
<1> DEFINE s == srv.security
           fm == srv.finalmask
           q == BuildShareLink(srv)
           H == [protocol_kind |-> "hysteria", address |-> "host", hysteria_auth |-> q.user,
                 security |-> "tls", server_name |-> q.sni, tls_pins |-> q.pins, tls_alpn |-> q.alpn]
           X == IF q.obfs THEN [finalmask_kind |-> "salamander"] ELSE None
           o == Overlay(H, X)
           D == OUTBOUND_DEFAULTS
           v == Overlay(o, D)
<1>0. /\ srv.protocol = "hysteria2" /\ srv.transport = [kind |-> "hysteria"]
      /\ s \in ServerTlsType /\ s.sni = "sni" /\ s.kind = "tls" /\ s.self_signed \in BOOLEAN
      /\ fm \in ServerMaskType
  BY DEF QuicServerType, ServerTlsType
<1>q. /\ q.scheme = "hysteria2" /\ q.user = "password" /\ q.sni = "sni" /\ q.alpn = {"h3"}
      /\ q.pins = IF s.self_signed THEN {"pin"} ELSE {}
      /\ q.obfs = (fm.kind = "salamander")
  BY <1>0 DEF BuildShareLink, BuildHysteria2ShareLink, EffectiveSni
<1>1. ApplyLink(current, q) = v
  BY <1>q DEF ApplyLink, ParseOutboundLink, ParseHysteriaLink
<1>d. D.finalmask_kind = "none" /\ D.wg_peer = "blank" /\ D.wg_reserved = <<>>
  BY DefaultsHold
<1>f. /\ {"protocol_kind", "address", "hysteria_auth", "security", "server_name", "tls_pins",
          "tls_alpn", "finalmask_kind", "wg_peer", "wg_reserved"} \subseteq Fields
  BY DEF Fields, ProtocolFields, TransportFields, SecurityFields, MaskFields
<1>H. /\ Patch(H)
      /\ DOMAIN H = {"protocol_kind", "address", "hysteria_auth", "security", "server_name",
                     "tls_pins", "tls_alpn"}
      /\ H.protocol_kind = "hysteria" /\ H.hysteria_auth = "password" /\ H.security = "tls"
      /\ H.server_name = "sni" /\ H.tls_pins = q.pins
  <2>1. /\ DOMAIN H = {"protocol_kind", "address", "hysteria_auth", "security", "server_name",
                       "tls_pins", "tls_alpn"}
        /\ H.protocol_kind = "hysteria" /\ H.address = "host" /\ H.hysteria_auth = "password"
        /\ H.security = "tls" /\ H.server_name = "sni" /\ H.tls_pins = q.pins /\ H.tls_alpn = {"h3"}
    BY <1>q
  <2> HIDE DEF H
  <2>2. q.pins \in SUBSET {"pin"}
    BY <1>q
  <2>3. /\ H.protocol_kind \in FieldType.protocol_kind /\ H.address \in FieldType.address
        /\ H.hysteria_auth \in FieldType.hysteria_auth /\ H.security \in FieldType.security
        /\ H.server_name \in FieldType.server_name /\ H.tls_pins \in FieldType.tls_pins
        /\ H.tls_alpn \in FieldType.tls_alpn
    BY <2>1, <2>2, FieldTypes DEF Protocols, Securities
  <2>4. Patch(H)
    BY <1>f, <2>1, <2>3 DEF Patch
  <2> QED
    BY <2>1, <2>4
<1>X. /\ Patch(X)
      /\ fm.kind = "salamander" => DOMAIN X = {"finalmask_kind"} /\ X.finalmask_kind = "salamander"
      /\ fm.kind # "salamander" => DOMAIN X = {}
  <2>1. /\ fm.kind = "salamander" => DOMAIN X = {"finalmask_kind"} /\ X.finalmask_kind = "salamander"
        /\ fm.kind # "salamander" => DOMAIN X = {}
    BY <1>q DEF None
  <2> HIDE DEF X
  <2>2. fm.kind = "salamander" => X.finalmask_kind \in FieldType.finalmask_kind
    BY <2>1, FieldTypes DEF MaskKinds
  <2>3. Patch(X)
    BY <1>f, <2>1, <2>2 DEF Patch
  <2> QED
    BY <2>1, <2>3
<1> HIDE DEF H, X
<1>2. /\ Patch(o) /\ DOMAIN o = (DOMAIN H) \cup (DOMAIN X)
      /\ \A f \in DOMAIN H : o[f] = H[f]
      /\ \A f \in DOMAIN X : o[f] = X[f]
  <2>1. (DOMAIN H) \cap (DOMAIN X) = {}
    BY <1>H, <1>X
  <2> QED
    <3>1. Holds(o, H, X)
      BY <1>H, <1>X, <2>1, Laid
    <3> HIDE DEF o
    <3> QED
      BY <3>1 DEF Holds
<1> HIDE DEF o
<1>3. /\ v \in OutboundFormValues
      /\ \A f \in DOMAIN o : v[f] = o[f]
      /\ \A f \in Fields \ (DOMAIN o) : v[f] = D[f]
  BY <1>2, LaidOverDefaults
<1> HIDE DEF v, q, D, s, fm
<1>4. /\ v.protocol_kind = "hysteria" /\ v.security = "tls" /\ v.hysteria_auth = "password"
      /\ v.server_name = "sni" /\ v.tls_pins = q.pins
  BY <1>2, <1>3, <1>H
<1>5. v.wg_peer = "blank" /\ v.wg_reserved = <<>>
  BY <1>2, <1>3, <1>d, <1>f, <1>H, <1>X
<1>6. v.finalmask_kind = IF fm.kind = "salamander" THEN "salamander" ELSE "none"
  BY <1>2, <1>3, <1>d, <1>f, <1>H, <1>X
<1>7. Keys(v) = <<"hysteria", "tls">>
  BY <1>4 DEF Keys
<1> DEFINE ob == FormToOutbound(v)
<1>8. ASSUME ~LinkGap(srv) PROVE Speaks(ob, srv)
  <2>1. /\ ob.protocol.kind = "hysteria" /\ ob.transport = BuildTransport(v)
        /\ ob.security = BuildSecurity(v) /\ ob.security.kind = "tls"
        /\ ob.finalmask = BuildFinalMask(v)
    BY <1>3, <1>4, BuiltIsTyped
  <2> HIDE DEF ob
  <2>2. ob.transport.auth = "password"
    BY <1>4, <2>1 DEF BuildTransport
  <2>3. ob.security.server_name = "sni" /\ ob.security.pins = q.pins
    BY <1>4, <2>1 DEF BuildSecurity
  <2>4. SpeaksSecurity(ob, srv)
    BY <1>0, <1>q, <2>1, <2>3 DEF SpeaksSecurity, s
  <2>5. RunningMask(fm).kind \in {"none", "salamander"}
    BY <1>0, <1>8 DEF LinkGap, fm
  <2>6. RunningMask(ob.finalmask) = RunningMask(fm)
    <3>1. fm \in MaskType
      BY <1>0 DEF ServerMaskType
    <3>2. CASE fm.kind = "salamander"
      <4>1. fm = [kind |-> "salamander"]
        BY <3>1, <3>2 DEF MaskType, FragmentType, NoiseType
      <4>2. ob.finalmask = [kind |-> "salamander"]
        BY <1>6, <2>1, <3>2 DEF BuildFinalMask
      <4> QED
        BY <4>1, <4>2
    <3>3. CASE fm.kind # "salamander"
      <4>1. ob.finalmask = [kind |-> "none"]
        BY <1>6, <2>1, <3>3 DEF BuildFinalMask
      <4>2. RunningMask([kind |-> "none"]) = [kind |-> "none"]
        BY DEF RunningMask, EffectiveMask
      <4>3. RunningMask(fm) = [kind |-> "none"]
        BY <2>5, <3>1, <3>3 DEF RunningMask, EffectiveMask, MaskType, FragmentType, NoiseType
      <4> QED
        BY <4>1, <4>2, <4>3
    <3> QED
      BY <3>2, <3>3
  <2> QED
    BY <1>0, <2>1, <2>2, <2>4, <2>6 DEF Speaks, fm
<1> QED
  BY <1>1, <1>3, <1>4, <1>5, <1>6, <1>7, <1>8 DEF q, ob

\* What an import may leave in the store, whichever panel made the link.
Importable(v) ==
    /\ v \in OutboundFormValues
    /\ v.protocol_kind = "hysteria" => v.security = "tls"
    /\ v.wg_peer = "blank" /\ v.wg_reserved = <<>>

LEMMA ServerLink ==
    ASSUME NEW srv \in Servers, NEW current
    PROVE  LET v == ApplyLink(current, BuildShareLink(srv))
           IN /\ Importable(v)
              /\ v.finalmask_kind \in {"none"} \cup SupportedKinds(Keys(v)[1], Keys(v)[2])
              /\ ~LinkGap(srv) => Speaks(FormToOutbound(v), srv)
<1> DEFINE v == ApplyLink(current, BuildShareLink(srv))
<1>0. srv \in VlessServerType \cup QuicServerType /\ MaskAgrees(srv)
  BY ServersTyped
<1>1. CASE srv \in VlessServerType
  <2>1. /\ v \in OutboundFormValues /\ v.protocol_kind = "vless"
        /\ Keys(v) = <<srv.transport.kind, srv.security.kind>>
        /\ v.finalmask_kind = RunningMask(srv.finalmask).kind
        /\ v.wg_peer = "blank" /\ v.wg_reserved = <<>>
        /\ (MaskAgrees(srv) /\ ~LinkGap(srv)) => Speaks(FormToOutbound(v), srv)
    BY <1>1, VlessLink
  <2> HIDE DEF v
  <2>2. Keys(v)[1] = srv.transport.kind /\ Keys(v)[2] = srv.security.kind
    BY <2>1
  <2>3. v.finalmask_kind \in {"none"} \cup SupportedKinds(Keys(v)[1], Keys(v)[2])
    BY <1>0, <2>1, <2>2 DEF MaskAgrees
  <2> QED
    BY <1>0, <2>1, <2>3 DEF v, Importable
<1>2. CASE srv \in QuicServerType
  <2>1. /\ v \in OutboundFormValues /\ v.protocol_kind = "hysteria" /\ v.security = "tls"
        /\ Keys(v) = <<"hysteria", "tls">>
        /\ v.finalmask_kind \in {"none", "salamander"}
        /\ v.wg_peer = "blank" /\ v.wg_reserved = <<>>
        /\ ~LinkGap(srv) => Speaks(FormToOutbound(v), srv)
    BY <1>2, HysteriaLink
  <2> HIDE DEF v
  <2>2. Keys(v)[1] = "hysteria"
    BY <2>1
  <2>3. v.finalmask_kind \in {"none"} \cup SupportedKinds(Keys(v)[1], Keys(v)[2])
    BY <2>1, <2>2 DEF SupportedKinds
  <2> QED
    BY <2>1, <2>3 DEF v, Importable
<1> QED
  BY <1>0, <1>1, <1>2

LEMMA ForeignLink ==
    ASSUME NEW q \in ForeignLinks, NEW current
    PROVE  Importable(ApplyLink(current, q))
<1> DEFINE Secs == {[kind |-> "none"], [kind |-> "reality", sni |-> "sni", short_ids |-> <<"sid">>]}
           noise == [kind |-> "noise", items |-> {"random"}, reset |-> Null]
           tcp == [kind |-> "tcp"]
<1>1. PICK s \in Secs : q = BuildShareLink(VlessServer(tcp, s, noise, "blank", {}, "blank"))
  BY DEF ForeignLinks
<1>2. s \in ServerSecurityType /\ noise \in ServerMaskType /\ tcp \in ServerTransportType /\ {} \in ServerEncType
  BY DEF ServerSecurityType, ServerMaskType, MaskType, NoiseType, ServerTransportType, ServerEncType
<1> HIDE DEF noise, tcp
<1> DEFINE srv == VlessServer(tcp, s, noise, "blank", {}, "blank")
<1>3. srv \in VlessServerType
  BY <1>2, VlessServerTyped
<1> HIDE DEF srv
<1>4. q = BuildShareLink(srv)
  BY <1>1 DEF srv
<1> QED
  BY <1>3, <1>4, VlessLink DEF Importable
-----------------------------------------------------------------------------
(* The inductive invariant.                                                *)

Supported(v) == SupportedKinds(Keys(v)[1], Keys(v)[2])

\* A mask the matrix has judged is one the transport and the security can run,
\* unless a foreign link brought it without moving either.
MaskFits(v, m, u) ==
    (m = "known" /\ "mask" \notin u) => v.finalmask_kind \in {"none"} \cup Supported(v)

\* What no guard in the form looks after holds by the steps that change it.
SelectorsAgree(v, u) ==
    /\ ("security" \notin u /\ v.protocol_kind = "hysteria") => v.security = "tls"
    /\ "tunnel" \notin u => (v.wg_peer \in {"blank", "good"} /\ Len(v.wg_reserved) \in {0, 3})

\* The mask fields as hydrated, or a mask the matrix took.
MaskAsHydrated(v, m, w, ob) ==
    /\ \A f \in MaskFields \ {"finalmask_kind"} : v[f] = w[f]
    /\ v.network = w.network /\ v.security = w.security
    /\ \/ v.finalmask_kind = w.finalmask_kind
       \/ /\ v.finalmask_kind = "none" /\ m = "known"
          /\ DroppedOnOpen(ob) \/ ob.finalmask.kind \notin Supported(v)

\* The layers outside t hold what the row w was hydrated into.
AsHydrated(v, m, t, w, ob) ==
    /\ t # Layers => v.protocol_kind = w.protocol_kind /\ v.mux_enabled = w.mux_enabled
    /\ "protocol" \notin t => \A f \in ProtocolFields : v[f] = w[f]
    /\ "transport" \notin t => \A f \in TransportFields : v[f] = w[f]
    /\ "security" \notin t => \A f \in SecurityFields : v[f] = w[f]
    /\ "finalmask" \notin t => MaskAsHydrated(v, m, w, ob)

StoredInv ==
    /\ \A ob \in stored : Kept(ob)
    /\ \A a, b \in stored : a = b
    /\ editing \in BOOLEAN /\ (editing => stored # {})

TypeInv ==
    /\ form \in OutboundFormValues
    /\ stage \in {"closed", "opening", "open"}
    /\ matrix \in {"pending", "known", "failed"}
    /\ touched \subseteq Layers /\ unguarded \subseteq {"security", "tunnel", "mask"}

\* Before its fields register, the form is exactly what it was opened on.
OpeningInv ==
    stage = "opening" =>
        /\ touched = {} /\ unguarded = {}
        /\ IF editing THEN \A ob \in stored : form = OutboundToForm(ob)
           ELSE form = OUTBOUND_DEFAULTS

OpenInv ==
    stage = "open" =>
        /\ MaskFits(form, matrix, unguarded)
        /\ SelectorsAgree(form, unguarded)
        /\ (~editing /\ touched = {}) => form.protocol_kind = "vless" /\ form.address = "blank"
        /\ editing => \A ob \in stored : AsHydrated(form, matrix, touched, OutboundToForm(ob), ob)

\* A pasted link stands as it was imported.
LinkInv ==
    /\ link \subseteq Servers /\ \A a, b \in link : a = b
    /\ link # {} => stage = "open"
    /\ \A srv \in link : form = ApplyLink(form, BuildShareLink(srv))

IInv == StoredInv /\ TypeInv /\ OpeningInv /\ OpenInv /\ LinkInv

-----------------------------------------------------------------------------
(* What the invariant gives.                                               *)

LEMMA GivesTypeOK == IInv => TypeOK
<1> SUFFICES ASSUME IInv PROVE TypeOK
  OBVIOUS
<1>1. ASSUME NEW S, \A a, b \in S : a = b PROVE Cardinality(S) <= 1
  <2>1. CASE S = {}
    BY <2>1, FS_EmptySet
  <2>2. CASE S # {}
    <3>1. PICK x \in S : TRUE
      BY <2>2
    <3>2. S = {x}
      BY <1>1, <3>1
    <3>3. Cardinality(S) = 1
      BY <3>2, FS_Singleton
    <3> QED
      BY <3>3
  <2> QED
    BY <2>1, <2>2
<1>2. Cardinality(stored) <= 1 /\ Cardinality(link) <= 1
  BY <1>1 DEF IInv, StoredInv, LinkInv
<1>3. \A ob \in stored : ValidateOutbound(ob, {ob}) /\ Builds(ob)
  BY DEF IInv, StoredInv, Kept
<1> QED
  BY <1>2, <1>3 DEF IInv, TypeInv, TypeOK

LEMMA GivesLinkSpeaks == IInv => LinkSpeaksServer
<1> SUFFICES ASSUME IInv, NEW srv \in link, ~LinkGap(srv)
             PROVE  Speaks(FormToOutbound(form), srv)
  BY DEF LinkSpeaksServer
<1>1. srv \in Servers /\ form = ApplyLink(form, BuildShareLink(srv))
  BY DEF IInv, LinkInv
<1> DEFINE v == ApplyLink(form, BuildShareLink(srv))
<1>2. Speaks(FormToOutbound(v), srv)
  BY <1>1, ServerLink
<1>3. form = v
  BY <1>1
<1> HIDE DEF v
<1> QED
  BY <1>2, <1>3

LEMMA GivesUntouched == IInv => UntouchedSurvives
<1> SUFFICES ASSUME IInv, stage = "open", editing, NEW ob \in stored, NEW l \in Layers \ touched
             PROVE  \/ EffectiveLayer(l, FormToOutbound(form)) = EffectiveLayer(l, Shown(ob))
                    \/ /\ l = "finalmask" /\ matrix = "known"
                       /\ \/ DroppedOnOpen(ob)
                          \/ ob.finalmask.kind \notin SupportedKinds(Keys(form)[1], Keys(form)[2])
  BY DEF UntouchedSurvives
<1> DEFINE w == OutboundToForm(ob)
           F == {f \in Fields : form[f] # w[f]}
           a == FormToOutbound(form)
           b == FormToOutbound(w)
<1>1. ob \in RowType /\ form \in OutboundFormValues
  BY DEF IInv, StoredInv, TypeInv, Kept
<1>2. /\ w \in OutboundFormValues
      /\ \A x \in Layers : EffectiveLayer(x, b) = EffectiveLayer(x, Shown(ob))
  BY <1>1, RowSurvives
<1>3. AsHydrated(form, matrix, touched, w, ob)
  BY DEF IInv, OpenInv
<1>4. touched # Layers
  OBVIOUS
<1>5. form.protocol_kind = w.protocol_kind /\ form.mux_enabled = w.mux_enabled
  BY <1>3, <1>4 DEF AsHydrated
<1>6. Changed(form, w, F)
  BY <1>1, FormHas DEF Changed
<1>7. /\ a.protocol = BuildProtocol(form) /\ a.transport = BuildTransport(form)
      /\ a.security = BuildSecurity(form)
      /\ a.finalmask = IF form.protocol_kind = "wireguard" THEN [kind |-> "none"] ELSE BuildFinalMask(form)
      /\ a.mux = (form.protocol_kind # "wireguard" /\ form.mux_enabled)
      /\ a.protocol.kind = form.protocol_kind
  BY <1>1, BuiltIsTyped
<1>8. /\ b.protocol = BuildProtocol(w) /\ b.transport = BuildTransport(w)
      /\ b.security = BuildSecurity(w)
      /\ b.finalmask = IF w.protocol_kind = "wireguard" THEN [kind |-> "none"] ELSE BuildFinalMask(w)
      /\ b.mux = (w.protocol_kind # "wireguard" /\ w.mux_enabled)
      /\ b.protocol.kind = w.protocol_kind
  BY <1>2, BuiltIsTyped
<1> HIDE DEF w, a, b
<1>9. CASE l = "protocol"
  <2>1. F \cap ProtocolFields = {}
    BY <1>3, <1>9 DEF AsHydrated
  <2>2. a.protocol = b.protocol
    BY <1>6, <1>7, <1>8, <2>1, BuildReads
  <2> QED
    BY <1>2, <1>9, <2>2, Meaning DEF a
<1>10. CASE l = "transport"
  <2>1. F \cap (TransportFields \cup {"protocol_kind"}) = {}
    BY <1>3, <1>5, <1>10 DEF AsHydrated
  <2>2. a.transport = b.transport
    BY <1>6, <1>7, <1>8, <2>1, BuildReads
  <2> QED
    BY <1>2, <1>10, <2>2, Meaning DEF a
<1>11. CASE l = "security"
  <2>1. F \cap (SecurityFields \cup {"protocol_kind"}) = {}
    BY <1>3, <1>5, <1>11 DEF AsHydrated
  <2>2. a.security = b.security
    BY <1>6, <1>7, <1>8, <2>1, BuildReads
  <2>3. EffectiveLayer("security", a) = EffectiveLayer("security", b)
    <3>1. CASE a.security.kind = "reality"
      BY <2>2, <3>1, Meaning
    <3>2. CASE a.security.kind # "reality"
      BY <2>2, <3>2, Meaning
    <3> QED
      BY <3>1, <3>2
  <2> QED
    BY <1>2, <1>11, <2>3 DEF a
<1>12. CASE l = "mux"
  <2>1. EffectiveLayer("mux", a) = EffectiveLayer("mux", b)
    BY <1>5, <1>7, <1>8, Meaning
  <2> QED
    BY <1>2, <1>12, <2>1 DEF a
<1>13. CASE l = "finalmask"
  <2>1. MaskAsHydrated(form, matrix, w, ob)
    BY <1>3, <1>13 DEF AsHydrated
  <2>2. CASE form.finalmask_kind = w.finalmask_kind
    <3>1. F \cap MaskFields = {}
      BY <2>1, <2>2 DEF MaskAsHydrated
    <3>2. a.finalmask = b.finalmask
      BY <1>5, <1>6, <1>7, <1>8, <3>1, BuildReads
    <3> QED
      BY <1>2, <1>13, <3>2, Meaning DEF a
  <2>3. CASE form.finalmask_kind # w.finalmask_kind
    BY <1>13, <2>1, <2>3 DEF MaskAsHydrated, Supported
  <2> QED
    BY <2>2, <2>3
<1> QED
  BY <1>9, <1>10, <1>11, <1>12, <1>13 DEF Layers

LEMMA GivesAccepted == IInv => SettledFormAccepted
<1> SUFFICES ASSUME IInv, stage = "open", Required(form),
                    matrix = "known" \/ (touched = {} /\ MaskAsStored(form)),
                    unguarded = {}, ~MaskOverHttp3(form)
             PROVE  Accepted
  BY DEF SettledFormAccepted
<1> DEFINE ob == FormToOutbound(form)
<1>1. form \in OutboundFormValues
  BY DEF IInv, TypeInv
<1>2. /\ ob \in RowType
      /\ ob.protocol = BuildProtocol(form) /\ ob.protocol.kind = form.protocol_kind
      /\ ob.transport = BuildTransport(form)
      /\ ob.transport.kind = CASE form.protocol_kind = "wireguard" -> "tcp"
                               [] form.protocol_kind = "hysteria" -> "hysteria"
                               [] form.protocol_kind = "vless" -> form.network
      /\ ob.security = BuildSecurity(form)
      /\ ob.security.kind = IF form.protocol_kind = "wireguard" THEN "none" ELSE form.security
      /\ ob.finalmask = IF form.protocol_kind = "wireguard" THEN [kind |-> "none"]
                        ELSE BuildFinalMask(form)
  BY <1>1, BuiltIsTyped
<1>3. BuildFinalMask(form).kind = form.finalmask_kind
  BY <1>1, MaskIsTyped
<1>4. form.protocol_kind \in Protocols /\ form.network \in Networks /\ form.security \in Securities
  BY <1>1 DEF OutboundFormValues
<1>5. MaskFits(form, matrix, unguarded) /\ SelectorsAgree(form, unguarded)
  BY DEF IInv, OpenInv
<1> HIDE DEF ob
<1>6. Builds(ob)
  <2>1. SUFFICES ASSUME ob.security.kind = "reality" PROVE ob.security.public_key # "blank"
    BY DEF Builds
  <2>2. form.protocol_kind # "wireguard" /\ form.security = "reality"
    BY <1>2, <2>1
  <2>3. form.reality_public_key # "blank"
    BY <2>2 DEF Required
  <2>4. ob.security.public_key = form.reality_public_key
    BY <1>2, <2>2 DEF BuildSecurity
  <2> QED
    BY <2>3, <2>4
<1>7. ob.protocol.kind = "hysteria" <=> ob.transport.kind = "hysteria"
  BY <1>2 DEF RowType
<1>8. ASSUME ob.protocol.kind = "hysteria"
      PROVE  /\ ob.protocol.address # "blank" /\ ob.transport.auth # "blank"
             /\ ob.security.kind = "tls"
  <2>1. form.protocol_kind = "hysteria"
    BY <1>2, <1>8
  <2>2. form.address # "blank" /\ form.hysteria_auth # "blank"
    BY <2>1 DEF Required
  <2>3. form.security = "tls"
    BY <1>5, <2>1 DEF SelectorsAgree
  <2>4. ob.protocol.address = form.address
    BY <1>2, <2>1 DEF BuildProtocol
  <2>5. ob.transport.auth = form.hysteria_auth
    BY <1>2, <2>1 DEF BuildTransport
  <2> QED
    BY <1>2, <2>1, <2>2, <2>3, <2>4, <2>5
<1>9. ASSUME ob.protocol.kind = "wireguard" PROVE ValidateWireguard(ob.protocol)
  <2>1. form.protocol_kind = "wireguard"
    BY <1>2, <1>9
  <2>2. form.wg_peer = "good" /\ Len(form.wg_reserved) \in {0, 3}
    BY <1>5, <2>1 DEF SelectorsAgree, Required
  <2>3. ob.protocol.peer = form.wg_peer /\ ob.protocol.reserved = form.wg_reserved
    BY <1>2, <2>1 DEF BuildProtocol
  <2> QED
    BY <2>2, <2>3 DEF ValidateWireguard
<1>10. ValidateFinalMask(ob, MaskIsNew(ob, Previous))
  <2>1. CASE form.protocol_kind = "wireguard"
    <3>1. ob.finalmask = [kind |-> "none"] /\ ob.security.kind = "none"
      BY <1>2, <2>1
    <3>2. RunningMask(ob.finalmask).kind = "none"
      BY <3>1 DEF RunningMask, EffectiveMask
    <3> QED
      BY <3>1, <3>2 DEF ValidateFinalMask
  <2>2. CASE form.protocol_kind # "wireguard"
    <3>1. /\ ob.finalmask = BuildFinalMask(form) /\ ob.finalmask.kind = form.finalmask_kind
          /\ ob.security.kind = form.security
          /\ Keys(form)[1] = ob.transport.kind /\ Keys(form)[2] = ob.security.kind
      BY <1>2, <1>3, <1>4, <2>2 DEF Keys, Protocols
    <3>2. CASE matrix = "known"
      <4>1. ob.finalmask.kind \in {"none"} \cup SupportedKinds(ob.transport.kind, ob.security.kind)
        BY <1>5, <3>1, <3>2 DEF MaskFits, Supported
      <4>2. ob.finalmask.kind = "none" => RunningMask(ob.finalmask).kind = "none"
        BY DEF RunningMask, EffectiveMask
      <4>3. OverHttp3(ob.transport, ob.security) => ob.finalmask.kind \notin {"fragment", "xmc"}
        BY <1>2, <3>1 DEF MaskOverHttp3
      <4>4. ~(ob.security.kind = "reality" /\ ob.finalmask.kind = "xmc")
        BY <1>2, <4>1 DEF SupportedKinds
      <4> QED
        BY <4>1, <4>2, <4>3, <4>4 DEF ValidateFinalMask
    <3>3. CASE matrix # "known"
      <4>1. touched = {} /\ MaskAsStored(form)
        BY <3>3
      <4>2. editing
        <5>1. (form.protocol_kind = "vless" /\ form.address = "blank") \/ editing
          BY <4>1 DEF IInv, OpenInv
        <5> QED
          BY <2>2, <5>1 DEF Required
      <4>3. PICK old \in stored : TRUE
        BY <4>2 DEF IInv, StoredInv
      <4>4. ob.finalmask = old.finalmask
        BY <3>1, <4>1, <4>3 DEF MaskAsStored
      <4>5. ~MaskIsNew(ob, Previous)
        BY <4>2, <4>3, <4>4 DEF MaskIsNew, Previous
      <4>6. form.security = old.security.kind
        <5> DEFINE w == OutboundToForm(old)
        <5>1. AsHydrated(form, matrix, touched, w, old) /\ old \in RowType
          BY <4>2, <4>3 DEF IInv, OpenInv, StoredInv, Kept
        <5>2. w.security = old.security.kind
          BY <5>1, RowSurvives
        <5> HIDE DEF w
        <5>3. form.security = w.security
          BY <4>1, <5>1 DEF AsHydrated, MaskAsHydrated
        <5> QED
          BY <5>2, <5>3
      <4>7. ~(old.security.kind = "reality" /\ old.finalmask.kind = "xmc")
        BY <4>3 DEF IInv, StoredInv, Kept, ValidateOutbound, ValidateFinalMask
      <4> QED
        BY <3>1, <4>4, <4>5, <4>6, <4>7 DEF ValidateFinalMask
    <3> QED
      BY <3>2, <3>3
  <2> QED
    BY <2>1, <2>2
<1>11. ValidateOutbound(ob, Previous)
  BY <1>7, <1>8, <1>9, <1>10 DEF ValidateOutbound
<1> QED
  BY <1>6, <1>11 DEF Accepted, ob
-----------------------------------------------------------------------------
(* What the guard does to a form.                                          *)

LEMMA GuardIs ==
    ASSUME NEW v \in OutboundFormValues, NEW m, NEW t, NEW s
    PROVE  LET g == [v EXCEPT !.finalmask_kind = FinalMaskGuard(m, @, t, s)]
           IN /\ g \in OutboundFormValues /\ Changed(g, v, {"finalmask_kind"})
              /\ m = "known" => g.finalmask_kind \in {"none"} \cup SupportedKinds(t, s)
              /\ \/ g.finalmask_kind = v.finalmask_kind
                 \/ /\ g.finalmask_kind = "none" /\ m = "known"
                    /\ v.finalmask_kind \notin {"none"} \cup SupportedKinds(t, s)
<1> DEFINE k == FinalMaskGuard(m, v.finalmask_kind, t, s)
           g == [v EXCEPT !["finalmask_kind"] = k]
<1>0. "finalmask_kind" \in Fields
  BY DEF Fields, MaskFields
<1>1. /\ m = "known" => k \in {"none"} \cup SupportedKinds(t, s)
      /\ \/ k = v.finalmask_kind
         \/ k = "none" /\ m = "known" /\ v.finalmask_kind \notin {"none"} \cup SupportedKinds(t, s)
  BY DEF FinalMaskGuard, AllowedFinalMasks
<1>2. k \in FieldType.finalmask_kind
  <2>1. v.finalmask_kind \in MaskKinds /\ "none" \in MaskKinds
    BY DEF OutboundFormValues, MaskKinds
  <2> QED
    BY <1>1, <2>1, FieldTypes
<1>3. g = [v EXCEPT !.finalmask_kind = FinalMaskGuard(m, @, t, s)]
  OBVIOUS
<1> HIDE DEF k
<1>4. g \in OutboundFormValues /\ Changed(g, v, {"finalmask_kind"}) /\ g["finalmask_kind"] = k
  BY <1>0, <1>2, OneField
<1> HIDE DEF g
<1> QED
  BY <1>1, <1>3, <1>4

\* The guard never moves a key.
LEMMA KeysOfChanged ==
    ASSUME NEW v, NEW w, NEW F, Changed(w, v, F), F \cap {"protocol_kind", "network", "security"} = {}
    PROVE  Keys(w) = Keys(v) /\ Supported(w) = Supported(v)
<1>1. {"protocol_kind", "network", "security"} \subseteq Fields
  BY DEF Fields, ProtocolFields, TransportFields, SecurityFields
<1>2. w.protocol_kind = v.protocol_kind /\ w.network = v.network /\ w.security = v.security
  BY <1>1 DEF Changed
<1> QED
  BY <1>2 DEF Keys, Supported

LEMMA KeysAre ==
    ASSUME NEW v
    PROVE  /\ Keys(v)[1] = IF v.protocol_kind = "hysteria" THEN "hysteria" ELSE v.network
           /\ Keys(v)[2] = v.security
  BY DEF Keys

\* What an edit and the effect that follows it leave in the store.
LEMMA GuardEditedIs ==
    ASSUME NEW old, NEW new \in OutboundFormValues, NEW u,
           Keys(new) = Keys(old) => MaskFits(new, matrix, u)
    PROVE  LET g == GuardEdited(old, new)
           IN /\ g \in OutboundFormValues /\ Changed(g, new, {"finalmask_kind"})
              /\ Keys(new) = Keys(old) => g = new
              /\ MaskFits(g, matrix, u)
<1> DEFINE g == GuardEdited(old, new)
           k == Keys(new)
<1>1. CASE k = Keys(old)
  <2>1. g = new
    BY <1>1 DEF GuardEdited
  <2>2. Changed(new, new, {"finalmask_kind"})
    BY FormHas DEF Changed
  <2> QED
    BY <1>1, <2>1, <2>2
<1>2. CASE k # Keys(old)
  <2>1. g = [new EXCEPT !.finalmask_kind = FinalMaskGuard(matrix, @, k[1], k[2])]
    BY <1>2 DEF GuardEdited, Judged
  <2> HIDE DEF g, k
  <2>2. /\ g \in OutboundFormValues /\ Changed(g, new, {"finalmask_kind"})
        /\ matrix = "known" => g.finalmask_kind \in {"none"} \cup SupportedKinds(k[1], k[2])
    BY <2>1, GuardIs
  <2>3. Keys(g) = k
    <3> DEFINE F == {"finalmask_kind"}
    <3>1. Changed(g, new, F) /\ F \cap {"protocol_kind", "network", "security"} = {}
      BY <2>2
    <3> HIDE DEF F
    <3> QED
      BY <3>1, KeysOfChanged DEF k
  <2>4. MaskFits(g, matrix, u)
    BY <2>2, <2>3 DEF MaskFits, Supported
  <2> QED
    BY <1>2, <2>2, <2>4 DEF g, k
<1> QED
  BY <1>1, <1>2

-----------------------------------------------------------------------------
(* What an edit keeps.                                                     *)

\* The layers an edit of the fields F has to report.
Reports(layers, F) ==
    layers = Layers \/
        /\ F \cap {"protocol_kind", "mux_enabled"} = {}
        /\ "protocol" \notin layers => F \cap ProtocolFields = {}
        /\ "transport" \notin layers => F \cap TransportFields = {}
        /\ "security" \notin layers => F \cap SecurityFields = {}
        /\ "finalmask" \notin layers => F \cap (MaskFields \cup {"network", "security"}) = {}

LEMMA EditKeepsHydrated ==
    ASSUME NEW v, NEW next, NEW g, NEW F, NEW m, NEW t, NEW layers, NEW w, NEW ob,
           t \subseteq Layers, layers \subseteq Layers,
           Changed(next, v, F), Changed(g, next, {"finalmask_kind"}),
           Keys(next) = Keys(v) => g = next,
           Reports(layers, F), AsHydrated(v, m, t, w, ob)
    PROVE  AsHydrated(g, m, t \cup layers, w, ob)
<1>0. /\ {"protocol_kind", "mux_enabled", "network", "security", "finalmask_kind"} \subseteq Fields
      /\ ProtocolFields \subseteq Fields /\ TransportFields \subseteq Fields
      /\ SecurityFields \subseteq Fields /\ MaskFields \subseteq Fields
      /\ "finalmask_kind" \notin ProtocolFields \cup TransportFields \cup SecurityFields
  BY DEF Fields, ProtocolFields, TransportFields, SecurityFields, MaskFields, MuxFields
<1>1. /\ \A f \in Fields : f \notin F => next[f] = v[f]
      /\ \A f \in Fields : f # "finalmask_kind" => g[f] = next[f]
  BY DEF Changed
<1>2. CASE layers = Layers
  <2>1. t \cup layers = Layers
    BY <1>2
  <2> QED
    BY <2>1 DEF AsHydrated, Layers
<1>3. CASE layers # Layers
  <2>1. /\ F \cap {"protocol_kind", "mux_enabled"} = {}
        /\ "protocol" \notin layers => F \cap ProtocolFields = {}
        /\ "transport" \notin layers => F \cap TransportFields = {}
        /\ "security" \notin layers => F \cap SecurityFields = {}
        /\ "finalmask" \notin layers => F \cap (MaskFields \cup {"network", "security"}) = {}
    BY <1>3 DEF Reports
  <2>2. ASSUME t \cup layers # Layers
        PROVE  g.protocol_kind = w.protocol_kind /\ g.mux_enabled = w.mux_enabled
    <3>1. t # Layers
      BY <2>2
    <3>2. v.protocol_kind = w.protocol_kind /\ v.mux_enabled = w.mux_enabled
      BY <3>1 DEF AsHydrated
    <3> QED
      BY <1>0, <1>1, <2>1, <3>2
  <2>3. ASSUME "protocol" \notin t \cup layers PROVE \A f \in ProtocolFields : g[f] = w[f]
    BY <1>0, <1>1, <2>1, <2>3 DEF AsHydrated
  <2>4. ASSUME "transport" \notin t \cup layers PROVE \A f \in TransportFields : g[f] = w[f]
    BY <1>0, <1>1, <2>1, <2>4 DEF AsHydrated
  <2>5. ASSUME "security" \notin t \cup layers PROVE \A f \in SecurityFields : g[f] = w[f]
    BY <1>0, <1>1, <2>1, <2>5 DEF AsHydrated
  <2>6. ASSUME "finalmask" \notin t \cup layers PROVE MaskAsHydrated(g, m, w, ob)
    <3>1. F \cap {"protocol_kind", "network", "security"} = {} /\ F \cap MaskFields = {}
      BY <2>1, <2>6
    <3>2. Keys(next) = Keys(v) /\ Supported(next) = Supported(v)
      BY <3>1, KeysOfChanged
    <3>3. g = next
      BY <3>2
    <3>4. /\ \A f \in MaskFields : next[f] = v[f]
          /\ next.network = v.network /\ next.security = v.security
      BY <1>0, <1>1, <3>1
    <3>5. next.finalmask_kind = v.finalmask_kind
      BY <3>4 DEF MaskFields
    <3>6. MaskAsHydrated(v, m, w, ob)
      BY <2>6 DEF AsHydrated
    <3> QED
      BY <3>2, <3>3, <3>4, <3>5, <3>6 DEF MaskAsHydrated
  <2> QED
    BY <2>2, <2>3, <2>4, <2>5, <2>6 DEF AsHydrated
<1> QED
  BY <1>2, <1>3

FormInv == StoredInv /\ TypeInv /\ OpeningInv /\ OpenInv

\* An edit that reports its layers, moves the security along with the protocol
\* and offers no mask the keys cannot run keeps the invariant.
LEMMA EditKeeps ==
    ASSUME IInv, stage = "open",
           NEW layers, layers \subseteq Layers, layers # {},
           NEW next \in OutboundFormValues, NEW F, Changed(next, form, F), Reports(layers, F),
           form' = GuardEdited(form, next), touched' = touched \cup layers,
           unguarded' \subseteq {"security", "tunnel", "mask"},
           UNCHANGED <<stored, stage, editing, matrix>>,
           SelectorsAgree(next, unguarded'),
           Keys(next) = Keys(form) => MaskFits(next, matrix, unguarded')
    PROVE  FormInv'
<1> DEFINE g == GuardEdited(form, next)
<1>1. /\ g \in OutboundFormValues /\ Changed(g, next, {"finalmask_kind"})
      /\ Keys(next) = Keys(form) => g = next
      /\ MaskFits(g, matrix, unguarded')
  BY GuardEditedIs
<1> HIDE DEF g
<1>2. form' = g /\ stored' = stored /\ stage' = stage /\ editing' = editing /\ matrix' = matrix
  BY DEF g
<1>3. StoredInv' /\ OpeningInv'
  BY <1>2 DEF IInv, StoredInv, OpeningInv
<1>4. TypeInv'
  BY <1>1, <1>2 DEF IInv, TypeInv
<1>5. SelectorsAgree(g, unguarded')
  <2>1. /\ {"protocol_kind", "security", "wg_peer", "wg_reserved"} \subseteq Fields
        /\ "finalmask_kind" \notin {"protocol_kind", "security", "wg_peer", "wg_reserved"}
    BY DEF Fields, ProtocolFields, SecurityFields
  <2>2. /\ g.protocol_kind = next.protocol_kind /\ g.security = next.security
        /\ g.wg_peer = next.wg_peer /\ g.wg_reserved = next.wg_reserved
    BY <1>1, <2>1 DEF Changed
  <2> QED
    BY <2>2 DEF SelectorsAgree
<1>6. touched' # {}
  OBVIOUS
<1>7. ASSUME editing, NEW ob \in stored
      PROVE  AsHydrated(g, matrix, touched \cup layers, OutboundToForm(ob), ob)
  <2>1. AsHydrated(form, matrix, touched, OutboundToForm(ob), ob) /\ touched \subseteq Layers
    BY <1>7 DEF IInv, OpenInv, TypeInv
  <2> QED
    BY <1>1, <2>1, EditKeepsHydrated
<1>8. OpenInv'
  BY <1>1, <1>2, <1>5, <1>6, <1>7 DEF OpenInv
<1> QED
  BY <1>3, <1>4, <1>8 DEF FormInv

\* One field, edited.
EditOf(n, v, f) == n \in OutboundFormValues /\ Changed(n, v, {f})

LEMMA OneEdit ==
    ASSUME NEW v \in OutboundFormValues, NEW f \in Fields, NEW x \in FieldType[f]
    PROVE  EditOf([v EXCEPT ![f] = x], v, f) /\ [v EXCEPT ![f] = x][f] = x
  BY OneField DEF EditOf

LEMMA FieldEditKeeps ==
    ASSUME IInv, stage = "open",
           NEW layers, layers \subseteq Layers, layers # {},
           NEW f \in Fields \ {"protocol_kind", "mux_enabled", "wg_peer", "wg_reserved"},
           NEW next, EditOf(next, form, f), Reports(layers, {f}),
           form' = GuardEdited(form, next), touched' = touched \cup layers,
           UNCHANGED <<stored, stage, editing, matrix, unguarded>>,
           (f = "security" /\ form.protocol_kind = "hysteria") => next.security = "tls",
           (f = "finalmask_kind" /\ matrix = "known") =>
                next.finalmask_kind \in {"none"} \cup Supported(form)
    PROVE  FormInv'
<1> DEFINE F == {f}
<1>1. next \in OutboundFormValues /\ Changed(next, form, F) /\ Reports(layers, F)
  BY DEF EditOf
<1> HIDE DEF F
<1>0. {"protocol_kind", "security", "finalmask_kind", "wg_peer", "wg_reserved", "network"} \subseteq Fields
  BY DEF Fields, ProtocolFields, SecurityFields, MaskFields, TransportFields
<1>2. \A x \in Fields : x # f => next[x] = form[x]
  BY <1>1 DEF Changed, F
<1>3. /\ next.protocol_kind = form.protocol_kind /\ next.wg_peer = form.wg_peer
      /\ next.wg_reserved = form.wg_reserved
      /\ f # "security" => next.security = form.security
      /\ f # "finalmask_kind" => next.finalmask_kind = form.finalmask_kind
      /\ f # "network" => next.network = form.network
  BY <1>0, <1>2
<1>4. unguarded' = unguarded /\ unguarded \subseteq {"security", "tunnel", "mask"}
  BY DEF IInv, TypeInv
<1>5. MaskFits(form, matrix, unguarded) /\ SelectorsAgree(form, unguarded)
  BY DEF IInv, OpenInv
<1>6. SelectorsAgree(next, unguarded')
  BY <1>3, <1>4, <1>5 DEF SelectorsAgree
<1>7. ASSUME Keys(next) = Keys(form) PROVE MaskFits(next, matrix, unguarded')
  <2>1. Supported(next) = Supported(form)
    BY <1>7 DEF Supported
  <2> QED
    BY <1>3, <1>4, <1>5, <2>1 DEF MaskFits
<1>8. unguarded' \subseteq {"security", "tunnel", "mask"}
  BY <1>4
<1> QED
  BY <1>1, <1>6, <1>7, <1>8, EditKeeps
-----------------------------------------------------------------------------
(* The edits of one field.                                                 *)

\* Every edit of a mask's own fields is one of one field.
LEMMA MaskFieldEdit ==
    ASSUME NEW v \in OutboundFormValues, NEW n \in MaskFieldEdits(v)
    PROVE  \E f \in MaskFields \ {"finalmask_kind"} : EditOf(n, v, f)
<1>0. /\ {"sudoku_tables", "packets_mode", "packets_from", "packets_to", "noise_items", "xmc_profiles"}
            \subseteq MaskFields \ {"finalmask_kind"}
      /\ MaskFields \subseteq Fields
  BY DEF MaskFields, Fields
<1>1. v.noise_items \in SUBSET NoiseItems /\ v.xmc_profiles \in SUBSET XmcProfiles
  BY DEF OutboundFormValues
<1>2. ASSUME NEW x \in SUBSET {"blank", "table"}, n = [v EXCEPT !.sudoku_tables = x]
      PROVE  EditOf(n, v, "sudoku_tables")
  <2>1. x \in FieldType["sudoku_tables"] /\ n = [v EXCEPT !["sudoku_tables"] = x]
    BY <1>2, FieldTypes
  <2> QED
    BY <1>0, <2>1, OneEdit
<1>3. ASSUME NEW x \in {"tlshello", "all", "range"}, n = [v EXCEPT !.packets_mode = x]
      PROVE  EditOf(n, v, "packets_mode")
  <2>1. x \in FieldType["packets_mode"] /\ n = [v EXCEPT !["packets_mode"] = x]
    BY <1>3, FieldTypes
  <2> QED
    BY <1>0, <2>1, OneEdit
<1>4. ASSUME NEW x \in PacketBounds, n = [v EXCEPT !.packets_from = x]
      PROVE  EditOf(n, v, "packets_from")
  <2>1. x \in FieldType["packets_from"] /\ n = [v EXCEPT !["packets_from"] = x]
    BY <1>4, FieldTypes
  <2> QED
    BY <1>0, <2>1, OneEdit
<1>5. ASSUME NEW x \in PacketBounds, n = [v EXCEPT !.packets_to = x]
      PROVE  EditOf(n, v, "packets_to")
  <2>1. x \in FieldType["packets_to"] /\ n = [v EXCEPT !["packets_to"] = x]
    BY <1>5, FieldTypes
  <2> QED
    BY <1>0, <2>1, OneEdit
<1>6. ASSUME NEW x \in SUBSET NoiseItems, n = [v EXCEPT !.noise_items = x]
      PROVE  EditOf(n, v, "noise_items")
  <2>1. x \in FieldType["noise_items"] /\ n = [v EXCEPT !["noise_items"] = x]
    BY <1>6, FieldTypes
  <2> QED
    BY <1>0, <2>1, OneEdit
<1>7. ASSUME NEW x \in SUBSET XmcProfiles, n = [v EXCEPT !.xmc_profiles = x]
      PROVE  EditOf(n, v, "xmc_profiles")
  <2>1. x \in FieldType["xmc_profiles"] /\ n = [v EXCEPT !["xmc_profiles"] = x]
    BY <1>7, FieldTypes
  <2> QED
    BY <1>0, <2>1, OneEdit
<1>8. CASE n \in SudokuEdits(v)
  BY <1>0, <1>2, <1>8 DEF SudokuEdits
<1>9. CASE n \in FragmentEdits(v)
  <2>1. \/ \E x \in {"tlshello", "all", "range"} : n = [v EXCEPT !.packets_mode = x]
        \/ \E x \in PacketBounds : n = [v EXCEPT !.packets_from = x]
        \/ \E x \in PacketBounds : n = [v EXCEPT !.packets_to = x]
    BY <1>9 DEF FragmentEdits
  <2> QED
    BY <1>0, <1>3, <1>4, <1>5, <2>1
<1>10. CASE n \in NoiseEdits(v)
  <2>1. \E x \in SUBSET NoiseItems : n = [v EXCEPT !.noise_items = x]
    <3> DEFINE Is(x) == n = [v EXCEPT !.noise_items = x]
               o == v.noise_items
    <3>1. \/ \E i \in o, j \in {"blank", "literal", "random"} : Is((o \ {i}) \cup {j})
          \/ Is((o \ {"random"}) \cup {"both"})
          \/ Is(o \cup {"blank"})
      BY <1>10 DEF NoiseEdits
    <3> HIDE DEF Is
    <3>2. /\ \A i \in o, j \in {"blank", "literal", "random"} : (o \ {i}) \cup {j} \in SUBSET NoiseItems
          /\ (o \ {"random"}) \cup {"both"} \in SUBSET NoiseItems
          /\ o \cup {"blank"} \in SUBSET NoiseItems
      BY <1>1 DEF NoiseItems
    <3>3. \E x \in SUBSET NoiseItems : Is(x)
      BY <3>1, <3>2
    <3> QED
      BY <3>3 DEF Is
  <2> QED
    BY <1>0, <1>6, <2>1
<1>11. CASE n \in XmcEdits(v)
  <2>1. \E x \in SUBSET XmcProfiles : n = [v EXCEPT !.xmc_profiles = x]
    <3> DEFINE Is(x) == n = [v EXCEPT !.xmc_profiles = x]
               o == v.xmc_profiles
    <3>1. \/ Is(o \cup {"blank"})
          \/ Is((o \ {"blank"}) \cup {"named"})
          \/ \E i \in o : Is((o \ {i}) \cup {"resolved"})
          \/ Is((o \ {"resolved"}) \cup {"renamed"})
      BY <1>11 DEF XmcEdits
    <3> HIDE DEF Is
    <3>2. /\ o \cup {"blank"} \in SUBSET XmcProfiles
          /\ (o \ {"blank"}) \cup {"named"} \in SUBSET XmcProfiles
          /\ \A i \in o : (o \ {i}) \cup {"resolved"} \in SUBSET XmcProfiles
          /\ (o \ {"resolved"}) \cup {"renamed"} \in SUBSET XmcProfiles
      BY <1>1 DEF XmcProfiles
    <3>3. \E x \in SUBSET XmcProfiles : Is(x)
      BY <3>1, <3>2
    <3> QED
      BY <3>3 DEF Is
  <2> QED
    BY <1>0, <1>7, <2>1
<1> QED
  BY <1>8, <1>9, <1>10, <1>11 DEF MaskFieldEdits

\* After an edit no link stands.
LEMMA NoLink == ASSUME link' = {} PROVE LinkInv'
  BY DEF LinkInv

LEMMA OneFieldTyped ==
    ASSUME IInv, NEW layers, layers \subseteq Layers, layers # {},
           NEW f \in Fields \ {"protocol_kind", "mux_enabled", "wg_peer", "wg_reserved"},
           NEW next, EditOf(next, form, f), Reports(layers, {f}),
           NEW k, Type(layers, next, k), UNCHANGED unguarded,
           (f = "security" /\ form.protocol_kind = "hysteria") => next.security = "tls",
           (f = "finalmask_kind" /\ matrix = "known") =>
                next.finalmask_kind \in {"none"} \cup Supported(form)
    PROVE  IInv'
<1>1. /\ stage = "open" /\ form' = GuardEdited(form, next) /\ touched' = touched \cup layers
      /\ link' = {} /\ UNCHANGED <<stored, stage, editing, matrix>>
  BY DEF Type
<1>2. FormInv'
  BY <1>1, FieldEditKeeps
<1>3. LinkInv'
  BY <1>1, NoLink
<1> QED
  BY <1>2, <1>3 DEF FormInv, IInv\* The layers the field edits report.
LEMMA LayersReported ==
    /\ Reports({"transport", "finalmask"}, {"network"})
    /\ Reports({"security", "finalmask"}, {"security"})
    /\ \A f \in MaskFields : Reports({"finalmask"}, {f})
    /\ \A f \in ProtocolFields \ {"protocol_kind"} : Reports({"protocol"}, {f})
    /\ \A f \in TransportFields \ {"network"} : Reports({"transport"}, {f})
    /\ \A f \in SecurityFields \ {"security"} : Reports({"security"}, {f})
  BY DEF Reports, ProtocolFields, TransportFields, SecurityFields, MaskFields

LEMMA EditNetworkKeeps == ASSUME IInv, EditNetwork PROVE IInv'
<1>1. PICK n \in Networks : Type({"transport", "finalmask"}, [form EXCEPT !.network = n], "switch")
  BY DEF EditNetwork
<1> DEFINE next == [form EXCEPT !["network"] = n]
           layers == {"transport", "finalmask"}
<1>2. /\ n \in FieldType["network"] /\ form \in OutboundFormValues
      /\ "network" \in Fields \ {"protocol_kind", "mux_enabled", "wg_peer", "wg_reserved"}
  BY FieldTypes DEF Fields, TransportFields, IInv, TypeInv
<1>3. EditOf(next, form, "network") /\ Type(layers, next, "switch")
  BY <1>1, <1>2, OneEdit
<1>4. Reports(layers, {"network"}) /\ layers \subseteq Layers /\ layers # {} /\ UNCHANGED unguarded
  BY LayersReported DEF Layers, EditNetwork
<1> HIDE DEF next, layers
<1> QED
  BY <1>2, <1>3, <1>4, OneFieldTyped

LEMMA EditSecurityKindKeeps == ASSUME IInv, EditSecurityKind PROVE IInv'
<1>1. PICK s \in IF form.protocol_kind = "hysteria" THEN {"tls"} ELSE Securities :
         Type({"security", "finalmask"}, [form EXCEPT !.security = s], "switch")
  BY DEF EditSecurityKind
<1> DEFINE next == [form EXCEPT !["security"] = s]
           layers == {"security", "finalmask"}
<1>2. /\ s \in FieldType["security"] /\ form \in OutboundFormValues
      /\ "security" \in Fields \ {"protocol_kind", "mux_enabled", "wg_peer", "wg_reserved"}
  <2>1. s \in Securities
    BY DEF Securities
  <2> QED
    BY <2>1, FieldTypes DEF Fields, SecurityFields, IInv, TypeInv
<1>3. EditOf(next, form, "security") /\ Type(layers, next, "switch") /\ next["security"] = s
  BY <1>1, <1>2, OneEdit
<1>4. Reports(layers, {"security"}) /\ layers \subseteq Layers /\ layers # {} /\ UNCHANGED unguarded
  BY LayersReported DEF Layers, EditSecurityKind
<1> HIDE DEF next, layers
<1>5. form.protocol_kind = "hysteria" => next.security = "tls"
  BY <1>3
<1> QED
  BY <1>2, <1>3, <1>4, <1>5, OneFieldTyped

LEMMA EditMaskKindKeeps == ASSUME IInv, EditMaskKind PROVE IInv'
<1>1. PICK n \in FinalMaskKindEdits(form, matrix, Keys(form)[1], Keys(form)[2]) :
         Type({"finalmask"}, n, "switch")
  BY DEF EditMaskKind
<1>2. PICK k \in AllowedFinalMasks(matrix, Keys(form)[1], Keys(form)[2]) :
         n = [form EXCEPT !["finalmask_kind"] = k]
  BY <1>1 DEF FinalMaskKindEdits
<1> DEFINE layers == {"finalmask"}
<1>3. /\ k \in FieldType["finalmask_kind"] /\ form \in OutboundFormValues
      /\ matrix = "known" => k \in {"none"} \cup Supported(form)
      /\ "finalmask_kind" \in Fields \ {"protocol_kind", "mux_enabled", "wg_peer", "wg_reserved"}
      /\ "finalmask_kind" \in MaskFields
  <2>1. k \in MaskKinds
    BY DEF AllowedFinalMasks, SupportedKinds, MaskKinds
  <2>2. matrix = "known" => k \in {"none"} \cup Supported(form)
    BY DEF AllowedFinalMasks, Supported
  <2> QED
    BY <2>1, <2>2, FieldTypes DEF Fields, MaskFields, IInv, TypeInv
<1>4. EditOf(n, form, "finalmask_kind") /\ Type(layers, n, "switch") /\ n["finalmask_kind"] = k
  BY <1>1, <1>2, <1>3, OneEdit
<1>5. Reports(layers, {"finalmask_kind"}) /\ layers \subseteq Layers /\ layers # {} /\ UNCHANGED unguarded
  BY <1>3, LayersReported DEF Layers, EditMaskKind
<1> HIDE DEF layers
<1>6. matrix = "known" => n.finalmask_kind \in {"none"} \cup Supported(form)
  BY <1>3, <1>4
<1> QED
  BY <1>3, <1>4, <1>5, <1>6, OneFieldTyped

LEMMA EditMaskKeeps == ASSUME IInv, EditMask PROVE IInv'
<1>1. PICK n \in MaskFieldEdits(form) : Type({"finalmask"}, n, "fill")
  BY DEF EditMask
<1>2. PICK f \in MaskFields \ {"finalmask_kind"} : EditOf(n, form, f)
  BY MaskFieldEdit DEF IInv, TypeInv
<1> DEFINE layers == {"finalmask"}
<1>3. f \in Fields \ {"protocol_kind", "mux_enabled", "wg_peer", "wg_reserved"} /\ f # "security"
  BY DEF Fields, MaskFields
<1>4. Reports(layers, {f}) /\ layers \subseteq Layers /\ layers # {} /\ UNCHANGED unguarded
  BY LayersReported DEF Layers, EditMask
<1>5. Type(layers, n, "fill")
  BY <1>1
<1> HIDE DEF layers
<1> QED
  BY <1>2, <1>3, <1>4, <1>5, OneFieldTyped

\* A plain edit: one field no guard and no other field depends on.
LEMMA PlainEdit ==
    ASSUME IInv, NEW f \in Fields, NEW x \in FieldType[f],
           NEW layers, NEW k, Type(layers, [form EXCEPT ![f] = x], k), UNCHANGED unguarded,
           \/ layers = {"protocol"} /\ f \in ProtocolFields \ {"protocol_kind", "wg_peer", "wg_reserved"}
           \/ layers = {"transport"} /\ f \in TransportFields \ {"network"}
           \/ layers = {"security"} /\ f \in SecurityFields \ {"security"}
    PROVE  IInv'
<1> DEFINE next == [form EXCEPT ![f] = x]
<1>1. form \in OutboundFormValues
  BY DEF IInv, TypeInv
<1>2. EditOf(next, form, f) /\ Type(layers, next, k)
  BY <1>1, OneEdit
<1> HIDE DEF next
<1>3. /\ f \in Fields \ {"protocol_kind", "mux_enabled", "wg_peer", "wg_reserved"}
      /\ f # "security" /\ f # "finalmask_kind"
  BY DEF Fields, ProtocolFields, TransportFields, SecurityFields
<1>4. Reports(layers, {f}) /\ layers \subseteq Layers /\ layers # {}
  BY LayersReported DEF Layers
<1> QED
  BY <1>2, <1>3, <1>4, OneFieldTyped
LEMMA EditTransportFieldsKeeps == ASSUME IInv, EditTransportFields PROVE IInv'
<1>0. UNCHANGED unguarded
  BY DEF EditTransportFields
<1>1. \/ Type({"transport"}, [form EXCEPT !.hysteria_auth = "password"], "fill")
      \/ \E q \in SUBSET {"tuned", "hop_ports", "hop_interval"} :
            Type({"transport"}, [form EXCEPT !.hy_quic = q], "fill")
      \/ \E h \in SUBSET {"blank", "named"} : Type({"transport"}, [form EXCEPT !.headers = h], "fill")
      \/ \E m \in {"auto", "packet-up"} : Type({"transport"}, [form EXCEPT !.xhttp_mode = m], "fill")
  BY DEF EditTransportFields
<1>2. /\ {"hysteria_auth", "hy_quic", "headers", "xhttp_mode"} \subseteq TransportFields \ {"network"}
      /\ TransportFields \subseteq Fields
  BY DEF TransportFields, Fields
<1> DEFINE layers == {"transport"}
<1>3. ASSUME NEW f \in TransportFields \ {"network"}, NEW x \in FieldType[f],
             Type({"transport"}, [form EXCEPT ![f] = x], "fill")
      PROVE  IInv'
  <2>1. Type(layers, [form EXCEPT ![f] = x], "fill") /\ layers = {"transport"} /\ f \in Fields
    BY <1>2, <1>3
  <2> HIDE DEF layers
  <2> QED
    BY <1>0, <2>1, PlainEdit
<1>4. /\ "password" \in FieldType["hysteria_auth"]
      /\ \A q \in SUBSET {"tuned", "hop_ports", "hop_interval"} : q \in FieldType["hy_quic"]
      /\ \A h \in SUBSET {"blank", "named"} : h \in FieldType["headers"]
      /\ \A m \in {"auto", "packet-up"} : m \in FieldType["xhttp_mode"]
  <2>1. /\ FieldType["hysteria_auth"] = {"blank", "password"}
        /\ FieldType["hy_quic"] = SUBSET {"tuned", "hop_ports", "hop_interval"}
        /\ FieldType["headers"] = SUBSET {"blank", "named"}
        /\ FieldType["xhttp_mode"] = {"auto", "packet-up"}
    BY FieldTypes
  <2> QED
    BY <2>1
<1>5. CASE Type({"transport"}, [form EXCEPT !.hysteria_auth = "password"], "fill")
  BY <1>2, <1>3, <1>4, <1>5
<1>6. ASSUME NEW q \in SUBSET {"tuned", "hop_ports", "hop_interval"},
             Type({"transport"}, [form EXCEPT !.hy_quic = q], "fill")
      PROVE  IInv'
  BY <1>2, <1>3, <1>4, <1>6
<1>7. ASSUME NEW h \in SUBSET {"blank", "named"}, Type({"transport"}, [form EXCEPT !.headers = h], "fill")
      PROVE  IInv'
  BY <1>2, <1>3, <1>4, <1>7
<1>8. ASSUME NEW m \in {"auto", "packet-up"}, Type({"transport"}, [form EXCEPT !.xhttp_mode = m], "fill")
      PROVE  IInv'
  BY <1>2, <1>3, <1>4, <1>8
<1> QED
  BY <1>1, <1>5, <1>6, <1>7, <1>8

LEMMA EditSecurityFieldsKeeps == ASSUME IInv, EditSecurityFields PROVE IInv'
<1>0. UNCHANGED unguarded
  BY DEF EditSecurityFields
<1>1. \/ \E a \in {{}, {"h1", "h2"}, {"h3"}} : Type({"security"}, [form EXCEPT !.tls_alpn = a], "fill")
      \/ Type({"security"}, [form EXCEPT !.reality_public_key = "key"], "fill")
      \/ Type({"security"}, [form EXCEPT !.server_name = "sni"], "fill")
  BY DEF EditSecurityFields
<1>2. /\ {"tls_alpn", "reality_public_key", "server_name"} \subseteq SecurityFields \ {"security"}
      /\ SecurityFields \subseteq Fields
  BY DEF SecurityFields, Fields
<1> DEFINE layers == {"security"}
<1>3. ASSUME NEW f \in SecurityFields \ {"security"}, NEW x \in FieldType[f],
             Type({"security"}, [form EXCEPT ![f] = x], "fill")
      PROVE  IInv'
  <2>1. Type(layers, [form EXCEPT ![f] = x], "fill") /\ layers = {"security"} /\ f \in Fields
    BY <1>2, <1>3
  <2> HIDE DEF layers
  <2> QED
    BY <1>0, <2>1, PlainEdit
<1>4. /\ \A a \in {{}, {"h1", "h2"}, {"h3"}} : a \in FieldType["tls_alpn"]
      /\ "key" \in FieldType["reality_public_key"] /\ "sni" \in FieldType["server_name"]
  BY FieldTypes
<1>5. ASSUME NEW a \in {{}, {"h1", "h2"}, {"h3"}}, Type({"security"}, [form EXCEPT !.tls_alpn = a], "fill")
      PROVE  IInv'
  BY <1>2, <1>3, <1>4, <1>5
<1>6. CASE Type({"security"}, [form EXCEPT !.reality_public_key = "key"], "fill")
  BY <1>2, <1>3, <1>4, <1>6
<1>7. CASE Type({"security"}, [form EXCEPT !.server_name = "sni"], "fill")
  BY <1>2, <1>3, <1>4, <1>7
<1> QED
  BY <1>1, <1>5, <1>6, <1>7

\* What a tunnel holds, as the list's rule reads it.
LEMMA TunnelRead ==
    ASSUME NEW n, n.protocol_kind = "wireguard", ValidateWireguard(BuildProtocol(n))
    PROVE  n.wg_peer = "good" /\ Len(n.wg_reserved) \in {0, 3}
<1>1. BuildProtocol(n).peer = n.wg_peer /\ BuildProtocol(n).reserved = n.wg_reserved
  BY DEF BuildProtocol
<1> QED
  BY <1>1 DEF ValidateWireguard

\* A tunnel's field, good or bad: a bad one is named in `unguarded`.
LEMMA TunnelEdit ==
    ASSUME IInv, form.protocol_kind = "wireguard",
           NEW f \in {"wg_peer", "wg_reserved", "wg_mtu"}, NEW x \in FieldType[f],
           NEW next, next = [form EXCEPT ![f] = x], Type({"protocol"}, next, "fill"),
           unguarded' = unguarded \cup
                Opt(next.protocol_kind = "wireguard" /\ ~ValidateWireguard(BuildProtocol(next)), "tunnel")
    PROVE  IInv'
<1> DEFINE layers == {"protocol"}
           F == {f}
<1>1. /\ form \in OutboundFormValues /\ unguarded \subseteq {"security", "tunnel", "mask"}
      /\ stage = "open"
      /\ f \in ProtocolFields \ {"protocol_kind"} /\ f \in Fields
  BY DEF IInv, TypeInv, Type, Fields, ProtocolFields
<1>2. next \in OutboundFormValues /\ Changed(next, form, F)
  BY <1>1, OneField
<1>3. Reports(layers, F) /\ layers \subseteq Layers /\ layers # {}
  BY <1>1, LayersReported DEF Layers
<1>4. /\ form' = GuardEdited(form, next) /\ touched' = touched \cup layers
      /\ link' = {} /\ UNCHANGED <<stored, stage, editing, matrix>>
  BY DEF Type
<1>5. /\ unguarded' \subseteq {"security", "tunnel", "mask"} /\ unguarded \subseteq unguarded'
      /\ "mask" \in unguarded' => "mask" \in unguarded
  BY <1>1 DEF Opt
<1>6. /\ next.protocol_kind = form.protocol_kind /\ next.network = form.network
      /\ next.security = form.security /\ next.finalmask_kind = form.finalmask_kind
  <2>1. {"protocol_kind", "network", "security", "finalmask_kind"} \subseteq Fields \ F
    BY DEF Fields, ProtocolFields, TransportFields, SecurityFields, MaskFields
  <2> HIDE DEF F
  <2> QED
    BY <1>2, <2>1 DEF Changed
<1>7. MaskFits(form, matrix, unguarded)
  BY <1>1 DEF IInv, OpenInv
<1>8. SelectorsAgree(next, unguarded')
  <2>1. "tunnel" \notin unguarded' => next.wg_peer = "good" /\ Len(next.wg_reserved) \in {0, 3}
    <3>1. SUFFICES ASSUME "tunnel" \notin unguarded'
                   PROVE  next.wg_peer = "good" /\ Len(next.wg_reserved) \in {0, 3}
      OBVIOUS
    <3>2. ValidateWireguard(BuildProtocol(next))
      BY <1>6, <3>1 DEF Opt
    <3> QED
      BY <1>6, <3>2, TunnelRead
  <2> QED
    BY <1>6, <2>1 DEF SelectorsAgree
<1>9. MaskFits(next, matrix, unguarded')
  <2>1. Supported(next) = Supported(form)
    BY <1>6 DEF Supported, Keys
  <2> QED
    BY <1>5, <1>6, <1>7, <2>1 DEF MaskFits
<1>10. LinkInv'
  BY <1>4, NoLink
<1> HIDE DEF layers, F
<1>11. FormInv'
  BY <1>1, <1>2, <1>3, <1>4, <1>5, <1>8, <1>9, EditKeeps
<1> QED
  BY <1>10, <1>11 DEF FormInv, IInv
LEMMA EditProtocolFieldsKeeps == ASSUME IInv, EditProtocolFields PROVE IInv'
<1>0. /\ {"address", "uuid", "flow", "encryption_mode", "encryption_client_key"}
            \subseteq ProtocolFields \ {"protocol_kind", "wg_peer", "wg_reserved"}
      /\ ProtocolFields \subseteq Fields
  BY DEF Fields, ProtocolFields
<1> DEFINE Edited(n) ==
              /\ Type({"protocol"}, n, "fill")
              /\ unguarded' = unguarded \cup
                    Opt(n.protocol_kind = "wireguard" /\ ~ValidateWireguard(BuildProtocol(n)), "tunnel")
<1>1. PICK n \in IF form.protocol_kind = "wireguard" THEN WireguardFields(form)
                 ELSE {[form EXCEPT !.address = "host"]}
                      \cup IF form.protocol_kind = "vless" THEN VlessFields(form) ELSE {} : Edited(n)
  BY DEF EditProtocolFields
<1> HIDE DEF Edited
<1>2. CASE form.protocol_kind = "wireguard"
  <2>1. ASSUME NEW f \in {"wg_peer", "wg_reserved", "wg_mtu"}, NEW x \in FieldType[f],
               n = [form EXCEPT ![f] = x]
        PROVE  IInv'
    BY <1>1, <1>2, <2>1, TunnelEdit DEF Edited
  <2>2. \/ \E p \in {"good", "bad"} : n = [form EXCEPT !.wg_peer = p]
        \/ \E r \in {<<>>, <<1>>, <<1, 2, 3>>} : n = [form EXCEPT !.wg_reserved = r]
        \/ \E m \in {Null, 0, 1280} : n = [form EXCEPT !.wg_mtu = m]
    BY <1>1, <1>2 DEF WireguardFields
  <2>3. /\ \A p \in {"good", "bad"} : p \in FieldType["wg_peer"]
        /\ \A r \in {<<>>, <<1>>, <<1, 2, 3>>} : r \in FieldType["wg_reserved"]
        /\ \A m \in {Null, 0, 1280} : m \in FieldType["wg_mtu"]
    BY FieldTypes
  <2>4. ASSUME NEW p \in {"good", "bad"}, n = [form EXCEPT !.wg_peer = p] PROVE IInv'
    BY <2>1, <2>3, <2>4
  <2>5. ASSUME NEW r \in FieldType["wg_reserved"], n = [form EXCEPT !.wg_reserved = r] PROVE IInv'
    BY <2>1, <2>5
  <2>6. ASSUME NEW m \in {Null, 0, 1280}, n = [form EXCEPT !.wg_mtu = m] PROVE IInv'
    BY <2>1, <2>3, <2>6
  <2> QED
    BY <2>2, <2>3, <2>4, <2>5, <2>6
<1>3. CASE form.protocol_kind # "wireguard"
  <2> DEFINE layers == {"protocol"}
  <2>1. ASSUME NEW f \in ProtocolFields \ {"protocol_kind", "wg_peer", "wg_reserved"},
               NEW x \in FieldType[f], n = [form EXCEPT ![f] = x]
        PROVE  IInv'
    <3>1. n.protocol_kind = form.protocol_kind
      <4>1. form \in OutboundFormValues /\ f \in Fields /\ "protocol_kind" \in Fields /\ f # "protocol_kind"
        BY <1>0, <2>1 DEF IInv, TypeInv, Fields, ProtocolFields
      <4>2. Changed(n, form, {f})
        BY <2>1, <4>1, OneField
      <4> QED
        BY <4>1, <4>2 DEF Changed
    <3>2. unguarded' = unguarded
      BY <1>1, <1>3, <3>1 DEF Edited, Opt
    <3>3. Type(layers, [form EXCEPT ![f] = x], "fill") /\ f \in Fields /\ layers = {"protocol"}
      BY <1>0, <1>1, <2>1 DEF Edited
    <3> HIDE DEF layers
    <3> QED
      BY <2>1, <3>2, <3>3, PlainEdit
  <2>2. \/ n = [form EXCEPT !.address = "host"] \/ n = [form EXCEPT !.uuid = "id"]
        \/ \E m \in {"none", "mlkem768x25519plus"} : n = [form EXCEPT !.encryption_mode = m]
        \/ \E f \in {"blank", "vision"} : n = [form EXCEPT !.flow = f]
        \/ n = [form EXCEPT !.encryption_client_key = "key"]
    BY <1>1, <1>3 DEF VlessFields, Opt
  <2>3. /\ "host" \in FieldType["address"] /\ "id" \in FieldType["uuid"]
        /\ \A m \in {"none", "mlkem768x25519plus"} : m \in FieldType["encryption_mode"]
        /\ \A f \in {"blank", "vision"} : f \in FieldType["flow"]
        /\ "key" \in FieldType["encryption_client_key"]
    BY FieldTypes
  <2>4. ASSUME NEW m \in {"none", "mlkem768x25519plus"}, n = [form EXCEPT !.encryption_mode = m] PROVE IInv'
    BY <1>0, <2>1, <2>3, <2>4
  <2>5. ASSUME NEW f \in {"blank", "vision"}, n = [form EXCEPT !.flow = f] PROVE IInv'
    BY <1>0, <2>1, <2>3, <2>5
  <2>6. CASE n = [form EXCEPT !.address = "host"]
    BY <1>0, <2>1, <2>3, <2>6
  <2>7. CASE n = [form EXCEPT !.uuid = "id"]
    BY <1>0, <2>1, <2>3, <2>7
  <2>8. CASE n = [form EXCEPT !.encryption_client_key = "key"]
    BY <1>0, <2>1, <2>3, <2>8
  <2> QED
    BY <2>2, <2>4, <2>5, <2>6, <2>7, <2>8
<1> QED
  BY <1>2, <1>3

-----------------------------------------------------------------------------
(* The edits of more than a field.                                         *)

\* An edit that counts for every layer.
LEMMA WholeEdit ==
    ASSUME IInv, stage = "open", NEW next \in OutboundFormValues,
           form' = GuardEdited(form, next), touched' = Layers,
           unguarded' \subseteq {"security", "tunnel", "mask"},
           UNCHANGED <<stored, stage, editing, matrix>>,
           SelectorsAgree(next, unguarded'),
           Keys(next) = Keys(form) => MaskFits(next, matrix, unguarded')
    PROVE  FormInv'
<1>1. Changed(next, form, Fields)
  BY FormHas DEF Changed
<1>2. Reports(Layers, Fields) /\ Layers # {}
  BY DEF Reports, Layers
<1>3. touched' = touched \cup Layers
  BY DEF IInv, TypeInv
<1> QED
  BY <1>1, <1>2, <1>3, EditKeeps

LEMMA EditProtocolKindKeeps == ASSUME IInv, EditProtocolKind PROVE IInv'
<1>1. PICK p \in Protocols : Type(Layers, PickProtocol(form, p), "switch")
  BY DEF EditProtocolKind
<1>2. unguarded' = unguarded /\ unguarded \subseteq {"security", "tunnel", "mask"}
  BY DEF EditProtocolKind, IInv, TypeInv
<1> DEFINE v == form
           s == IF p = "hysteria" THEN "tls" ELSE v.security
           F == {"protocol_kind", "security"}
           next == PickProtocol(v, p)
<1>3. v \in OutboundFormValues /\ DOMAIN v = Fields /\ F \subseteq Fields
  BY FormHas DEF IInv, TypeInv, Fields, ProtocolFields, SecurityFields
<1>4. next = [v EXCEPT !.protocol_kind = p, !.security = s]
  BY DEF PickProtocol
<1>5. p \in FieldType["protocol_kind"] /\ s \in FieldType["security"]
  <2>1. v.security \in Securities
    BY <1>3 DEF OutboundFormValues
  <2> QED
    BY <2>1, FieldTypes DEF Securities
<1>6. MaskFits(v, matrix, unguarded) /\ SelectorsAgree(v, unguarded)
  BY DEF IInv, OpenInv, EditProtocolKind
<1>7. /\ form' = GuardEdited(form, next) /\ touched' = Layers /\ link' = {}
      /\ stage = "open" /\ UNCHANGED <<stored, stage, editing, matrix>>
  BY <1>1 DEF Type, IInv, TypeInv
<1> HIDE DEF v, next
<1>8. /\ Changed(next, v, F) /\ next["protocol_kind"] = p /\ next["security"] = s
  BY <1>3, <1>4 DEF Changed
<1>9. next \in OutboundFormValues
  <2>1. \A f \in F : next[f] \in FieldType[f]
    BY <1>5, <1>8
  <2> HIDE DEF F
  <2> QED
    BY <1>3, <1>8, <2>1, ChangedIsTyped
<1>10. /\ next.wg_peer = v.wg_peer /\ next.wg_reserved = v.wg_reserved
       /\ next.finalmask_kind = v.finalmask_kind
  <2>1. {"wg_peer", "wg_reserved", "finalmask_kind"} \subseteq Fields \ F
    BY DEF Fields, ProtocolFields, MaskFields
  <2> HIDE DEF F
  <2> QED
    BY <1>8, <2>1 DEF Changed
<1>11. SelectorsAgree(next, unguarded')
  BY <1>2, <1>6, <1>8, <1>10 DEF SelectorsAgree
<1>12. Keys(next) = Keys(v) => MaskFits(next, matrix, unguarded')
  BY <1>2, <1>6, <1>10 DEF MaskFits, Supported
<1>13. LinkInv'
  BY <1>7, NoLink
<1>14. FormInv'
  BY <1>2, <1>7, <1>9, <1>11, <1>12, WholeEdit DEF v
<1> QED
  BY <1>13, <1>14 DEF FormInv, IInv

LEMMA LeaveWireguardKeeps == ASSUME IInv, LeaveWireguard PROVE IInv'
<1>1. PICK p \in Protocols :
         /\ Type(Layers, [form EXCEPT !.protocol_kind = p], "switch")
         /\ unguarded' = unguarded \cup Opt(p = "hysteria" /\ form.security # "tls", "security")
  BY DEF LeaveWireguard
<1>2. unguarded \subseteq {"security", "tunnel", "mask"} /\ form \in OutboundFormValues
  BY DEF IInv, TypeInv
<1>3. /\ unguarded' \subseteq {"security", "tunnel", "mask"}
      /\ ("security" \notin unguarded' /\ p = "hysteria") => form.security = "tls"
      /\ "tunnel" \in unguarded' <=> "tunnel" \in unguarded
      /\ "mask" \in unguarded' <=> "mask" \in unguarded
  BY <1>1, <1>2 DEF Opt
<1> DEFINE next == [form EXCEPT !["protocol_kind"] = p]
           F == {"protocol_kind"}
<1>4. p \in FieldType["protocol_kind"] /\ "protocol_kind" \in Fields
  BY FieldTypes DEF Fields, ProtocolFields
<1>5. next \in OutboundFormValues /\ Changed(next, form, F) /\ next["protocol_kind"] = p
  BY <1>2, <1>4, OneField
<1>6. MaskFits(form, matrix, unguarded) /\ SelectorsAgree(form, unguarded)
  BY DEF IInv, OpenInv, LeaveWireguard
<1>7. /\ form' = GuardEdited(form, next) /\ touched' = Layers /\ link' = {}
      /\ stage = "open" /\ UNCHANGED <<stored, stage, editing, matrix>>
  BY <1>1 DEF Type, IInv, TypeInv
<1> HIDE DEF next
<1>8. /\ next.wg_peer = form.wg_peer /\ next.wg_reserved = form.wg_reserved
      /\ next.finalmask_kind = form.finalmask_kind /\ next.security = form.security
  <2>1. {"wg_peer", "wg_reserved", "finalmask_kind", "security"} \subseteq Fields \ F
    BY DEF Fields, ProtocolFields, MaskFields, SecurityFields
  <2> HIDE DEF F
  <2> QED
    BY <1>5, <2>1 DEF Changed
<1>9. SelectorsAgree(next, unguarded')
  BY <1>3, <1>5, <1>6, <1>8 DEF SelectorsAgree
<1>10. Keys(next) = Keys(form) => MaskFits(next, matrix, unguarded')
  BY <1>3, <1>6, <1>8 DEF MaskFits, Supported
<1>11. LinkInv'
  BY <1>7, NoLink
<1>12. FormInv'
  BY <1>3, <1>5, <1>7, <1>9, <1>10, WholeEdit
<1> QED
  BY <1>11, <1>12 DEF FormInv, IInv
\* An import is the same over whatever the form held.
LEMMA ImportIgnoresForm ==
    ASSUME NEW a, NEW b, NEW q
    PROVE  ApplyLink(a, q) = ApplyLink(b, q)
  BY DEF ApplyLink

LEMMA ImportAgrees == ASSUME NEW v, Importable(v), NEW u PROVE SelectorsAgree(v, u)
<1>1. Len(<<>>) = 0
  OBVIOUS
<1> QED
  BY <1>1 DEF Importable, SelectorsAgree

LEMMA PasteLinkKeeps == ASSUME IInv, PasteLink PROVE IInv'
<1>1. PICK srv \in Servers : Paste(BuildShareLink(srv), {srv})
  BY DEF PasteLink
<1> DEFINE next == ApplyLink(form, BuildShareLink(srv))
<1>2. /\ stage = "open" /\ form' = GuardEdited(form, next) /\ touched' = Layers /\ link' = {srv}
      /\ UNCHANGED <<stored, stage, editing, matrix>>
  BY <1>1 DEF Paste
<1>3. unguarded' = unguarded /\ unguarded \subseteq {"security", "tunnel", "mask"}
  BY DEF PasteLink, IInv, TypeInv
<1>4. Importable(next) /\ next.finalmask_kind \in {"none"} \cup SupportedKinds(Keys(next)[1], Keys(next)[2])
  BY ServerLink
<1>5. \A v : next = ApplyLink(v, BuildShareLink(srv))
  BY ImportIgnoresForm
<1> HIDE DEF next
<1>6. next \in OutboundFormValues /\ SelectorsAgree(next, unguarded')
  BY <1>4, ImportAgrees DEF Importable
<1>7. MaskFits(next, matrix, unguarded')
  BY <1>4 DEF MaskFits, Supported
<1>8. FormInv'
  BY <1>2, <1>3, <1>6, <1>7, WholeEdit
  \* The guard has nothing to take.
<1>9. form' = next
  <2> DEFINE k == Keys(next)
             g == [next EXCEPT !.finalmask_kind = FinalMaskGuard(matrix, @, k[1], k[2])]
  <2>1. CASE k = Keys(form)
    BY <1>2, <2>1 DEF GuardEdited
  <2>2. CASE k # Keys(form)
    <3>1. form' = g
      BY <1>2, <2>2 DEF GuardEdited, Judged
    <3>2. FinalMaskGuard(matrix, next.finalmask_kind, k[1], k[2]) = next.finalmask_kind
      BY <1>4 DEF FinalMaskGuard, AllowedFinalMasks
    <3>3. next = [f \in Fields |-> next[f]]
      BY <1>6, FormHas
    <3> HIDE DEF k
    <3>4. g = next
      BY <3>2, <3>3
    <3> QED
      BY <3>1, <3>4
  <2> QED
    BY <2>1, <2>2
<1>10. form' = ApplyLink(form', BuildShareLink(srv))
  BY <1>5, <1>9
<1>11. LinkInv'
  BY <1>2, <1>10 DEF LinkInv
<1> QED
  BY <1>8, <1>11 DEF FormInv, IInv

LEMMA PasteForeignLinkKeeps == ASSUME IInv, PasteForeignLink PROVE IInv'
<1>1. PICK q \in ForeignLinks :
         /\ Paste(q, {})
         /\ unguarded' = unguarded \cup Opt(Keys(ApplyLink(form, q)) = Keys(form), "mask")
  BY DEF PasteForeignLink
<1> DEFINE next == ApplyLink(form, q)
<1>2. /\ stage = "open" /\ form' = GuardEdited(form, next) /\ touched' = Layers /\ link' = {}
      /\ UNCHANGED <<stored, stage, editing, matrix>>
  BY <1>1 DEF Paste
<1>3. Importable(next)
  BY ForeignLink
<1> HIDE DEF next
<1>4. /\ unguarded' \subseteq {"security", "tunnel", "mask"}
      /\ Keys(next) = Keys(form) => "mask" \in unguarded'
  BY <1>1 DEF Opt, IInv, TypeInv, next
<1>5. next \in OutboundFormValues /\ SelectorsAgree(next, unguarded')
  BY <1>3, ImportAgrees DEF Importable
<1>6. Keys(next) = Keys(form) => MaskFits(next, matrix, unguarded')
  BY <1>4 DEF MaskFits
<1>7. FormInv'
  BY <1>2, <1>4, <1>5, <1>6, WholeEdit
<1>8. LinkInv'
  BY <1>2, NoLink
<1> QED
  BY <1>7, <1>8 DEF FormInv, IInv

-----------------------------------------------------------------------------
(* The session.                                                            *)

LEMMA StartKeeps ==
    ASSUME IInv, NEW v \in OutboundFormValues, NEW edit \in BOOLEAN, Start(v, edit),
           IF edit THEN stored # {} /\ \A ob \in stored : v = OutboundToForm(ob)
           ELSE v = OUTBOUND_DEFAULTS
    PROVE  IInv'
<1>1. /\ form' = v /\ editing' = edit /\ stage' = "opening" /\ stored' = stored /\ matrix' = matrix
      /\ link' = {} /\ touched' = {} /\ unguarded' = {}
  BY DEF Start
<1>2. StoredInv'
  BY <1>1 DEF IInv, StoredInv
<1>3. TypeInv'
  BY <1>1 DEF IInv, TypeInv
<1>4. OpeningInv'
  BY <1>1 DEF OpeningInv
<1>5. OpenInv'
  BY <1>1 DEF OpenInv
<1>6. LinkInv'
  BY <1>1, NoLink
<1> QED
  BY <1>2, <1>3, <1>4, <1>5, <1>6 DEF IInv

LEMMA OpenEditKeeps == ASSUME IInv, OpenEdit PROVE IInv'
<1>1. PICK ob \in stored : Start(OutboundToForm(ob), TRUE)
  BY DEF OpenEdit
<1> DEFINE v == OutboundToForm(ob)
<1>2. ob \in RowType /\ \A x \in stored : x = ob
  BY DEF IInv, StoredInv, Kept
<1>3. v \in OutboundFormValues
  BY <1>2, RowSurvives
<1>4. stored # {} /\ \A x \in stored : v = OutboundToForm(x)
  BY <1>2
<1>5. Start(v, TRUE)
  BY <1>1
<1> HIDE DEF v
<1> QED
  BY <1>3, <1>4, <1>5, StartKeeps

LEMMA OpenCreateKeeps == ASSUME IInv, OpenCreate PROVE IInv'
<1>1. Start(OUTBOUND_DEFAULTS, FALSE)
  BY DEF OpenCreate
<1> QED
  BY <1>1, DefaultsTyped, StartKeeps

\* A form that is shut.
LEMMA ClosedKeeps ==
    ASSUME IInv, stage' = "closed", form' = OUTBOUND_DEFAULTS, editing' = FALSE, matrix' = matrix,
           link' = {}, touched' = {}, unguarded' = {},
           \A ob \in stored' : Kept(ob), \A a, b \in stored' : a = b
    PROVE  IInv'
<1>1. StoredInv' /\ OpeningInv' /\ OpenInv'
  BY DEF StoredInv, OpeningInv, OpenInv
<1>2. TypeInv'
  BY DefaultsTyped DEF IInv, TypeInv
<1>3. LinkInv'
  BY NoLink
<1> QED
  BY <1>1, <1>2, <1>3 DEF IInv

LEMMA CancelKeeps == ASSUME IInv, Cancel PROVE IInv'
<1>1. /\ stage' = "closed" /\ form' = OUTBOUND_DEFAULTS /\ editing' = FALSE /\ matrix' = matrix
      /\ link' = {} /\ touched' = {} /\ unguarded' = {} /\ stored' = stored
  BY DEF Cancel
<1>2. (\A ob \in stored' : Kept(ob)) /\ \A a, b \in stored' : a = b
  BY <1>1 DEF IInv, StoredInv
<1> QED
  BY <1>1, <1>2, ClosedKeeps

LEMMA SaveAcceptedKeeps == ASSUME IInv, SaveAccepted PROVE IInv'
<1> DEFINE ob == FormToOutbound(form)
<1>1. /\ stage' = "closed" /\ form' = OUTBOUND_DEFAULTS /\ editing' = FALSE /\ matrix' = matrix
      /\ link' = {} /\ touched' = {} /\ unguarded' = {} /\ stored' = {ob}
  BY DEF SaveAccepted
<1>2. Kept(ob)
  <2>1. ob \in RowType
    BY BuiltIsTyped DEF IInv, TypeInv
  <2>2. ValidateOutbound(ob, Previous) /\ Builds(ob)
    BY DEF SaveAccepted, Accepted
  <2> HIDE DEF ob
  <2> QED
    BY <2>1, <2>2, StoredRules DEF Kept
<1> HIDE DEF ob
<1>3. (\A x \in stored' : Kept(x)) /\ \A a, b \in stored' : a = b
  BY <1>1, <1>2
<1> QED
  BY <1>1, <1>3, ClosedKeeps
\* What the first two renders leave of the form that was opened.
LEMMA Registered ==
    ASSUME NEW v \in OutboundFormValues
    PROVE  LET first == FirstRender(v)
               g == IF Keys(v) = <<"tcp", "none">> THEN first ELSE Judged(first, Keys(v))
           IN /\ g \in OutboundFormValues /\ Changed(g, v, {"finalmask_kind"})
              /\ matrix = "known" => g.finalmask_kind \in {"none"} \cup Supported(v)
              /\ \/ g.finalmask_kind = v.finalmask_kind
                 \/ /\ g.finalmask_kind = "none" /\ matrix = "known"
                    /\ \/ v.finalmask_kind \notin {"none"} \cup SupportedKinds("tcp", "none")
                       \/ v.finalmask_kind \notin {"none"} \cup Supported(v)
<1> DEFINE k == Keys(v)
           first == FirstRender(v)
           g == IF Keys(v) = <<"tcp", "none">> THEN first ELSE Judged(first, Keys(v))
           F == {"finalmask_kind"}
<1>1. first = [v EXCEPT !.finalmask_kind = FinalMaskGuard(matrix, @, "tcp", "none")]
  BY DEF FirstRender, Judged
<1>2. /\ k # <<"tcp", "none">> =>
            g = [first EXCEPT !.finalmask_kind = FinalMaskGuard(matrix, @, k[1], k[2])]
      /\ k = <<"tcp", "none">> => g = first
  BY DEF Judged
<1>3. Supported(v) = SupportedKinds(k[1], k[2])
  BY DEF Supported
<1> HIDE DEF k, first, g
<1>4. /\ first \in OutboundFormValues /\ Changed(first, v, {"finalmask_kind"})
      /\ matrix = "known" => first.finalmask_kind \in {"none"} \cup SupportedKinds("tcp", "none")
      /\ \/ first.finalmask_kind = v.finalmask_kind
         \/ /\ first.finalmask_kind = "none" /\ matrix = "known"
            /\ v.finalmask_kind \notin {"none"} \cup SupportedKinds("tcp", "none")
  BY <1>1, GuardIs
<1>5. CASE k = <<"tcp", "none">>
  <2>1. g = first /\ Supported(v) = SupportedKinds("tcp", "none")
    BY <1>2, <1>3, <1>5
  <2> QED
    BY <1>4, <2>1 DEF g, first
<1>6. CASE k # <<"tcp", "none">>
  <2>1. g = [first EXCEPT !.finalmask_kind = FinalMaskGuard(matrix, @, k[1], k[2])]
    BY <1>2, <1>6
  <2>2. /\ g \in OutboundFormValues /\ Changed(g, first, {"finalmask_kind"})
        /\ matrix = "known" => g.finalmask_kind \in {"none"} \cup SupportedKinds(k[1], k[2])
        /\ \/ g.finalmask_kind = first.finalmask_kind
           \/ /\ g.finalmask_kind = "none" /\ matrix = "known"
              /\ first.finalmask_kind \notin {"none"} \cup SupportedKinds(k[1], k[2])
    <3> DEFINE t == k[1]
               s == k[2]
               h == [first EXCEPT !.finalmask_kind = FinalMaskGuard(matrix, @, t, s)]
    <3>1. /\ h \in OutboundFormValues /\ Changed(h, first, {"finalmask_kind"})
          /\ matrix = "known" => h.finalmask_kind \in {"none"} \cup SupportedKinds(t, s)
          /\ \/ h.finalmask_kind = first.finalmask_kind
             \/ /\ h.finalmask_kind = "none" /\ matrix = "known"
                /\ first.finalmask_kind \notin {"none"} \cup SupportedKinds(t, s)
      <4> HIDE DEF t, s
      <4> QED
        BY <1>4, GuardIs
    <3>2. g = h
      BY <2>1
    <3> HIDE DEF h
    <3> QED
      BY <3>1, <3>2
  <2>3. Changed(g, v, {"finalmask_kind"})
    BY <1>4, <2>2 DEF Changed
  <2>4. \/ g.finalmask_kind = v.finalmask_kind
        \/ /\ g.finalmask_kind = "none" /\ matrix = "known"
           /\ \/ v.finalmask_kind \notin {"none"} \cup SupportedKinds("tcp", "none")
              \/ v.finalmask_kind \notin {"none"} \cup Supported(v)
    BY <1>3, <1>4, <2>2
  <2> QED
    BY <1>3, <2>2, <2>3, <2>4 DEF g, first
<1> QED
  BY <1>5, <1>6

\* The fields a guard leaves as they are.
LEMMA GuardLeaves ==
    ASSUME NEW g, NEW v, Changed(g, v, {"finalmask_kind"})
    PROVE  /\ \A f \in Fields \ {"finalmask_kind"} : g[f] = v[f]
           /\ g.protocol_kind = v.protocol_kind /\ g.address = v.address
           /\ g.network = v.network /\ g.security = v.security /\ g.mux_enabled = v.mux_enabled
           /\ g.wg_peer = v.wg_peer /\ g.wg_reserved = v.wg_reserved
           /\ Keys(g) = Keys(v) /\ Supported(g) = Supported(v)
<1>1. {"protocol_kind", "address", "network", "security", "mux_enabled", "wg_peer", "wg_reserved"}
        \subseteq Fields \ {"finalmask_kind"}
  BY DEF Fields, ProtocolFields, TransportFields, SecurityFields, MuxFields
<1>2. \A f \in Fields \ {"finalmask_kind"} : g[f] = v[f]
  BY DEF Changed
<1>3. /\ g.protocol_kind = v.protocol_kind /\ g.address = v.address
      /\ g.network = v.network /\ g.security = v.security /\ g.mux_enabled = v.mux_enabled
      /\ g.wg_peer = v.wg_peer /\ g.wg_reserved = v.wg_reserved
  BY <1>1, <1>2
<1> QED
  BY <1>2, <1>3 DEF Keys, Supported

\* A row the backend keeps hydrates into selectors that agree.
LEMMA RowAgrees ==
    ASSUME NEW ob, Kept(ob)
    PROVE  SelectorsAgree(OutboundToForm(ob), {})
<1> DEFINE w == OutboundToForm(ob)
<1>1. /\ w.protocol_kind = ob.protocol.kind /\ w.security = ob.security.kind
      /\ ob.protocol.kind # "wireguard" => w.wg_peer = "blank" /\ w.wg_reserved = <<>>
      /\ ob.protocol.kind = "wireguard" =>
            w.wg_peer = ob.protocol.peer /\ w.wg_reserved = ob.protocol.reserved
  BY RowSurvives DEF Kept
<1>2. /\ ob.protocol.kind = "hysteria" => ob.security.kind = "tls"
      /\ ob.protocol.kind = "wireguard" =>
            ob.protocol.peer = "good" /\ Len(ob.protocol.reserved) \in {0, 3}
  BY DEF Kept, ValidateOutbound, ValidateWireguard
<1>3. Len(<<>>) = 0
  OBVIOUS
<1> HIDE DEF w
<1>4. SelectorsAgree(w, {})
  BY <1>1, <1>2, <1>3 DEF SelectorsAgree
<1> QED
  BY <1>4 DEF w

LEMMA DefaultsAgree == SelectorsAgree(OUTBOUND_DEFAULTS, {})
<1>1. Len(<<>>) = 0
  OBVIOUS
<1> QED
  BY <1>1, DefaultsHold DEF SelectorsAgree

LEMMA RegisterKeeps == ASSUME IInv, Register PROVE IInv'
<1> DEFINE v == form
           first == FirstRender(v)
           g == IF Keys(v) = <<"tcp", "none">> THEN first ELSE Judged(first, Keys(v))
<1>1. v \in OutboundFormValues
  BY DEF IInv, TypeInv
<1>2. /\ g \in OutboundFormValues /\ Changed(g, v, {"finalmask_kind"})
      /\ matrix = "known" => g.finalmask_kind \in {"none"} \cup Supported(v)
      /\ \/ g.finalmask_kind = v.finalmask_kind
         \/ /\ g.finalmask_kind = "none" /\ matrix = "known"
            /\ \/ v.finalmask_kind \notin {"none"} \cup SupportedKinds("tcp", "none")
               \/ v.finalmask_kind \notin {"none"} \cup Supported(v)
  BY <1>1, Registered
<1>3. /\ form' = g /\ stage = "opening" /\ stage' = "open"
      /\ UNCHANGED <<stored, editing, matrix, link, touched, unguarded>>
  BY DEF Register
<1> HIDE DEF g, first
<1>4. /\ \A f \in Fields \ {"finalmask_kind"} : g[f] = v[f]
      /\ g.protocol_kind = v.protocol_kind /\ g.address = v.address
      /\ g.network = v.network /\ g.security = v.security /\ g.mux_enabled = v.mux_enabled
      /\ g.wg_peer = v.wg_peer /\ g.wg_reserved = v.wg_reserved
      /\ Supported(g) = Supported(v)
  BY <1>2, GuardLeaves
<1>5. /\ touched = {} /\ unguarded = {} /\ link = {} /\ editing \in BOOLEAN
      /\ editing => stored # {} /\ \A ob \in stored : v = OutboundToForm(ob)
      /\ ~editing => v = OUTBOUND_DEFAULTS
      /\ \A ob \in stored : Kept(ob)
  BY <1>3 DEF IInv, OpeningInv, LinkInv, StoredInv
<1> HIDE DEF v
<1>6. SelectorsAgree(v, {})
  <2>1. CASE editing
    BY <1>5, <2>1, RowAgrees
  <2>2. CASE ~editing
    BY <1>5, <2>2, DefaultsAgree
  <2> QED
    BY <2>1, <2>2
<1>7. SelectorsAgree(g, {})
  BY <1>4, <1>6 DEF SelectorsAgree
<1>8. MaskFits(g, matrix, {})
  BY <1>2, <1>4 DEF MaskFits
<1>9. ~editing => g.protocol_kind = "vless" /\ g.address = "blank"
  BY <1>4, <1>5, DefaultsHold
<1>10. ASSUME editing, NEW ob \in stored PROVE AsHydrated(g, matrix, {}, OutboundToForm(ob), ob)
  <2>1. v = OutboundToForm(ob) /\ ob \in RowType
    BY <1>5, <1>10 DEF Kept
  <2>2. v.finalmask_kind = ob.finalmask.kind
    BY <2>1, RowSurvives
  <2>3. /\ ProtocolFields \subseteq Fields \ {"finalmask_kind"}
        /\ TransportFields \subseteq Fields \ {"finalmask_kind"}
        /\ SecurityFields \subseteq Fields \ {"finalmask_kind"}
        /\ MaskFields \subseteq Fields
    BY DEF Fields, ProtocolFields, TransportFields, SecurityFields, MaskFields
  <2>4. \/ g.finalmask_kind = v.finalmask_kind
        \/ /\ g.finalmask_kind = "none" /\ matrix = "known"
           /\ DroppedOnOpen(ob) \/ ob.finalmask.kind \notin Supported(g)
    BY <1>2, <1>4, <2>2 DEF DroppedOnOpen
  <2>5. MaskAsHydrated(g, matrix, v, ob)
    BY <1>4, <2>3, <2>4 DEF MaskAsHydrated
  <2>6. AsHydrated(g, matrix, {}, v, ob)
    BY <1>4, <2>3, <2>5 DEF AsHydrated
  <2> QED
    BY <2>1, <2>6
<1>11. OpenInv'
  BY <1>3, <1>5, <1>7, <1>8, <1>9, <1>10 DEF OpenInv
<1>12. StoredInv' /\ OpeningInv'
  BY <1>3 DEF IInv, StoredInv, OpeningInv
<1>13. TypeInv'
  BY <1>2, <1>3 DEF IInv, TypeInv
<1>14. LinkInv'
  BY <1>3, <1>5, NoLink
<1> QED
  BY <1>11, <1>12, <1>13, <1>14 DEF IInv
\* The answer of the matrix is one more judgement of the mask.
LEMMA MatrixAnswersKeeps == ASSUME IInv, MatrixAnswers PROVE IInv'
<1>1. /\ matrix # "known" /\ matrix' = "known"
      /\ UNCHANGED <<stored, stage, editing, link, touched, unguarded>>
  BY DEF MatrixAnswers
<1>2. StoredInv'
  BY <1>1 DEF IInv, StoredInv
<1>3. CASE stage # "open"
  <2>1. form' = form /\ link = {}
    BY <1>3 DEF MatrixAnswers, IInv, LinkInv
  <2>2. TypeInv' /\ OpeningInv' /\ OpenInv'
    BY <1>1, <1>3, <2>1 DEF IInv, TypeInv, OpeningInv, OpenInv
  <2>3. LinkInv'
    BY <1>1, <2>1, NoLink
  <2> QED
    BY <1>2, <2>2, <2>3 DEF IInv
<1>4. CASE stage = "open"
  <2> DEFINE v == form
             t == Keys(v)[1]
             s == Keys(v)[2]
             g == [v EXCEPT !.finalmask_kind = FinalMaskGuard("known", @, t, s)]
  <2>1. form' = g
    BY <1>4 DEF MatrixAnswers
  <2>2. v \in OutboundFormValues /\ Supported(v) = SupportedKinds(t, s)
    BY DEF IInv, TypeInv, Supported
  <2> HIDE DEF t, s
  <2>3. /\ g \in OutboundFormValues /\ Changed(g, v, {"finalmask_kind"})
        /\ g.finalmask_kind \in {"none"} \cup SupportedKinds(t, s)
        /\ \/ g.finalmask_kind = v.finalmask_kind
           \/ /\ g.finalmask_kind = "none"
              /\ v.finalmask_kind \notin {"none"} \cup SupportedKinds(t, s)
    BY <2>2, GuardIs
  <2> HIDE DEF g
  <2>4. /\ \A f \in Fields \ {"finalmask_kind"} : g[f] = v[f]
        /\ g.protocol_kind = v.protocol_kind /\ g.address = v.address
        /\ g.network = v.network /\ g.security = v.security /\ g.mux_enabled = v.mux_enabled
        /\ g.wg_peer = v.wg_peer /\ g.wg_reserved = v.wg_reserved
        /\ Supported(g) = Supported(v)
    BY <2>3, GuardLeaves
  <2>5. /\ SelectorsAgree(v, unguarded)
        /\ (~editing /\ touched = {}) => v.protocol_kind = "vless" /\ v.address = "blank"
        /\ editing => \A ob \in stored : AsHydrated(v, matrix, touched, OutboundToForm(ob), ob)
        /\ \A ob \in stored : ob \in RowType
        /\ link \subseteq Servers /\ \A a, b \in link : a = b
        /\ \A srv \in link : v = ApplyLink(v, BuildShareLink(srv))
    BY <1>4 DEF IInv, OpenInv, StoredInv, Kept, LinkInv
  <2> HIDE DEF v
  <2>6. SelectorsAgree(g, unguarded)
    BY <2>4, <2>5 DEF SelectorsAgree
  <2>7. MaskFits(g, "known", unguarded)
    BY <2>2, <2>3, <2>4 DEF MaskFits
  <2>8. (~editing /\ touched = {}) => g.protocol_kind = "vless" /\ g.address = "blank"
    BY <2>4, <2>5
  <2>9. ASSUME editing, NEW ob \in stored
        PROVE  AsHydrated(g, "known", touched, OutboundToForm(ob), ob)
    <3> DEFINE w == OutboundToForm(ob)
    <3>1. AsHydrated(v, matrix, touched, w, ob) /\ w.finalmask_kind = ob.finalmask.kind
      BY <2>5, <2>9, RowSurvives
    <3> HIDE DEF w
    <3>2. /\ ProtocolFields \subseteq Fields \ {"finalmask_kind"}
          /\ TransportFields \subseteq Fields \ {"finalmask_kind"}
          /\ SecurityFields \subseteq Fields \ {"finalmask_kind"}
          /\ MaskFields \subseteq Fields
      BY DEF Fields, ProtocolFields, TransportFields, SecurityFields, MaskFields
    <3>3. ASSUME MaskAsHydrated(v, matrix, w, ob) PROVE MaskAsHydrated(g, "known", w, ob)
      <4>1. v.finalmask_kind = w.finalmask_kind
        BY <1>1, <3>3 DEF MaskAsHydrated
      <4>2. \/ g.finalmask_kind = w.finalmask_kind
            \/ g.finalmask_kind = "none" /\ ob.finalmask.kind \notin Supported(g)
        BY <2>2, <2>3, <2>4, <3>1, <4>1
      <4> QED
        BY <2>4, <3>2, <3>3, <4>2 DEF MaskAsHydrated
    <3>4. AsHydrated(g, "known", touched, w, ob)
      BY <2>4, <3>1, <3>2, <3>3 DEF AsHydrated
    <3> QED
      BY <3>4 DEF w
  <2>10. OpenInv'
    BY <1>1, <2>1, <2>6, <2>7, <2>8, <2>9 DEF OpenInv
  <2>11. TypeInv' /\ OpeningInv'
    BY <1>1, <1>4, <2>1, <2>3 DEF IInv, TypeInv, OpeningInv
  \* The mask of a pasted link is one the matrix takes.
  <2>12. ASSUME NEW srv \in link PROVE g = ApplyLink(g, BuildShareLink(srv))
    <3> DEFINE n == ApplyLink(v, BuildShareLink(srv))
    <3>1. n.finalmask_kind \in {"none"} \cup SupportedKinds(Keys(n)[1], Keys(n)[2])
      BY <2>5, ServerLink
    <3>2. v = n
      BY <2>5, <2>12
    <3>3. ApplyLink(g, BuildShareLink(srv)) = n
      BY ImportIgnoresForm
    <3> HIDE DEF n
    <3>4. v.finalmask_kind \in {"none"} \cup SupportedKinds(t, s)
      BY <2>2, <3>1, <3>2 DEF Supported
    <3>5. \A f \in Fields : g[f] = v[f]
      BY <2>3, <2>4, <3>4
    <3>6. g = [f \in Fields |-> g[f]] /\ v = [f \in Fields |-> v[f]]
      BY <2>2, <2>3, FormHas
    <3>7. g = v
      BY <3>5, <3>6
    <3> QED
      BY <3>2, <3>3, <3>7
  <2>13. LinkInv'
    BY <1>1, <1>4, <2>1, <2>5, <2>12 DEF LinkInv
  <2> QED
    BY <1>2, <2>10, <2>11, <2>13 DEF IInv
<1> QED
  BY <1>3, <1>4

LEMMA MatrixFailsKeeps == ASSUME IInv, MatrixFails PROVE IInv'
<1>1. /\ matrix = "pending" /\ matrix' = "failed"
      /\ UNCHANGED <<stored, form, stage, editing, link, touched, unguarded>>
  BY DEF MatrixFails
<1>2. StoredInv' /\ TypeInv' /\ OpeningInv' /\ LinkInv'
  BY <1>1 DEF IInv, StoredInv, TypeInv, OpeningInv, LinkInv
<1>3. OpenInv'
  <2>1. \A v, u : MaskFits(v, matrix', u)
    BY <1>1 DEF MaskFits
  <2>2. \A v, t, w, ob : AsHydrated(v, matrix, t, w, ob) => AsHydrated(v, matrix', t, w, ob)
    BY <1>1 DEF AsHydrated, MaskAsHydrated
  <2> QED
    BY <1>1, <2>1, <2>2 DEF IInv, OpenInv
<1> QED
  BY <1>2, <1>3 DEF IInv

LEMMA StutterKeeps == ASSUME IInv, UNCHANGED vars PROVE IInv'
<1>1. UNCHANGED <<stored, form, stage, editing, matrix, link, touched, unguarded>>
  BY DEF vars
<1>2. StoredInv' /\ TypeInv' /\ OpeningInv' /\ OpenInv' /\ LinkInv'
  BY <1>1 DEF IInv, StoredInv, TypeInv, OpeningInv, OpenInv, LinkInv
<1> QED
  BY <1>2 DEF IInv

-----------------------------------------------------------------------------
(* The theorems.                                                           *)

LEMMA Initially == Init => IInv
<1> SUFFICES ASSUME Init PROVE IInv
  OBVIOUS
<1>1. StoredInv
  <2>1. stored = {} \/ \E b \in StoredRows : stored = {b}
    BY DEF Init
  <2>2. editing = FALSE
    BY DEF Init
  <2> QED
    BY <2>1, <2>2, StoredRowsAreKept DEF StoredInv
<1>2. TypeInv
  BY DefaultsTyped DEF Init, TypeInv
<1>3. OpeningInv /\ OpenInv /\ LinkInv
  BY DEF Init, OpeningInv, OpenInv, LinkInv
<1> QED
  BY <1>1, <1>2, <1>3 DEF IInv

LEMMA Step == IInv /\ [Next]_vars => IInv'
<1> SUFFICES ASSUME IInv, [Next]_vars PROVE IInv'
  OBVIOUS
<1>1. CASE OpenEdit
  BY <1>1, OpenEditKeeps
<1>2. CASE OpenCreate
  BY <1>2, OpenCreateKeeps
<1>3. CASE Register
  BY <1>3, RegisterKeeps
<1>4. CASE Cancel
  BY <1>4, CancelKeeps
<1>5. CASE MatrixAnswers
  BY <1>5, MatrixAnswersKeeps
<1>6. CASE MatrixFails
  BY <1>6, MatrixFailsKeeps
<1>7. CASE EditProtocolKind
  BY <1>7, EditProtocolKindKeeps
<1>8. CASE LeaveWireguard
  BY <1>8, LeaveWireguardKeeps
<1>9. CASE EditNetwork
  BY <1>9, EditNetworkKeeps
<1>10. CASE EditSecurityKind
  BY <1>10, EditSecurityKindKeeps
<1>11. CASE EditMaskKind
  BY <1>11, EditMaskKindKeeps
<1>12. CASE EditMask
  BY <1>12, EditMaskKeeps
<1>13. CASE EditProtocolFields
  BY <1>13, EditProtocolFieldsKeeps
<1>14. CASE EditTransportFields
  BY <1>14, EditTransportFieldsKeeps
<1>15. CASE EditSecurityFields
  BY <1>15, EditSecurityFieldsKeeps
<1>16. CASE PasteLink
  BY <1>16, PasteLinkKeeps
<1>17. CASE PasteForeignLink
  BY <1>17, PasteForeignLinkKeeps
<1>18. CASE SaveAccepted
  BY <1>18, SaveAcceptedKeeps
<1>19. CASE UNCHANGED vars
  BY <1>19, StutterKeeps
<1>20. CASE SaveRefused \/ Finished
  BY <1>19, <1>20 DEF SaveRefused, Finished
<1> QED
  BY <1>1, <1>2, <1>3, <1>4, <1>5, <1>6, <1>7, <1>8, <1>9, <1>10, <1>11, <1>12, <1>13, <1>14,
     <1>15, <1>16, <1>17, <1>18, <1>19, <1>20 DEF Next

\* The invariant the other theorems are read off: whatever is opened, pasted,
\* typed, judged and saved, an untouched layer is as the row was hydrated, a
\* pasted link stands as imported, and what no guard looks after agrees.
THEOREM Invariance == Spec => []IInv
<1>1. Init => IInv
  BY Initially
<1>2. IInv /\ [Next]_vars => IInv'
  BY Step
<1> QED
  BY <1>1, <1>2, PTL DEF Spec

\* The store holds values its selectors can show, and the row in the list is
\* one the backend's rules take, for any number of sessions.
THEOREM TypeCorrect == Spec => []TypeOK
<1>1. IInv => TypeOK
  BY GivesTypeOK
<1> QED
  BY <1>1, Invariance, PTL

\* A form whose required fields are filled, judged by a known matrix and past
\* the steps nothing guards, is one validate_outbounds and the builder take.
THEOREM SettledFormIsAccepted == Spec => []SettledFormAccepted
<1>1. IInv => SettledFormAccepted
  BY GivesAccepted
<1> QED
  BY <1>1, Invariance, PTL

\* The link build_share_link makes of an inbound, imported by parseOutboundLink
\* over any form, builds an outbound that speaks what the inbound speaks, but
\* for the gaps LinkGap names; no answer of the matrix takes the mask away.
THEOREM PastedLinkSpeaks == Spec => []LinkSpeaksServer
<1>1. IInv => LinkSpeaksServer
  BY GivesLinkSpeaks
<1> QED
  BY <1>1, Invariance, PTL

\* What the form shows of a layer no edit touched means the same built back by
\* formToOutbound as it does in the row outboundToForm hydrated, whoever wrote the
\* row: of what it holds only the parts without a field are lost (Shown). The one
\* exception is a mask the known matrix has ruled out.
THEOREM UntouchedLayersSurvive == Spec => []UntouchedSurvives
<1>1. IInv => UntouchedSurvives
  BY GivesUntouched
<1> QED
  BY <1>1, Invariance, PTL
=============================================================================
