--------------------------- MODULE InboundEditProofs ---------------------------
(***************************************************************************)
(* For every number of edits and saves: a form the guards have settled is  *)
(* one the backend's cross-layer rules accept, no guard takes a mask the   *)
(* answered matrix does not rule out, and a save stores the layers nobody  *)
(* touched with the meaning they were loaded with.                         *)
(***************************************************************************)
EXTENDS InboundEdit, FiniteSetTheorems, TLAPS

Selectors == {"protocol_kind", "network", "security", "vless_flow", "finalmask_kind"}

\* A form whose selectors hold what the selectors can hold.
Shaped(v) ==
    /\ Selectors \subseteq DOMAIN v
    /\ v.protocol_kind \in Protocols
    /\ v.network \in Networks
    /\ v.security \in Securities
    /\ v.finalmask_kind \in MaskKinds

\* What the guards of network and security leave behind.
LegalLayers(v) ==
    /\ v.protocol_kind = "wireguard" => v.network = "tcp"
    /\ v.security \in AllowedSecurities(v.protocol_kind)
    /\ ~(v.network = "ws" /\ v.security = "reality")
    /\ v.vless_flow = "vision" => (v.protocol_kind = "vless" /\ v.network = "tcp")

\* What the guard of the mask leaves behind once the matrix has answered.
LegalMask(v) ==
    v.finalmask_kind \in
        {"none"} \cup SupportedKinds(MaskTransport(v.protocol_kind, v.network), v.security)

\* One pass of the effects, field by field.
LEMMA GuardFields ==
    ASSUME NEW v, NEW m, Shaped(v)
    PROVE  LET w == UseProtocolGuards(v, m)
           IN /\ DOMAIN w = DOMAIN v
              /\ w.protocol_kind = v.protocol_kind
              /\ w.vless_flow = GuardFlow(v)
              /\ w.network = GuardNetwork(v)
              /\ w.security = GuardSecurity(v)
              /\ w.finalmask_kind = FinalMaskGuard(m, v.finalmask_kind,
                                        MaskTransport(v.protocol_kind, v.network), v.security)
BY DEF Shaped, Selectors, UseProtocolGuards

LEMMA NetworkGuard ==
    ASSUME NEW v, Shaped(v)
    PROVE  /\ GuardNetwork(v) \in Networks
           /\ v.protocol_kind = "wireguard" => GuardNetwork(v) = "tcp"
           /\ (v.protocol_kind = "wireguard" => v.network = "tcp") => GuardNetwork(v) = v.network
<1>1. CASE v.protocol_kind = "vless"
  BY <1>1 DEF Shaped, GuardNetwork, AllowedTransports, Networks
<1>2. CASE v.protocol_kind = "hysteria2"
  BY <1>2 DEF Shaped, GuardNetwork, AllowedTransports, Networks
<1>3. CASE v.protocol_kind = "wireguard"
  BY <1>3 DEF Shaped, GuardNetwork, AllowedTransports, Networks
<1> QED
  BY <1>1, <1>2, <1>3 DEF Shaped, Protocols

LEMMA SecurityGuard ==
    ASSUME NEW v, Shaped(v)
    PROVE  /\ GuardSecurity(v) \in Securities
           /\ (v.protocol_kind = "wireguard" => v.network = "tcp")
                => /\ GuardSecurity(v) \in AllowedSecurities(v.protocol_kind)
                   /\ ~(v.network = "ws" /\ GuardSecurity(v) = "reality")
           /\ (v.security \in AllowedSecurities(v.protocol_kind)
                 /\ ~(v.network = "ws" /\ v.security = "reality"))
                => GuardSecurity(v) = v.security
BY DEF Shaped, GuardSecurity, AllowedSecurities, DefaultSecurity, Protocols, Networks, Securities

\* A pass keeps the shape; the second has the network of the first, and the
\* third the security of the second.
LEMMA GuardShape ==
    ASSUME NEW v, NEW m, Shaped(v)
    PROVE  Shaped(UseProtocolGuards(v, m))
<1> DEFINE w == UseProtocolGuards(v, m)
<1>1. w.finalmask_kind \in MaskKinds
  BY GuardFields DEF Shaped, FinalMaskGuard, MaskKinds
<1> QED
  BY <1>1, GuardFields, NetworkGuard, SecurityGuard DEF Shaped

LEMMA SettleIsLegal ==
    ASSUME NEW v, NEW m, Shaped(v)
    PROVE  /\ Shaped(Settle(v, m))
           /\ LegalLayers(Settle(v, m))
           /\ m = "known" => LegalMask(Settle(v, m))
<1> DEFINE once  == UseProtocolGuards(v, m)
           twice == UseProtocolGuards(once, m)
           final == UseProtocolGuards(twice, m)
<1>0. Settle(v, m) = final
  BY DEF Settle
<1>1. Shaped(once) /\ Shaped(twice) /\ Shaped(final)
  BY GuardShape
<1>2. once.protocol_kind = "wireguard" => once.network = "tcp"
  BY GuardFields, NetworkGuard
<1>3. /\ twice.network = once.network
      /\ twice.protocol_kind = once.protocol_kind
      /\ twice.security \in AllowedSecurities(twice.protocol_kind)
      /\ ~(twice.network = "ws" /\ twice.security = "reality")
  <2> HIDE DEF once
  <2>1. Shaped(once)
    BY <1>1
  <2> QED
    BY <2>1, <1>2, GuardFields, NetworkGuard, SecurityGuard
<1>4. /\ final.network = twice.network
      /\ final.protocol_kind = twice.protocol_kind
      /\ final.security = twice.security
      /\ final.vless_flow = GuardFlow(twice)
      /\ final.finalmask_kind = FinalMaskGuard(m, twice.finalmask_kind,
                                    MaskTransport(twice.protocol_kind, twice.network), twice.security)
  <2> HIDE DEF once, twice
  <2>1. Shaped(twice)
    BY <1>1
  <2> QED
    BY <2>1, <1>2, <1>3, GuardFields, NetworkGuard, SecurityGuard
<1> HIDE DEF once, twice, final
<1>5. LegalLayers(final)
  BY <1>1, <1>2, <1>3, <1>4 DEF LegalLayers, GuardFlow, HasFlow
<1>6. ASSUME m = "known" PROVE LegalMask(final)
  BY <1>4, <1>6 DEF LegalMask, FinalMaskGuard, AllowedFinalMasks
<1> QED
  BY <1>0, <1>1, <1>5, <1>6

-----------------------------------------------------------------------------
(* A legal form passes the backend's rules.                                 *)

LEMMA LegalIsAccepted ==
    ASSUME NEW v, Shaped(v), LegalLayers(v), LegalMask(v), ~Unguarded(v)
    PROVE  ValidateLayers(FormToUpdate(v))
<1> DEFINE b == FormToUpdate(v)
<1>1. /\ b.protocol = BuildProtocol(v) /\ b.transport = BuildTransport(v)
      /\ b.security = BuildSecurity(v) /\ b.finalmask = BuildFinalMask(v)
  BY DEF FormToUpdate
<1>2. /\ b.protocol.kind = v.protocol_kind
      /\ b.security.kind = v.security
      /\ b.finalmask.kind = v.finalmask_kind
      /\ b.transport.kind = IF v.protocol_kind = "hysteria2" THEN "hysteria" ELSE v.network
  <2>1. b.protocol.kind = v.protocol_kind
    BY <1>1 DEF BuildProtocol, Shaped, Protocols
  <2>2. b.security.kind = v.security
    BY <1>1 DEF BuildSecurity, Shaped, Securities
  <2>3. b.finalmask.kind = v.finalmask_kind
    BY <1>1 DEF BuildFinalMask, Shaped, MaskKinds
  <2>4. b.transport.kind = IF v.protocol_kind = "hysteria2" THEN "hysteria" ELSE v.network
    BY <1>1 DEF BuildTransport, Shaped, Networks
  <2> QED
    BY <2>1, <2>2, <2>3, <2>4
<1>3. b.protocol.kind = "vless" => /\ b.protocol.flow = v.vless_flow
                                   /\ b.protocol.enc = {} <=> v.encryption_mode = "none"
                                   /\ b.protocol.fallbacks => (v.encryption_mode = "none" /\ v.fallbacks)
  <2> SUFFICES ASSUME v.protocol_kind = "vless"
               PROVE  /\ b.protocol.flow = v.vless_flow
                      /\ b.protocol.enc = {} <=> v.encryption_mode = "none"
                      /\ b.protocol.fallbacks => (v.encryption_mode = "none" /\ v.fallbacks)
    BY <1>2
  <2>1. /\ b.protocol.flow = v.vless_flow
        /\ b.protocol.enc = Some(v.encryption_mode # "none",
                                 [auth |-> v.encryption_auth, keys |-> v.encryption_keys])
        /\ b.protocol.fallbacks = (v.encryption_mode = "none" /\ v.fallbacks)
    BY <1>1 DEF BuildProtocol
  <2> QED
    BY <2>1 DEF Some
<1>4. ValidateXhttpMode(b.transport)
  <2> SUFFICES ASSUME b.transport.kind = "xhttp" PROVE b.transport.mode = "packet-up" \/ ~b.transport.get
    BY DEF ValidateXhttpMode
  <2>1. b.transport.mode = v.xhttp_mode /\ b.transport.get = UplinkGet(v)
    BY <1>1, <1>2 DEF BuildTransport, Shaped, Networks
  <2> QED
    BY <2>1 DEF UplinkGet
<1> HIDE DEF b
<1>5. /\ b.transport.kind \in CompatTransports(b.protocol.kind)
      /\ b.security.kind \in CompatSecurities(b.protocol.kind)
      /\ b.protocol.kind = "vless" /\ b.protocol.flow = "vision" => b.transport.kind = "tcp"
      /\ ~(b.security.kind = "reality" /\ b.transport.kind = "ws")
  BY <1>2, <1>3 DEF Shaped, LegalLayers, CompatTransports, CompatSecurities, AllowedSecurities,
                     Protocols, Networks, Securities
<1>6. ValidateFinalMask(b)
  <2>1. OverHttp3(b.transport, b.security) => b.finalmask.kind \notin {"fragment", "xmc"}
    BY <1>1, <1>2 DEF Unguarded
  <2>2. MaskTransport(v.protocol_kind, v.network) =
            IF b.protocol.kind = "wireguard" THEN "wireguard" ELSE b.transport.kind
    BY <1>2 DEF MaskTransport, Shaped, Protocols
  <2> QED
    BY <1>2, <2>1, <2>2 DEF ValidateFinalMask, LegalMask
<1>7. ValidateFallbacks(b)
  BY <1>2, <1>3 DEF ValidateFallbacks, Unguarded
<1> QED
  BY <1>4, <1>5, <1>6, <1>7 DEF ValidateLayers, b
-----------------------------------------------------------------------------
(* Rows: the layers of a stored row are among those the form can hold, and  *)
(* passed the backend's rules.                                              *)

RowShaped(row) ==
    /\ row.protocol.kind \in Protocols
    /\ row.transport.kind \in Networks \cup {"hysteria"}
    /\ row.security.kind \in Securities
    /\ row.finalmask.kind \in MaskKinds

\* The rules look at the kinds, and at little else.
LEMMA RulesReadLittle ==
    ASSUME NEW b, NEW c, ValidateLayers(b),
           c.protocol.kind = b.protocol.kind, c.transport.kind = b.transport.kind,
           c.security.kind = b.security.kind, c.finalmask.kind = b.finalmask.kind,
           c.protocol.kind = "vless" => /\ c.protocol.flow = b.protocol.flow
                                        /\ c.protocol.fallbacks => b.protocol.fallbacks
                                        /\ b.protocol.enc = {} => c.protocol.enc = {},
           ValidateXhttpMode(c.transport),
           OverHttp3(c.transport, c.security) => OverHttp3(b.transport, b.security)
    PROVE  ValidateLayers(c)
<1>1. ValidateFinalMask(c)
  BY DEF ValidateLayers, ValidateFinalMask
<1>2. ValidateFallbacks(c)
  BY DEF ValidateLayers, ValidateFallbacks
<1> QED
  BY <1>1, <1>2 DEF ValidateLayers

\* What the form builds, layer by layer.
LEMMA BuiltLayers ==
    ASSUME NEW v, Shaped(v)
    PROVE  LET b == FormToUpdate(v)
           IN /\ RowShaped(b)
              /\ DOMAIN b = {"protocol", "transport", "security", "sniffing", "sockopt", "finalmask"}
              /\ "kind" \in DOMAIN b.protocol /\ "kind" \in DOMAIN b.transport
              /\ "kind" \in DOMAIN b.security /\ "kind" \in DOMAIN b.finalmask
              /\ b.protocol.kind = "vless" =>
                    DOMAIN b.protocol = {"kind", "flow", "enc", "fallbacks"}
              /\ b.protocol.kind = "wireguard" => DOMAIN b.protocol = {"kind", "keys", "mtu"}
              /\ b.transport.kind = "xhttp" =>
                    DOMAIN b.transport = {"kind", "mode", "headers", "get", "quic"}
              /\ b.security.kind = "reality" => DOMAIN b.security = {"kind", "keys"}
              /\ b.security.kind = "tls" => DOMAIN b.security = {"kind", "certificates", "alpn", "fingerprint"}
<1> DEFINE b == FormToUpdate(v)
<1>0. /\ b.protocol = BuildProtocol(v) /\ b.transport = BuildTransport(v)
      /\ b.security = BuildSecurity(v) /\ b.finalmask = BuildFinalMask(v)
      /\ DOMAIN b = {"protocol", "transport", "security", "sniffing", "sockopt", "finalmask"}
  BY DEF FormToUpdate
<1> HIDE DEF b
<1>1. /\ b.protocol.kind \in Protocols /\ "kind" \in DOMAIN b.protocol
      /\ b.protocol.kind = "vless" => DOMAIN b.protocol = {"kind", "flow", "enc", "fallbacks"}
      /\ b.protocol.kind = "wireguard" => DOMAIN b.protocol = {"kind", "keys", "mtu"}
  BY <1>0 DEF BuildProtocol, Shaped, Protocols
<1>2. /\ b.transport.kind \in Networks \cup {"hysteria"} /\ "kind" \in DOMAIN b.transport
      /\ b.transport.kind = "xhttp" => DOMAIN b.transport = {"kind", "mode", "headers", "get", "quic"}
  BY <1>0 DEF BuildTransport, Shaped, Networks
<1>3. /\ b.security.kind \in Securities /\ "kind" \in DOMAIN b.security
      /\ b.security.kind = "reality" => DOMAIN b.security = {"kind", "keys"}
      /\ b.security.kind = "tls" => DOMAIN b.security = {"kind", "certificates", "alpn", "fingerprint"}
  BY <1>0 DEF BuildSecurity, Shaped, Securities
<1>4. b.finalmask.kind \in MaskKinds /\ "kind" \in DOMAIN b.finalmask
  BY <1>0 DEF BuildFinalMask, Shaped, MaskKinds
<1> QED
  BY <1>0, <1>1, <1>2, <1>3, <1>4 DEF RowShaped, b

\* Completing the keys of a body changes nothing the rules look at.
LEMMA KeysKeepRules ==
    ASSUME NEW v, Shaped(v), ValidateLayers(FormToUpdate(v)), NEW before,
           NEW c, c \in {CompleteServerManagedFields(FormToUpdate(v)),
                         SettleUpdatedKeys(FormToUpdate(v), before)}
    PROVE  RowShaped(c) /\ ValidateLayers(c)
<1> DEFINE b == FormToUpdate(v)
<1>0. ValidateXhttpMode(b.transport) /\ RowShaped(b)
  BY BuiltLayers DEF ValidateLayers
<1>1. /\ c.transport = b.transport /\ c.finalmask = b.finalmask
      /\ c.security.kind = b.security.kind
      /\ b.security.kind = "tls" => c.security = b.security
  <2> HIDE DEF b
  <2>1. CASE c = CompleteServerManagedFields(b)
    BY <2>1, BuiltLayers DEF CompleteServerManagedFields, b
  <2>2. CASE c = SettleUpdatedKeys(b, before)
    BY <2>2, BuiltLayers DEF SettleUpdatedKeys, b
  <2> QED
    BY <2>1, <2>2 DEF b
<1>2. /\ c.protocol.kind = b.protocol.kind
      /\ c.protocol.kind = "vless" => /\ c.protocol.flow = b.protocol.flow
                                      /\ c.protocol.fallbacks = b.protocol.fallbacks
                                      /\ b.protocol.enc = {} => c.protocol.enc = {}
  <2>1. CASE c = CompleteServerManagedFields(b)
    <3> HIDE DEF b
    <3>1. CASE b.protocol.kind = "vless"
      <4>1. "protocol" \in DOMAIN b /\ {"kind", "flow", "fallbacks", "enc"} \subseteq DOMAIN b.protocol
        BY <3>1, BuiltLayers DEF b
      <4>2. PICK X : c.protocol = [b.protocol EXCEPT !.enc = X] /\ (b.protocol.enc = {} => X = {})
        <5> DEFINE keyed == {IF e.keys = "blank" THEN [e EXCEPT !.keys = e.auth] ELSE e : e \in b.protocol.enc}
        <5>1. c.protocol = CompleteKeys(b.protocol)
          BY <2>1, <4>1 DEF CompleteServerManagedFields
        <5>2. c.protocol = [b.protocol EXCEPT !.enc = keyed]
          BY <3>1, <5>1 DEF CompleteKeys
        <5>3. b.protocol.enc = {} => keyed = {}
          OBVIOUS
        <5> QED
          BY <5>2, <5>3
      <4> QED
        BY <3>1, <4>1, <4>2
    <3>2. CASE b.protocol.kind # "vless"
      BY <2>1, <3>2, BuiltLayers DEF CompleteServerManagedFields, CompleteKeys, b
    <3> QED
      BY <3>1, <3>2
  <2>2. CASE c = SettleUpdatedKeys(b, before)
    <3>1. c.protocol = IF b.protocol.kind = "wireguard" THEN [b.protocol EXCEPT !.keys = "pair"]
                       ELSE b.protocol
      BY <2>2, BuiltLayers DEF SettleUpdatedKeys
    <3> QED
      BY <3>1, BuiltLayers
  <2> QED
    BY <2>1, <2>2
<1>3. OverHttp3(c.transport, c.security) => OverHttp3(b.transport, b.security)
  BY <1>1 DEF OverHttp3
<1>4. RowShaped(c)
  BY <1>0, <1>1, <1>2 DEF RowShaped
<1> QED
  BY <1>0, <1>1, <1>2, <1>3, <1>4, RulesReadLittle

LEMMA DefaultsShaped ==
    /\ Shaped(DEFAULTS) /\ LegalLayers(DEFAULTS) /\ LegalMask(DEFAULTS)
    /\ \A p \in Protocols, n \in Networks, s \in Securities, m \in MaskKinds :
          Shaped([DEFAULTS EXCEPT !.protocol_kind = p, !.network = n, !.security = s,
                                  !.finalmask_kind = m, !.tls_certificates = {"full"},
                                  !.reality_keys = "pair", !.wg_keys = "pair"])
BY DEF DEFAULTS, Shaped, Selectors, LegalLayers, LegalMask, AllowedSecurities, Protocols,
       Networks, Securities, MaskKinds

-----------------------------------------------------------------------------
(* Opening a row: hydration keeps what the rules look at, so a row that     *)
(* passed them becomes a form its guards leave alone.                       *)

LEMMA HydratedSelectors ==
    ASSUME NEW row, RowShaped(row)
    PROVE  LET w == InboundToForm(row)
           IN /\ Selectors \subseteq DOMAIN w
              /\ w.protocol_kind = row.protocol.kind
              /\ w.network = IF row.transport.kind = "hysteria" THEN "tcp" ELSE row.transport.kind
              /\ w.security = row.security.kind
              /\ w.vless_flow = IF row.protocol.kind = "vless" THEN row.protocol.flow ELSE "none"
              /\ w.finalmask_kind = row.finalmask.kind
<1> DEFINE p == HydrateProtocol(DEFAULTS, row.protocol)
           t == HydrateTransport(p, row.transport)
           s == HydrateSecurity(t, row.security)
           o == [s EXCEPT !.sniffing = row.sniffing, !.sockopt = row.sockopt]
           w == HydrateFinalMask(o, row.finalmask)
<1>0. /\ Selectors \subseteq DOMAIN DEFAULTS
      /\ DEFAULTS.network = "tcp" /\ DEFAULTS.vless_flow = "none"
      /\ DEFAULTS.finalmask_kind = "none"
  BY DEF DEFAULTS, Selectors
<1>1. /\ Selectors \subseteq DOMAIN p
      /\ p.protocol_kind = row.protocol.kind /\ p.finalmask_kind = "none"
      /\ p.vless_flow = IF row.protocol.kind = "vless" THEN row.protocol.flow ELSE "none"
  <2>1. CASE row.protocol.kind = "vless"
    BY <1>0, <2>1 DEF HydrateProtocol, Selectors
  <2>2. CASE row.protocol.kind = "hysteria2"
    BY <1>0, <2>2 DEF HydrateProtocol, Selectors
  <2>3. CASE row.protocol.kind = "wireguard"
    BY <1>0, <2>3 DEF HydrateProtocol, Selectors
  <2> QED
    BY <2>1, <2>2, <2>3 DEF RowShaped, Protocols
<1> HIDE DEF p
<1>2. /\ Selectors \subseteq DOMAIN t
      /\ t.network = IF row.transport.kind = "hysteria" THEN "tcp" ELSE row.transport.kind
      /\ t.protocol_kind = p.protocol_kind /\ t.finalmask_kind = p.finalmask_kind
      /\ t.vless_flow = p.vless_flow
  BY <1>1 DEF HydrateTransport, Selectors, RowShaped, Networks
<1> HIDE DEF t
<1>3. /\ Selectors \subseteq DOMAIN s
      /\ s.security = row.security.kind
      /\ s.network = t.network
      /\ s.protocol_kind = t.protocol_kind /\ s.finalmask_kind = t.finalmask_kind
      /\ s.vless_flow = t.vless_flow
  BY <1>2 DEF HydrateSecurity, Selectors, RowShaped, Securities
<1> HIDE DEF s
<1>4. /\ Selectors \subseteq DOMAIN o
      /\ o.security = s.security /\ o.network = s.network
      /\ o.protocol_kind = s.protocol_kind /\ o.finalmask_kind = s.finalmask_kind
      /\ o.vless_flow = s.vless_flow
  BY <1>3 DEF Selectors
<1> HIDE DEF o
<1>5. /\ Selectors \subseteq DOMAIN w
      /\ w.finalmask_kind = row.finalmask.kind
      /\ w.security = o.security /\ w.network = o.network
      /\ w.protocol_kind = o.protocol_kind /\ w.vless_flow = o.vless_flow
  BY <1>1, <1>2, <1>3, <1>4 DEF HydrateFinalMask, Selectors, RowShaped, MaskKinds
<1>6. InboundToForm(row) = w
  BY DEF InboundToForm, o, s, t, p
<1> HIDE DEF w
<1> QED
  BY <1>1, <1>2, <1>3, <1>4, <1>5, <1>6

LEMMA HydratedIsLegal ==
    ASSUME NEW row, RowShaped(row), ValidateLayers(row)
    PROVE  LET w == InboundToForm(row) IN Shaped(w) /\ LegalLayers(w) /\ LegalMask(w)
<1> DEFINE w == InboundToForm(row)
<1>1. Shaped(w)
  BY HydratedSelectors DEF Shaped, RowShaped, Networks
<1>2. LegalLayers(w)
  BY HydratedSelectors DEF LegalLayers, ValidateLayers, RowShaped, CompatTransports,
        CompatSecurities, AllowedSecurities, Protocols, Networks, Securities
<1>3. LegalMask(w)
  <2>1. row.protocol.kind # "wireguard" =>
            MaskTransport(w.protocol_kind, w.network) = row.transport.kind
    BY HydratedSelectors DEF MaskTransport, ValidateLayers, CompatTransports, RowShaped, Protocols
  <2>2. row.protocol.kind = "wireguard" => MaskTransport(w.protocol_kind, w.network) = "wireguard"
    BY HydratedSelectors DEF MaskTransport
  <2>3. w.finalmask_kind = row.finalmask.kind /\ w.security = row.security.kind
    BY HydratedSelectors
  <2>4. ValidateFinalMask(row)
    BY DEF ValidateLayers
  <2> HIDE DEF w
  <2> QED
    BY <2>1, <2>2, <2>3, <2>4 DEF LegalMask, ValidateFinalMask
<1> QED
  BY <1>1, <1>2, <1>3

-----------------------------------------------------------------------------
(* Settling a form the last settling left, but for one edit.                *)

\* Where the layers are legal a pass moves nothing but the mask.
LEMMA PassLegal ==
    ASSUME NEW v, NEW m, Shaped(v), LegalLayers(v)
    PROVE  LET n == UseProtocolGuards(v, m)
           IN /\ Shaped(n) /\ LegalLayers(n)
              /\ n.protocol_kind = v.protocol_kind /\ n.network = v.network
              /\ n.security = v.security
              /\ n.finalmask_kind = FinalMaskGuard(m, v.finalmask_kind,
                                        MaskTransport(v.protocol_kind, v.network), v.security)
<1> DEFINE n == UseProtocolGuards(v, m)
<1>1. /\ Shaped(n)
      /\ n.protocol_kind = v.protocol_kind /\ n.network = v.network /\ n.security = v.security
      /\ n.vless_flow = GuardFlow(v)
      /\ n.finalmask_kind = FinalMaskGuard(m, v.finalmask_kind,
                                MaskTransport(v.protocol_kind, v.network), v.security)
  BY GuardShape, GuardFields, NetworkGuard, SecurityGuard DEF LegalLayers
<1> HIDE DEF n
<1>2. LegalLayers(n)
  BY <1>1 DEF LegalLayers, GuardFlow
<1> QED
  BY <1>1, <1>2 DEF n

\* The selectors one edit changed, given the legal form it was made on: the
\* protocol, the network of a vless inbound, or none the layers depend on.
OneEdit(v, n, m) ==
    \/ LegalLayers(n)
    \/ n.network = v.network /\ n.security = v.security
    \/ n.protocol_kind = "vless" /\ v.protocol_kind = "vless"
          /\ n.security = v.security /\ n.finalmask_kind = v.finalmask_kind
          /\ (m = "known" => LegalMask(v))

\* After the first pass over such an edit the layers are legal, and a mask that
\* pass took could not run on them either.
LEMMA FirstPass ==
    ASSUME NEW v, NEW n, NEW m, Shaped(v), LegalLayers(v),
           Shaped(n), OneEdit(v, n, m)
    PROVE  LET once == UseProtocolGuards(n, m)
           IN /\ LegalLayers(once)
              /\ n.finalmask_kind # once.finalmask_kind =>
                    /\ m = "known"
                    /\ n.finalmask_kind \notin
                          SupportedKinds(MaskTransport(once.protocol_kind, once.network), once.security)
<1> DEFINE once == UseProtocolGuards(n, m)
<1>1. /\ Shaped(once)
      /\ once.protocol_kind = n.protocol_kind
      /\ once.vless_flow = GuardFlow(n)
      /\ once.network = GuardNetwork(n)
      /\ once.security = GuardSecurity(n)
      /\ once.finalmask_kind = FinalMaskGuard(m, n.finalmask_kind,
                                   MaskTransport(n.protocol_kind, n.network), n.security)
  BY GuardFields, GuardShape
<1> HIDE DEF once
<1>2. n.finalmask_kind # once.finalmask_kind =>
          /\ m = "known"
          /\ n.finalmask_kind \notin {"none"} \cup
                SupportedKinds(MaskTransport(n.protocol_kind, n.network), n.security)
  BY <1>1 DEF FinalMaskGuard, AllowedFinalMasks
<1>3. CASE LegalLayers(n)
  BY <1>3, <1>2, PassLegal DEF once
<1>4. CASE n.network = v.network /\ n.security = v.security
  <2>1. CASE n.protocol_kind = "vless"
    <3>1. once.network = n.network
      BY <1>1, <2>1, NetworkGuard
    <3>2. once.security = n.security /\ once.security \in Securities
      BY <1>1, <1>4, <2>1 DEF GuardSecurity, LegalLayers, AllowedSecurities, Shaped
    <3>3. LegalLayers(once)
      BY <1>1, <1>4, <2>1, <3>1, <3>2 DEF LegalLayers, GuardFlow, AllowedSecurities
    <3> QED
      BY <1>1, <1>2, <3>1, <3>2, <3>3 DEF once
  <2>2. CASE n.protocol_kind = "hysteria2"
    <3>1. once.security = "tls"
      BY <1>1, <1>4, <2>2 DEF GuardSecurity, LegalLayers, AllowedSecurities, DefaultSecurity, Shaped, Securities
    <3>2. LegalLayers(once)
      BY <1>1, <2>2, <3>1 DEF LegalLayers, GuardFlow, HasFlow, AllowedSecurities
    <3> QED
      BY <1>1, <1>2, <2>2, <3>2 DEF SupportedKinds, MaskTransport, once
  <2>3. CASE n.protocol_kind = "wireguard"
    <3>1. once.network = "tcp"
      BY <1>1, <2>3, NetworkGuard
    <3>2. once.security = "none"
      BY <1>1, <1>4, <2>3 DEF GuardSecurity, LegalLayers, AllowedSecurities, DefaultSecurity, Shaped, Securities
    <3>3. LegalLayers(once)
      BY <1>1, <2>3, <3>1, <3>2 DEF LegalLayers, GuardFlow, HasFlow, AllowedSecurities
    <3> QED
      BY <1>1, <1>2, <2>3, <3>3 DEF SupportedKinds, MaskTransport, once
  <2> QED
    BY <2>1, <2>2, <2>3 DEF Shaped, Protocols
<1>5. CASE n.protocol_kind = "vless" /\ v.protocol_kind = "vless"
             /\ n.security = v.security /\ n.finalmask_kind = v.finalmask_kind
             /\ (m = "known" => LegalMask(v))
  <2>1. once.network = n.network
    BY <1>1, <1>5, NetworkGuard
  <2>2. once.security \in Securities /\ ~(once.network = "ws" /\ once.security = "reality")
    BY <1>1, <1>5, <2>1, SecurityGuard DEF Shaped
  <2>3. LegalLayers(once)
    BY <1>1, <1>5, <2>1, <2>2 DEF LegalLayers, GuardFlow, AllowedSecurities
  <2>4. CASE n.network = "ws" /\ n.security = "reality"
    <3>1. m = "known" => n.finalmask_kind \in {"none", "sudoku", "fragment"}
      BY <1>5, <2>4 DEF LegalMask, SupportedKinds, MaskTransport, Shaped, Networks
    <3>2. n.finalmask_kind = once.finalmask_kind
      BY <1>2, <1>5, <2>4, <3>1 DEF SupportedKinds, MaskTransport
    <3> QED
      BY <2>3, <3>2 DEF once
  <2>5. CASE ~(n.network = "ws" /\ n.security = "reality")
    <3>1. once.security = n.security
      BY <1>1, <1>5, <2>5, SecurityGuard DEF Shaped, AllowedSecurities
    <3> QED
      BY <1>1, <1>2, <2>1, <2>3, <3>1 DEF once
  <2> QED
    BY <2>4, <2>5
<1> QED
  BY <1>3, <1>4, <1>5 DEF OneEdit

\* Settling a legal form, edited once, takes a mask only if the answered matrix
\* rules it out where the guards end up.
LEMMA MaskGoesForCause ==
    ASSUME NEW v, NEW n, NEW m, Shaped(v), LegalLayers(v),
           Shaped(n), OneEdit(v, n, m), n.finalmask_kind # Settle(n, m).finalmask_kind
    PROVE  LET w == Settle(n, m)
           IN /\ m = "known"
              /\ n.finalmask_kind \notin
                    SupportedKinds(MaskTransport(w.protocol_kind, w.network), w.security)
<1> DEFINE once  == UseProtocolGuards(n, m)
           twice == UseProtocolGuards(once, m)
           final == UseProtocolGuards(twice, m)
<1>1. Settle(n, m) = final
  BY DEF Settle
<1>2. Shaped(once) /\ LegalLayers(once)
  BY FirstPass, GuardShape
<1>3. n.finalmask_kind # once.finalmask_kind =>
          /\ m = "known"
          /\ n.finalmask_kind \notin
                SupportedKinds(MaskTransport(once.protocol_kind, once.network), once.security)
  BY FirstPass
<1> HIDE DEF once
<1>4. /\ Shaped(twice) /\ LegalLayers(twice)
      /\ twice.protocol_kind = once.protocol_kind /\ twice.network = once.network
      /\ twice.security = once.security
      /\ twice.finalmask_kind = FinalMaskGuard(m, once.finalmask_kind,
                                    MaskTransport(once.protocol_kind, once.network), once.security)
  BY <1>2, PassLegal
<1> HIDE DEF twice
<1>5. /\ final.protocol_kind = once.protocol_kind /\ final.network = once.network
      /\ final.security = once.security
      /\ final.finalmask_kind = FinalMaskGuard(m, twice.finalmask_kind,
                                    MaskTransport(once.protocol_kind, once.network), once.security)
  BY <1>4, PassLegal
<1> HIDE DEF final
<1>6. n.finalmask_kind # final.finalmask_kind
  BY <1>1
<1> QED
  BY <1>1, <1>3, <1>4, <1>5, <1>6 DEF FinalMaskGuard, AllowedFinalMasks

-----------------------------------------------------------------------------
(* The tabs: what one edit on each leaves of the selectors.                 *)

SameSelectors(v, n) ==
    /\ DOMAIN n = DOMAIN v
    /\ n.protocol_kind = v.protocol_kind /\ n.network = v.network
    /\ n.security = v.security /\ n.vless_flow = v.vless_flow
    /\ n.finalmask_kind = v.finalmask_kind

FieldEdits(v) ==
    VlessEncryptionSection(v) \cup FallbacksTab(v) \cup WireguardTab(v) \cup WebSocketTab(v)
    \cup XhttpTab(v) \cup HysteriaTab(v) \cup RealityTab(v) \cup TlsTab(v) \cup MaskFieldEdits(v)
    \cup SockoptTab(v) \cup SniffingPart(v)

LEMMA FieldEditsKeepSelectors ==
    ASSUME NEW v, Shaped(v), NEW n \in FieldEdits(v)
    PROVE  SameSelectors(v, n)
<1> USE DEF SameSelectors, Shaped, Selectors
<1>1. CASE n \in VlessEncryptionSection(v)
  BY <1>1 DEF VlessEncryptionSection
<1>2. CASE n \in FallbacksTab(v)
  BY <1>2 DEF FallbacksTab
<1>3. CASE n \in WireguardTab(v)
  BY <1>3 DEF WireguardTab
<1>4. CASE n \in RealityTab(v)
  BY <1>4 DEF RealityTab
<1>5. CASE n \in TlsTab(v)
  BY <1>5 DEF TlsTab, Toggled
<1>6. CASE n \in WebSocketTab(v)
  BY <1>6 DEF WebSocketTab, HeaderListField, Toggled
<1>7. CASE n \in XhttpTab(v)
  BY <1>7 DEF XhttpTab, HeaderListField, QuicTuning, Toggled
<1>8. CASE n \in HysteriaTab(v)
  BY <1>8 DEF HysteriaTab, QuicTuning, Toggled
<1>9. CASE n \in MaskFieldEdits(v)
  <2>1. CASE n \in SudokuEdits(v)
    BY <2>1 DEF SudokuEdits
  <2>2. CASE n \in FragmentEdits(v)
    BY <2>2 DEF FragmentEdits
  <2>3. CASE n \in NoiseEdits(v)
    BY <2>3 DEF NoiseEdits
  <2>4. CASE n \in XmcEdits(v)
    BY <2>4 DEF XmcEdits
  <2> QED
    BY <1>9, <2>1, <2>2, <2>3, <2>4 DEF MaskFieldEdits
<1>10. CASE n \in SockoptTab(v)
  BY <1>10 DEF SockoptTab, Toggled
<1>11. CASE n \in SniffingPart(v)
  BY <1>11 DEF SniffingPart, Toggled
<1> QED
  BY <1>1, <1>2, <1>3, <1>4, <1>5, <1>6, <1>7, <1>8, <1>9, <1>10, <1>11 DEF FieldEdits

LEMMA FieldEditIsOne ==
    ASSUME NEW v, NEW m, Shaped(v), LegalLayers(v), NEW n \in FieldEdits(v)
    PROVE  Shaped(n) /\ OneEdit(v, n, m) /\ n.finalmask_kind = v.finalmask_kind
BY FieldEditsKeepSelectors DEF SameSelectors, Shaped, LegalLayers, OneEdit

LEMMA GeneralEditIsOne ==
    ASSUME NEW v, NEW m, Shaped(v), LegalLayers(v), m = "known" => LegalMask(v),
           NEW n \in GeneralTab(v)
    PROVE  Shaped(n) /\ OneEdit(v, n, m) /\ n.finalmask_kind = v.finalmask_kind
<1>1. CASE \E p \in Protocols : n = [v EXCEPT !.protocol_kind = p]
  <2>1. /\ Shaped(n) /\ n.network = v.network /\ n.security = v.security
        /\ n.finalmask_kind = v.finalmask_kind
    BY <1>1 DEF Shaped, Selectors
  <2> QED
    BY <2>1 DEF OneEdit
<1>2. CASE \E t \in AllowedTransports(v.protocol_kind) :
              /\ Cardinality(AllowedTransports(v.protocol_kind)) > 1
              /\ n = [v EXCEPT !.network = t]
  <2>1. PICK t \in AllowedTransports(v.protocol_kind) :
              /\ Cardinality(AllowedTransports(v.protocol_kind)) > 1
              /\ n = [v EXCEPT !.network = t]
    BY <1>2
  <2>2. v.protocol_kind = "vless" /\ t \in Networks
    <3>1. v.protocol_kind = "vless" => t \in Networks
      BY DEF AllowedTransports
    <3>2. Cardinality({"hysteria"}) = 1 /\ Cardinality({"tcp"}) = 1
      BY FS_Singleton
    <3>3. v.protocol_kind # "vless" => AllowedTransports(v.protocol_kind) \in {{"hysteria"}, {"tcp"}}
      BY DEF AllowedTransports, Shaped, Protocols
    <3> QED
      BY <2>1, <3>1, <3>2, <3>3
  <2>3. /\ Shaped(n) /\ n.protocol_kind = "vless" /\ n.security = v.security
        /\ n.finalmask_kind = v.finalmask_kind
    BY <2>1, <2>2 DEF Shaped, Selectors
  <2> QED
    BY <2>2, <2>3 DEF OneEdit
<1>3. CASE \E s \in AllowedSecurities(v.protocol_kind)
                    \ (IF v.network = "ws" THEN {"reality"} ELSE {}) : n = [v EXCEPT !.security = s]
  <2>1. PICK s \in AllowedSecurities(v.protocol_kind)
                    \ (IF v.network = "ws" THEN {"reality"} ELSE {}) : n = [v EXCEPT !.security = s]
    BY <1>3
  <2>2. s \in Securities /\ ~(v.network = "ws" /\ s = "reality")
    BY <2>1 DEF AllowedSecurities, Shaped, Protocols, Securities
  <2>3. /\ Shaped(n) /\ n.security = s /\ n.protocol_kind = v.protocol_kind
        /\ n.network = v.network /\ n.vless_flow = v.vless_flow
        /\ n.finalmask_kind = v.finalmask_kind
    BY <2>1, <2>2 DEF Shaped, Selectors
  <2>4. LegalLayers(n)
    BY <2>1, <2>2, <2>3 DEF LegalLayers
  <2> QED
    BY <2>3, <2>4 DEF OneEdit
<1>4. CASE \E f : /\ HasFlow(v.protocol_kind)
                  /\ f \in {"none"} \cup Some(v.network = "tcp", "vision")
                  /\ n = [v EXCEPT !.vless_flow = f]
  <2>1. PICK f : /\ HasFlow(v.protocol_kind)
                 /\ f \in {"none"} \cup Some(v.network = "tcp", "vision")
                 /\ n = [v EXCEPT !.vless_flow = f]
    BY <1>4
  <2>2. f = "vision" => v.protocol_kind = "vless" /\ v.network = "tcp"
    BY <2>1 DEF HasFlow, Some
  <2>3. /\ Shaped(n) /\ n.security = v.security /\ n.protocol_kind = v.protocol_kind
        /\ n.network = v.network /\ n.vless_flow = f
        /\ n.finalmask_kind = v.finalmask_kind
    BY <2>1 DEF Shaped, Selectors
  <2>4. LegalLayers(n)
    BY <2>2, <2>3 DEF LegalLayers
  <2> QED
    BY <2>3, <2>4 DEF OneEdit
<1> QED
  BY <1>1, <1>2, <1>3, <1>4 DEF GeneralTab

LEMMA MaskKindEditIsOne ==
    ASSUME NEW v, NEW m, Shaped(v), LegalLayers(v), NEW n \in FinalMaskKind(v)
    PROVE  Shaped(n) /\ OneEdit(v, n, m)
<1>1. PICK k \in AllowedFinalMasks(matrix, MaskTransport(v.protocol_kind, v.network), v.security) :
          n = [v EXCEPT !.finalmask_kind = k]
  BY DEF FinalMaskKind, FinalMaskKindEdits
<1>2. k \in MaskKinds
  BY DEF AllowedFinalMasks, SupportedKinds, MaskKinds
<1>3. /\ Shaped(n) /\ n.security = v.security /\ n.protocol_kind = v.protocol_kind
      /\ n.network = v.network /\ n.vless_flow = v.vless_flow
  BY <1>1, <1>2 DEF Shaped, Selectors
<1> QED
  BY <1>3 DEF OneEdit, LegalLayers

-----------------------------------------------------------------------------
(* The invariant: rows passed the rules, and the form of an open session is *)
(* legal, its mask once the matrix answered.                                *)

IInv ==
    /\ \A row \in stored : RowShaped(row) /\ ValidateLayers(row)
    /\ Shaped(form)
    /\ stage \in {"opening", "open"} => LegalLayers(form)
    /\ (stage = "opening" \/ (stage = "open" /\ matrix = "known")) => LegalMask(form)

LEMMA ApiRowsPassed ==
    ASSUME NEW row \in ApiRows
    PROVE  RowShaped(row) /\ ValidateLayers(row)
<1>1. ASSUME NEW b \in WrittenRows
      PROVE  ValidateLayers(b) /\ \E v : Shaped(v) /\ b = FormToUpdate(v)
  <2>1. PICK p \in Protocols, n \in Networks, s \in Securities, m \in MaskKinds :
            b = Written(p, n, s, m) /\ ValidateLayers(b)
    BY DEF WrittenRows
  <2>2. \E v : Shaped(v) /\ b = FormToUpdate(v)
    BY <2>1, DefaultsShaped DEF Written
  <2> QED
    BY <2>1, <2>2
<1>2. row \in WrittenRows \/ \E b \in WrittenRows : row = WrittenOtherwise(b)
  BY DEF ApiRows
<1>3. CASE row \in WrittenRows
  BY <1>1, <1>3, BuiltLayers
<1>4. ASSUME NEW b \in WrittenRows, row = WrittenOtherwise(b)
      PROVE  RowShaped(row) /\ ValidateLayers(row)
  <2>1. /\ ValidateLayers(b) /\ RowShaped(b)
        /\ DOMAIN b = {"protocol", "transport", "security", "sniffing", "sockopt", "finalmask"}
        /\ "kind" \in DOMAIN b.protocol /\ "kind" \in DOMAIN b.transport
        /\ "kind" \in DOMAIN b.security /\ "kind" \in DOMAIN b.finalmask
        /\ b.transport.kind = "xhttp" =>
              DOMAIN b.transport = {"kind", "mode", "headers", "get", "quic"}
        /\ b.security.kind = "tls" => DOMAIN b.security = {"kind", "certificates", "alpn", "fingerprint"}
    BY <1>1, BuiltLayers
  <2>2. /\ row.transport = CASE b.transport.kind = "xhttp" ->
                                  [b.transport EXCEPT !.mode = "packet-up", !.get = TRUE]
                             [] b.transport.kind = "hysteria" ->
                                  [b.transport EXCEPT !.masquerade =
                                       [kind |-> "string", headers |-> {"named"}]]
                             [] OTHER -> b.transport
        /\ row.security = IF b.security.kind = "tls"
                          THEN [b.security EXCEPT !.alpn = {}, !.fingerprint = "blank"] ELSE b.security
        /\ row.protocol = IF b.protocol.kind = "wireguard" THEN [b.protocol EXCEPT !.mtu = 0] ELSE b.protocol
    BY <1>4, <2>1 DEF WrittenOtherwise
  <2>3. row.finalmask = CASE b.finalmask.kind = "sudoku" -> [b.finalmask EXCEPT !.custom_table = {"table"}]
                          [] b.finalmask.kind = "fragment" ->
                               [b.finalmask EXCEPT !.packets = <<Null, Null>>, !.max_split = 1]
                          [] b.finalmask.kind = "noise" -> [b.finalmask EXCEPT !.reset = 1]
                          [] OTHER -> b.finalmask
    BY <1>4, <2>1 DEF WrittenOtherwise
  <2>4. row.finalmask.kind = b.finalmask.kind
    BY <2>1, <2>3
  <2>5. /\ row.protocol.kind = b.protocol.kind
        /\ row.protocol.kind = "vless" => row.protocol = b.protocol
    BY <2>1, <2>2
  <2>6. row.transport.kind = b.transport.kind /\ ValidateXhttpMode(row.transport)
    <3>1. CASE b.transport.kind = "xhttp"
      <4> DEFINE t == b.transport
      <4>1. row.transport = [t EXCEPT !.mode = "packet-up", !.get = TRUE]
        BY <2>2, <3>1
      <4>2. {"kind", "mode", "get"} \subseteq DOMAIN t /\ t.kind = "xhttp"
        BY <2>1, <3>1
      <4> HIDE DEF t
      <4>3. row.transport.kind = "xhttp" /\ row.transport.mode = "packet-up"
        BY <4>1, <4>2
      <4> QED
        BY <3>1, <4>3 DEF ValidateXhttpMode
    <3>2. CASE b.transport.kind # "xhttp"
      BY <2>1, <2>2, <3>2 DEF ValidateXhttpMode
    <3> QED
      BY <3>1, <3>2
  <2>7. row.security.kind = b.security.kind /\ ~OverHttp3(row.transport, row.security)
    <3>1. CASE b.security.kind = "tls"
      <4>1. row.security.kind = "tls" /\ row.security.alpn = {}
        BY <2>1, <2>2, <3>1
      <4> QED
        BY <3>1, <4>1 DEF OverHttp3
    <3>2. CASE b.security.kind # "tls"
      BY <2>1, <2>2, <3>2 DEF OverHttp3
    <3> QED
      BY <3>1, <3>2
  <2>8. RowShaped(row)
    BY <2>1, <2>4, <2>5, <2>6, <2>7 DEF RowShaped
  <2>9. ValidateLayers(row)
    BY <2>1, <2>4, <2>5, <2>6, <2>7, RulesReadLittle
  <2> QED
    BY <2>8, <2>9
<1> QED
  BY <1>2, <1>3, <1>4

LEMMA InitIInv == Init => IInv
<1> SUFFICES ASSUME Init PROVE IInv
  OBVIOUS
<1>1. \A row \in stored : RowShaped(row) /\ ValidateLayers(row)
  BY ApiRowsPassed DEF Init
<1> QED
  BY <1>1, DefaultsShaped DEF Init, IInv

\* Every edit settles a form one edit away from the one before.
Edit ==
    \/ EditGeneral \/ EditEncryption \/ EditMaskKind
    \/ EditProtocol \/ EditTransport \/ EditSecurity \/ EditMask \/ EditSockopt \/ EditSniffing

LEMMA EditStep ==
    ASSUME IInv, Edit
    PROVE  \E n : /\ Shaped(n) /\ OneEdit(form, n, matrix)
                  /\ form' = Settle(n, matrix)
                  /\ ~EditMaskKind => n.finalmask_kind = form.finalmask_kind
                  /\ stage = "open"
                  /\ UNCHANGED <<stored, stage, matrix>>
<1>1. /\ Shaped(form)
      /\ stage = "open" => LegalLayers(form)
      /\ stage = "open" /\ matrix = "known" => LegalMask(form)
  BY DEF IInv
<1>2. CASE EditGeneral
  BY <1>1, <1>2, GeneralEditIsOne DEF EditGeneral, Type
<1>3. CASE EditMaskKind
  BY <1>1, <1>3, MaskKindEditIsOne DEF EditMaskKind, Type
<1>4. CASE \/ EditEncryption \/ EditProtocol \/ EditTransport \/ EditSecurity \/ EditMask
           \/ EditSockopt \/ EditSniffing
  <2>1. \E n \in FieldEdits(form) : /\ form' = Settle(n, matrix)
                                    /\ stage = "open" /\ UNCHANGED <<stored, stage, matrix>>
    BY <1>4 DEF EditEncryption, EditProtocol, EditTransport, EditSecurity, EditMask, EditSockopt,
                EditSniffing, Type, FieldEdits
  <2> QED
    BY <1>1, <2>1, FieldEditIsOne
<1> QED
  BY <1>2, <1>3, <1>4 DEF Edit

LEMMA StepIInv == IInv /\ [Next]_vars => IInv'
<1> SUFFICES ASSUME IInv, [Next]_vars PROVE IInv'
  OBVIOUS
<1> USE DEF IInv
<1>1. CASE OpenEdit
  <2>1. PICK row \in stored : form' = InboundToForm(row)
    BY <1>1 DEF OpenEdit
  <2> QED
    BY <1>1, <2>1, HydratedIsLegal DEF OpenEdit
<1>2. CASE OpenCreate
  BY <1>2, DefaultsShaped DEF OpenCreate
<1>3. CASE Register
  BY <1>3, SettleIsLegal DEF Register, Watched
<1>4. CASE Cancel
  BY <1>4, DefaultsShaped DEF Cancel
<1>5. CASE MatrixAnswers
  BY <1>5, SettleIsLegal DEF MatrixAnswers
<1>6. CASE MatrixFails
  BY <1>6 DEF MatrixFails
<1>7. CASE Edit
  BY <1>7, EditStep, SettleIsLegal
<1>8. CASE SaveAccepted
  <2>1. RowShaped(Body) /\ ValidateLayers(Body)
    BY <1>8, KeysKeepRules DEF SaveAccepted, Accepted, Body
  <2> QED
    BY <1>8, <2>1, DefaultsShaped DEF SaveAccepted
<1>9. CASE UNCHANGED vars \/ SaveRefused \/ Finished
  BY <1>9 DEF vars, SaveRefused, Finished
<1> QED
  BY <1>1, <1>2, <1>3, <1>4, <1>5, <1>6, <1>7, <1>8, <1>9 DEF Next, Edit

LEMMA SpecIInv == Spec => []IInv
BY InitIInv, StepIInv, PTL DEF Spec

-----------------------------------------------------------------------------
\* Whatever was switched and whenever the matrix answered, the form that is
\* open is one the backend's rules accept, but for the combinations no guard
\* looks at (form/registry.ts against validate_layers of api/inbounds.rs).
THEOREM SettledFormIsAccepted == Spec => []SettledFormAccepted
<1>1. IInv => SettledFormAccepted
  BY LegalIsAccepted DEF IInv, SettledFormAccepted
<1> QED
  BY <1>1, SpecIInv, PTL

\* No guard takes a mask the answered matrix does not rule out for the
\* transport and the security the form ends up with (useProtocolGuards).
THEOREM MaskGoesOnlyForCause == Spec => MaskLeavesForCause
<1> DEFINE A == (form.finalmask_kind # "none" /\ form'.finalmask_kind = "none"
                    /\ stage' = "open" /\ ~EditMaskKind)
                => /\ matrix' = "known"
                   /\ form.finalmask_kind \notin
                         SupportedKinds(MaskTransport(form'.protocol_kind, form'.network), form'.security)
<1>1. ASSUME IInv, [Next]_vars, form.finalmask_kind # "none", form'.finalmask_kind = "none",
             stage' = "open", ~EditMaskKind
      PROVE  /\ matrix' = "known"
             /\ form.finalmask_kind \notin
                   SupportedKinds(MaskTransport(form'.protocol_kind, form'.network), form'.security)
  <2> USE <1>1
  <2>1. CASE Register
    <3>1. /\ Shaped(form) /\ LegalLayers(form) /\ LegalMask(form)
          /\ form' = Settle(form, matrix) /\ matrix' = matrix
      BY <2>1 DEF Register, Watched, IInv
    <3> QED
      BY <3>1, MaskGoesForCause DEF OneEdit
  <2>2. CASE MatrixAnswers
    <3>1. /\ Shaped(form) /\ LegalLayers(form)
          /\ form' = Settle(form, "known") /\ matrix' = "known"
      BY <2>2 DEF MatrixAnswers, IInv
    <3> QED
      BY <3>1, MaskGoesForCause DEF OneEdit, IInv
  <2>3. CASE Edit
    <3>1. PICK n : /\ Shaped(n) /\ OneEdit(form, n, matrix)
                   /\ form' = Settle(n, matrix)
                   /\ n.finalmask_kind = form.finalmask_kind
                   /\ stage = "open"
                   /\ matrix' = matrix
      BY <2>3, EditStep
    <3> QED
      BY <3>1, MaskGoesForCause DEF IInv
  <2>4. CASE OpenEdit \/ OpenCreate \/ Cancel \/ SaveAccepted
    BY <2>4 DEF OpenEdit, OpenCreate, Cancel, SaveAccepted
  <2>5. CASE MatrixFails \/ SaveRefused \/ Finished \/ UNCHANGED vars
    BY <2>5 DEF MatrixFails, SaveRefused, Finished, vars
  <2> QED
    BY <2>1, <2>2, <2>3, <2>4, <2>5 DEF Next, Edit
<1>2. IInv /\ [Next]_vars => A
  BY <1>1
<1>3. Spec => [][A]_vars
  <2>1. IInv /\ [Next]_vars => [A]_vars
    BY <1>2
  <2> QED
    BY <2>1, SpecIInv, PTL DEF Spec
<1> QED
  BY <1>3 DEF MaskLeavesForCause
-----------------------------------------------------------------------------
(* The types, and what an edit leaves alone.                                *)

\* The layers a row is stored as.
QuicType ==
    {{}} \cup {{q} : q \in {x \in [tuned : BOOLEAN, udp_hop : {{}} \cup {{h} : h \in [interval : BOOLEAN]}] :
                               x.tuned \/ x.udp_hop # {}}}

ProtocolType ==
    [kind : {"hysteria2"}]
    \cup [kind : {"wireguard"}, keys : {"blank", "pair"}, mtu : {0, 1280, MtuDefault}]
    \cup [kind : {"vless"}, flow : {"none", "vision"},
          enc : {{}} \cup {{e} : e \in [auth : Auths, keys : {"blank"} \cup Auths]}, fallbacks : BOOLEAN]

MasqueradeType == [kind : {"notfound", "file", "string"}, headers : SUBSET {"named"}]

TransportType ==
    [kind : {"tcp"}]
    \cup [kind : {"ws"}, headers : SUBSET {"named"}]
    \cup [kind : {"xhttp"}, mode : {"auto", "packet-up"}, headers : SUBSET {"named"},
          get : BOOLEAN, quic : QuicType]
    \cup [kind : {"hysteria"}, masquerade : MasqueradeType, quic : QuicType]

TlsType ==
    [kind : {"tls"}, certificates : SUBSET {"full"},
     alpn : {{}} \cup {{a} : a \in (SUBSET {"h1", "h2", "h3"}) \ {{}}},
     fingerprint : {"blank", "chrome", "firefox"}]

SecurityType ==
    [kind : {"none"}] \cup [kind : {"reality"}, keys : {"blank", "pair"}] \cup TlsType

FragmentType == [kind : {"fragment"}, packets : PacketBounds \X PacketBounds, max_split : {Null, 1}]
NoiseType    == [kind : {"noise"}, items : (SUBSET {"blank", "literal", "random"}) \ {{}}, reset : {Null, 1}]

MaskType ==
    [kind : {"none", "salamander"}]
    \cup [kind : {"sudoku"}, custom_table : SUBSET {"table"}, custom_tables : SUBSET {"table"}]
    \cup FragmentType \cup NoiseType
    \cup [kind : {"xmc"}, profiles : SUBSET {"resolved", "renamed"}]

RowType ==
    [protocol : ProtocolType, transport : TransportType, security : SecurityType,
     sniffing : SUBSET {"entry"}, sockopt : SUBSET {"entry"}, finalmask : MaskType]

\* The last noise packet cannot be removed.
Filled(v) == v \in FormValues /\ v.noise_items # {}

LEMMA DefaultsFilled == Filled(DEFAULTS)
BY DEF DEFAULTS, Filled, FormValues, Protocols, Networks, Securities, Auths, MaskKinds,
       PacketBounds, NoiseItems, XmcProfiles, MtuDefault, Null

LEMMA FilledIsShaped == ASSUME NEW v, Filled(v) PROVE Shaped(v)
BY DEF Filled, FormValues, Shaped, Selectors

-----------------------------------------------------------------------------
(* Building gives typed layers.                                            *)

LEMMA QuicIsTyped == ASSUME NEW v PROVE BuildQuicParams(v) \in QuicType
<1> DEFINE tuned == "tuned" \in v.quic
           ports == "hop_ports" \in v.quic
           interval == "hop_interval" \in v.quic
           hop == Some(ports, [interval |-> interval])
<1>1. tuned \in BOOLEAN /\ ports \in BOOLEAN /\ interval \in BOOLEAN
  OBVIOUS
<1>2. BuildQuicParams(v) = Some(tuned \/ hop # {}, [tuned |-> tuned, udp_hop |-> hop])
  BY DEF BuildQuicParams
<1> HIDE DEF tuned, ports, interval
<1>3. hop \in {{}} \cup {{h} : h \in [interval : BOOLEAN]}
  BY <1>1 DEF Some
<1> HIDE DEF hop
<1> QED
  BY <1>1, <1>2, <1>3 DEF Some, QuicType

LEMMA BuiltIsTyped ==
    ASSUME NEW v, Filled(v)
    PROVE  FormToUpdate(v) \in RowType
<1> USE DEF Filled, FormValues
<1>1. BuildProtocol(v) \in ProtocolType
  <2>1. CASE v.protocol_kind = "hysteria2"
    BY <2>1 DEF BuildProtocol, ProtocolType
  <2>2. CASE v.protocol_kind = "wireguard"
    <3>1. OrZero(v.wg_mtu) \in {0, 1280, MtuDefault}
      BY DEF OrZero, Null, MtuDefault
    <3> QED
      BY <2>2, <3>1 DEF BuildProtocol, ProtocolType
  <2>3. CASE v.protocol_kind = "vless"
    <3> DEFINE e == [auth |-> v.encryption_auth, keys |-> v.encryption_keys]
               enc == Some(v.encryption_mode # "none", e)
    <3>1. enc \in {{}} \cup {{x} : x \in [auth : Auths, keys : {"blank"} \cup Auths]}
      BY DEF Some
    <3>2. BuildProtocol(v) = [kind |-> "vless", flow |-> v.vless_flow, enc |-> enc,
                              fallbacks |-> ~(v.encryption_mode # "none") /\ v.fallbacks]
      BY <2>3 DEF BuildProtocol
    <3> HIDE DEF enc
    <3> QED
      BY <3>1, <3>2 DEF ProtocolType
  <2> QED
    BY <2>1, <2>2, <2>3 DEF Protocols
<1>2. BuildTransport(v) \in TransportType
  <2>1. BuildQuicParams(v) \in QuicType /\ CollapseHeaders(v) \in SUBSET {"named"}
        /\ UplinkGet(v) \in BOOLEAN /\ BuildMasquerade(v) \in MasqueradeType
    BY QuicIsTyped DEF CollapseHeaders, UplinkGet, BuildMasquerade, MasqueradeType
  <2>2. CASE v.protocol_kind = "hysteria2"
    BY <2>1, <2>2 DEF BuildTransport, TransportType
  <2>3. CASE v.protocol_kind # "hysteria2" /\ v.network = "tcp"
    BY <2>3 DEF BuildTransport, TransportType
  <2>4. CASE v.protocol_kind # "hysteria2" /\ v.network = "ws"
    BY <2>1, <2>4 DEF BuildTransport, TransportType
  <2>5. CASE v.protocol_kind # "hysteria2" /\ v.network = "xhttp"
    BY <2>1, <2>5 DEF BuildTransport, TransportType
  <2> QED
    BY <2>2, <2>3, <2>4, <2>5 DEF Networks
<1>3. BuildSecurity(v) \in SecurityType
  <2>1. CASE v.security = "none"
    BY <2>1 DEF BuildSecurity, SecurityType
  <2>2. CASE v.security = "reality"
    BY <2>2 DEF BuildSecurity, SecurityType
  <2>3. CASE v.security = "tls"
    <3>1. Some(v.tls_alpn # {}, v.tls_alpn) \in {{}} \cup {{a} : a \in (SUBSET {"h1", "h2", "h3"}) \ {{}}}
      BY DEF Some
    <3> QED
      BY <2>3, <3>1 DEF BuildSecurity, SecurityType, TlsType
  <2> QED
    BY <2>1, <2>2, <2>3 DEF Securities
<1>4. BuildFinalMask(v) \in MaskType
  <2>1. CASE v.finalmask_kind \in {"none", "salamander"}
    BY <2>1 DEF BuildFinalMask, MaskType
  <2>2. CASE v.finalmask_kind = "sudoku"
    BY <2>2 DEF BuildFinalMask, MaskType
  <2>3. CASE v.finalmask_kind = "fragment"
    <3>1. BuildPackets(v) \in PacketBounds \X PacketBounds
      BY DEF BuildPackets, PacketBounds
    <3> QED
      BY <2>3, <3>1 DEF BuildFinalMask, MaskType, FragmentType
  <2>4. CASE v.finalmask_kind = "noise"
    <3> DEFINE items == {BuildNoiseItem(i) : i \in v.noise_items}
    <3>1. items \in (SUBSET {"blank", "literal", "random"}) \ {{}}
      BY DEF BuildNoiseItem, NoiseItems
    <3>2. BuildFinalMask(v) = [kind |-> "noise", items |-> items, reset |-> Null]
      BY <2>4 DEF BuildFinalMask
    <3> HIDE DEF items
    <3> QED
      BY <3>1, <3>2 DEF MaskType, NoiseType
  <2>5. CASE v.finalmask_kind = "xmc"
    BY <2>5 DEF BuildFinalMask, MaskType
  <2> QED
    BY <2>1, <2>2, <2>3, <2>4, <2>5 DEF MaskKinds
<1>5. BuildSniffing(v) \in SUBSET {"entry"} /\ BuildSockopt(v) \in SUBSET {"entry"}
  BY DEF BuildSniffing, BuildSockopt
<1> QED
  BY <1>1, <1>2, <1>3, <1>4, <1>5 DEF FormToUpdate, RowType
-----------------------------------------------------------------------------
(* The store, field by field.                                               *)

\* The fields each layer is built from; the transport also looks at the
\* protocol.
ProtocolFields  == {"protocol_kind", "vless_flow", "encryption_mode", "encryption_auth",
                    "encryption_keys", "fallbacks", "wg_keys", "wg_mtu"}
TransportFields == {"network", "xhttp_mode", "uplink_get", "headers", "quic", "masq_kind"}
SecurityFields  == {"security", "reality_keys", "tls_certificates", "tls_alpn", "tls_fingerprint"}
MaskFields      == {"finalmask_kind", "sudoku_tables", "packets_mode", "packets_from", "packets_to",
                    "noise_items", "xmc_profiles"}
ListFields      == {"sniffing", "sockopt"}
Fields == ProtocolFields \cup TransportFields \cup SecurityFields \cup MaskFields \cup ListFields

FieldType ==
    [protocol_kind |-> Protocols, network |-> Networks, security |-> Securities,
     vless_flow |-> {"none", "vision"}, encryption_mode |-> {"none", "mlkem768x25519plus"},
     encryption_auth |-> Auths, encryption_keys |-> {"blank"} \cup Auths,
     fallbacks |-> BOOLEAN, wg_keys |-> {"blank", "pair"},
     wg_mtu |-> {Null, 0, 1280, MtuDefault}, reality_keys |-> {"blank", "pair"},
     tls_certificates |-> SUBSET {"half", "full"}, tls_alpn |-> SUBSET {"h1", "h2", "h3"},
     tls_fingerprint |-> {"chrome", "firefox"},
     xhttp_mode |-> {"auto", "packet-up"}, uplink_get |-> BOOLEAN,
     headers |-> SUBSET {"blank", "named"},
     quic |-> SUBSET {"tuned", "hop_ports", "hop_interval"},
     masq_kind |-> {"notfound", "file", "string"}, sniffing |-> SUBSET {"blank", "entry"},
     sockopt |-> SUBSET {"blank", "entry"}, finalmask_kind |-> MaskKinds,
     sudoku_tables |-> SUBSET {"blank", "table"},
     packets_mode |-> {"tlshello", "all", "range"}, packets_from |-> PacketBounds,
     packets_to |-> PacketBounds, noise_items |-> SUBSET NoiseItems,
     xmc_profiles |-> SUBSET XmcProfiles]

LEMMA FieldTypes ==
    /\ FieldType.protocol_kind = Protocols
    /\ FieldType.network = Networks
    /\ FieldType.security = Securities
    /\ FieldType.vless_flow = {"none", "vision"}
    /\ FieldType.encryption_mode = {"none", "mlkem768x25519plus"}
    /\ FieldType.encryption_auth = Auths
    /\ FieldType.encryption_keys = {"blank"} \cup Auths
    /\ FieldType.fallbacks = BOOLEAN
    /\ FieldType.wg_keys = {"blank", "pair"}
    /\ FieldType.wg_mtu = {Null, 0, 1280, MtuDefault}
    /\ FieldType.reality_keys = {"blank", "pair"}
    /\ FieldType.tls_certificates = SUBSET {"half", "full"}
    /\ FieldType.tls_alpn = SUBSET {"h1", "h2", "h3"}
    /\ FieldType.tls_fingerprint = {"chrome", "firefox"}
    /\ FieldType.xhttp_mode = {"auto", "packet-up"}
    /\ FieldType.uplink_get = BOOLEAN
    /\ FieldType.headers = SUBSET {"blank", "named"}
    /\ FieldType.quic = SUBSET {"tuned", "hop_ports", "hop_interval"}
    /\ FieldType.masq_kind = {"notfound", "file", "string"}
    /\ FieldType.sniffing = SUBSET {"blank", "entry"}
    /\ FieldType.sockopt = SUBSET {"blank", "entry"}
    /\ FieldType.finalmask_kind = MaskKinds
    /\ FieldType.sudoku_tables = SUBSET {"blank", "table"}
    /\ FieldType.packets_mode = {"tlshello", "all", "range"}
    /\ FieldType.packets_from = PacketBounds
    /\ FieldType.packets_to = PacketBounds
    /\ FieldType.noise_items = SUBSET NoiseItems
    /\ FieldType.xmc_profiles = SUBSET XmcProfiles
BY DEF FieldType

LEMMA FormHas ==
    ASSUME NEW v \in FormValues
    PROVE  /\ DOMAIN v = Fields /\ v = [f \in Fields |-> v[f]]
           /\ \A f \in Fields : v[f] \in FieldType[f]
<1>1. DOMAIN v = Fields /\ v = [f \in Fields |-> v[f]]
  BY DEF FormValues, Fields, ProtocolFields, TransportFields, SecurityFields, MaskFields, ListFields
<1>2. \A f \in Fields : v[f] \in FieldType[f]
  BY DEF FormValues, Fields, ProtocolFields, TransportFields, SecurityFields, MaskFields, ListFields,
         FieldType
<1> QED
  BY <1>1, <1>2

LEMMA FormIs ==
    ASSUME NEW v, DOMAIN v = Fields, v = [f \in Fields |-> v[f]],
           \A f \in Fields : v[f] \in FieldType[f]
    PROVE  v \in FormValues
<1>1. /\ v.protocol_kind \in Protocols
      /\ v.vless_flow \in {"none", "vision"}
      /\ v.encryption_mode \in {"none", "mlkem768x25519plus"}
      /\ v.encryption_auth \in Auths
      /\ v.encryption_keys \in {"blank"} \cup Auths
      /\ v.fallbacks \in BOOLEAN
      /\ v.wg_keys \in {"blank", "pair"}
      /\ v.wg_mtu \in {Null, 0, 1280, MtuDefault}
  <2>1. \A f \in ProtocolFields : v[f] \in FieldType[f]
    BY DEF Fields
  <2> QED
    BY <2>1 DEF ProtocolFields, FieldType
<1>2. /\ v.network \in Networks
      /\ v.xhttp_mode \in {"auto", "packet-up"}
      /\ v.uplink_get \in BOOLEAN
      /\ v.headers \in SUBSET {"blank", "named"}
      /\ v.quic \in SUBSET {"tuned", "hop_ports", "hop_interval"}
      /\ v.masq_kind \in {"notfound", "file", "string"}
  <2>1. \A f \in TransportFields : v[f] \in FieldType[f]
    BY DEF Fields
  <2> QED
    BY <2>1 DEF TransportFields, FieldType
<1>3. /\ v.security \in Securities
      /\ v.reality_keys \in {"blank", "pair"}
      /\ v.tls_certificates \in SUBSET {"half", "full"}
      /\ v.tls_alpn \in SUBSET {"h1", "h2", "h3"}
      /\ v.tls_fingerprint \in {"chrome", "firefox"}
  <2>1. \A f \in SecurityFields : v[f] \in FieldType[f]
    BY DEF Fields
  <2> QED
    BY <2>1 DEF SecurityFields, FieldType
<1>4. /\ v.finalmask_kind \in MaskKinds
      /\ v.sudoku_tables \in SUBSET {"blank", "table"}
      /\ v.packets_mode \in {"tlshello", "all", "range"}
      /\ v.packets_from \in PacketBounds
      /\ v.packets_to \in PacketBounds
      /\ v.noise_items \in SUBSET NoiseItems
      /\ v.xmc_profiles \in SUBSET XmcProfiles
  <2>1. \A f \in MaskFields : v[f] \in FieldType[f]
    BY DEF Fields
  <2> QED
    BY <2>1 DEF MaskFields, FieldType
<1>5. /\ v.sniffing \in SUBSET {"blank", "entry"}
      /\ v.sockopt \in SUBSET {"blank", "entry"}
  <2>1. \A f \in ListFields : v[f] \in FieldType[f]
    BY DEF Fields
  <2> QED
    BY <2>1 DEF ListFields, FieldType
<1>6. v = [protocol_kind |-> v.protocol_kind, network |-> v.network,
           security |-> v.security, vless_flow |-> v.vless_flow,
           encryption_mode |-> v.encryption_mode, encryption_auth |-> v.encryption_auth,
           encryption_keys |-> v.encryption_keys, fallbacks |-> v.fallbacks,
           wg_keys |-> v.wg_keys, wg_mtu |-> v.wg_mtu, reality_keys |-> v.reality_keys,
           tls_certificates |-> v.tls_certificates, tls_alpn |-> v.tls_alpn,
           tls_fingerprint |-> v.tls_fingerprint,
           xhttp_mode |-> v.xhttp_mode, uplink_get |-> v.uplink_get, headers |-> v.headers,
           quic |-> v.quic, masq_kind |-> v.masq_kind, sniffing |-> v.sniffing,
           sockopt |-> v.sockopt, finalmask_kind |-> v.finalmask_kind,
           sudoku_tables |-> v.sudoku_tables, packets_mode |-> v.packets_mode,
           packets_from |-> v.packets_from, packets_to |-> v.packets_to,
           noise_items |-> v.noise_items, xmc_profiles |-> v.xmc_profiles]
  BY DEF Fields, ProtocolFields, TransportFields, SecurityFields, MaskFields, ListFields
<1> QED
  BY <1>1, <1>2, <1>3, <1>4, <1>5, <1>6 DEF FormValues

\* w is the store v but for the fields of F.
Changed(w, v, F) ==
    /\ DOMAIN w = Fields /\ w = [f \in Fields |-> w[f]]
    /\ \A f \in Fields : f \notin F => w[f] = v[f]

LEMMA ChangedIsFilled ==
    ASSUME NEW v, Filled(v), NEW w, NEW F, Changed(w, v, F),
           \A f \in F : w[f] \in FieldType[f],
           "noise_items" \in F => w.noise_items # {}
    PROVE  Filled(w)
<1>1. \A f \in Fields : v[f] \in FieldType[f]
  BY FormHas DEF Filled
<1>2. \A f \in Fields : w[f] \in FieldType[f]
  BY <1>1 DEF Changed
<1>3. w \in FormValues
  BY <1>2, FormIs DEF Changed
<1>4. "noise_items" \in Fields
  BY DEF Fields, MaskFields
<1> QED
  BY <1>3, <1>4 DEF Changed, Filled

LEMMA ChangedMore ==
    ASSUME NEW v, NEW w, NEW F, NEW G, Changed(w, v, F), F \subseteq G
    PROVE  Changed(w, v, G)
BY DEF Changed

LEMMA ChangedTwice ==
    ASSUME NEW u, NEW v, NEW w, NEW F, NEW G, Changed(v, u, F), Changed(w, v, G)
    PROVE  Changed(w, u, F \cup G)
BY DEF Changed

LEMMA OneField ==
    ASSUME NEW v, Filled(v), NEW f \in Fields, NEW x \in FieldType[f],
           f = "noise_items" => x # {}
    PROVE  LET w == [v EXCEPT ![f] = x] IN Filled(w) /\ Changed(w, v, {f}) /\ w[f] = x
<1> DEFINE w == [v EXCEPT ![f] = x]
<1>1. DOMAIN v = Fields
  BY FormHas DEF Filled
<1>2. Changed(w, v, {f}) /\ w[f] = x
  BY <1>1 DEF Changed
<1> HIDE DEF w
<1>3. Filled(w)
  BY <1>2, ChangedIsFilled
<1> QED
  BY <1>2, <1>3 DEF w

-----------------------------------------------------------------------------
(* Hydrating a layer and building it back.                                  *)

LEMMA BuildReads ==
    ASSUME NEW v, NEW w, NEW F, Changed(v, w, F)
    PROVE  /\ F \cap ProtocolFields = {} => BuildProtocol(v) = BuildProtocol(w)
           /\ F \cap (TransportFields \cup {"protocol_kind"}) = {} => BuildTransport(v) = BuildTransport(w)
           /\ F \cap SecurityFields = {} => BuildSecurity(v) = BuildSecurity(w)
           /\ F \cap MaskFields = {} => BuildFinalMask(v) = BuildFinalMask(w)
           /\ "sniffing" \notin F => BuildSniffing(v) = BuildSniffing(w)
           /\ "sockopt" \notin F => BuildSockopt(v) = BuildSockopt(w)
<1>0. \A f \in Fields : f \notin F => v[f] = w[f]
  BY DEF Changed
<1>1. ASSUME F \cap ProtocolFields = {} PROVE BuildProtocol(v) = BuildProtocol(w)
  <2>1. \A f \in ProtocolFields : v[f] = w[f]
    BY <1>0, <1>1 DEF Fields
  <2> QED
    BY <2>1 DEF ProtocolFields, BuildProtocol
<1>2. ASSUME F \cap (TransportFields \cup {"protocol_kind"}) = {} PROVE BuildTransport(v) = BuildTransport(w)
  <2>0. (\A f \in TransportFields : v[f] = w[f]) /\ v.protocol_kind = w.protocol_kind
    BY <1>0, <1>2 DEF Fields, ProtocolFields
  <2>1. /\ v.protocol_kind = w.protocol_kind /\ v.network = w.network
        /\ v.xhttp_mode = w.xhttp_mode /\ v.uplink_get = w.uplink_get
        /\ v.headers = w.headers /\ v.quic = w.quic /\ v.masq_kind = w.masq_kind
    BY <2>0 DEF TransportFields
  <2>2. BuildQuicParams(v) = BuildQuicParams(w)
    BY <2>1 DEF BuildQuicParams
  <2>3. /\ CollapseHeaders(v) = CollapseHeaders(w) /\ UplinkGet(v) = UplinkGet(w)
        /\ BuildMasquerade(v) = BuildMasquerade(w)
    BY <2>1 DEF CollapseHeaders, UplinkGet, BuildMasquerade
  <2> QED
    BY <2>1, <2>2, <2>3 DEF BuildTransport
<1>3. ASSUME F \cap SecurityFields = {} PROVE BuildSecurity(v) = BuildSecurity(w)
  <2>1. \A f \in SecurityFields : v[f] = w[f]
    BY <1>0, <1>3 DEF Fields
  <2> QED
    BY <2>1 DEF SecurityFields, BuildSecurity
<1>4. ASSUME F \cap MaskFields = {} PROVE BuildFinalMask(v) = BuildFinalMask(w)
  <2>0. \A f \in MaskFields : v[f] = w[f]
    BY <1>0, <1>4 DEF Fields
  <2>1. /\ v.finalmask_kind = w.finalmask_kind /\ v.sudoku_tables = w.sudoku_tables
        /\ v.packets_mode = w.packets_mode /\ v.packets_from = w.packets_from
        /\ v.packets_to = w.packets_to /\ v.noise_items = w.noise_items
        /\ v.xmc_profiles = w.xmc_profiles
    BY <2>0 DEF MaskFields
  <2>2. BuildPackets(v) = BuildPackets(w)
    BY <2>1 DEF BuildPackets
  <2> QED
    BY <2>1, <2>2 DEF BuildFinalMask
<1>5. /\ "sniffing" \notin F => BuildSniffing(v) = BuildSniffing(w)
      /\ "sockopt" \notin F => BuildSockopt(v) = BuildSockopt(w)
  BY <1>0 DEF Fields, ListFields, BuildSniffing, BuildSockopt
<1> QED
  BY <1>1, <1>2, <1>3, <1>4, <1>5

LEMMA ProtocolSurvives ==
    ASSUME NEW v, Filled(v), NEW x \in ProtocolType,
           (x.kind = "vless" /\ x.fallbacks) => x.enc = {}
    PROVE  LET w == HydrateProtocol(v, x)
           IN /\ Filled(w) /\ w.protocol_kind = x.kind
              /\ Changed(w, v, ProtocolFields)
              /\ Effective("protocol", BuildProtocol(w)) = Effective("protocol", x)
<1> DEFINE w == HydrateProtocol(v, x)
<1>0. DOMAIN v = Fields
  BY FormHas DEF Filled
<1>1. CASE x.kind = "hysteria2"
  <2>1. x = [kind |-> "hysteria2"]
    BY <1>1 DEF ProtocolType
  <2> DEFINE F == {"protocol_kind"}
  <2>2. w = [v EXCEPT !.protocol_kind = "hysteria2"]
    BY <1>1 DEF HydrateProtocol
  <2> HIDE DEF w
  <2>3. F \subseteq ProtocolFields /\ F \subseteq Fields
    BY DEF ProtocolFields, Fields
  <2>4. Changed(w, v, F) /\ w.protocol_kind = "hysteria2"
    BY <1>0, <2>2, <2>3 DEF Changed
  <2>5. \A f \in F : w[f] \in FieldType[f]
    BY <2>4, FieldTypes DEF Protocols
  <2>6. Filled(w) /\ Changed(w, v, ProtocolFields)
    BY <2>3, <2>4, <2>5, ChangedIsFilled, ChangedMore
  <2>7. BuildProtocol(w) = x
    BY <2>1, <2>4 DEF BuildProtocol
  <2> QED
    BY <1>1, <2>4, <2>6, <2>7 DEF w
<1>2. CASE x.kind = "wireguard"
  <2>1. x \in [kind : {"wireguard"}, keys : {"blank", "pair"}, mtu : {0, 1280, MtuDefault}]
    BY <1>2 DEF ProtocolType
  <2> DEFINE m == IF x.mtu = 0 THEN MtuDefault ELSE x.mtu
             F == {"protocol_kind", "wg_keys", "wg_mtu"}
  <2>2. w = [v EXCEPT !.protocol_kind = "wireguard", !.wg_keys = x.keys, !.wg_mtu = m]
    BY <1>2 DEF HydrateProtocol
  <2>3. F \subseteq ProtocolFields /\ F \subseteq Fields
    BY DEF ProtocolFields, Fields
  <2>4. m \in {1280, MtuDefault} /\ OrZero(m) = m /\ m # 0
    BY <2>1 DEF OrZero, Null, MtuDefault
  <2> HIDE DEF m, w
  <2>5. Changed(w, v, F)
    BY <1>0, <2>2, <2>3 DEF Changed
  <2>6. w.protocol_kind = "wireguard" /\ w.wg_keys = x.keys /\ w.wg_mtu = m
    BY <1>0, <2>2, <2>3
  <2>7. \A f \in F : w[f] \in FieldType[f]
    BY <2>1, <2>4, <2>6, FieldTypes DEF Protocols
  <2>8. Filled(w) /\ Changed(w, v, ProtocolFields)
    BY <2>3, <2>5, <2>7, ChangedIsFilled, ChangedMore
  <2>9. BuildProtocol(w) = [kind |-> "wireguard", keys |-> x.keys, mtu |-> m]
    BY <2>4, <2>6 DEF BuildProtocol
  <2>10. [x EXCEPT !.mtu = IF @ = 0 THEN MtuDefault ELSE @] = [kind |-> "wireguard", keys |-> x.keys, mtu |-> m]
    BY <2>1 DEF m
  <2>11. Effective("protocol", x) = [x EXCEPT !.mtu = IF @ = 0 THEN MtuDefault ELSE @]
    BY <1>2 DEF Effective
  <2>12. Effective("protocol", [kind |-> "wireguard", keys |-> x.keys, mtu |-> m])
            = [kind |-> "wireguard", keys |-> x.keys, mtu |-> m]
    BY <2>4 DEF Effective
  <2> QED
    BY <1>2, <2>6, <2>8, <2>9, <2>10, <2>11, <2>12 DEF w
<1>3. CASE x.kind = "vless"
  <2>1. x \in [kind : {"vless"}, flow : {"none", "vision"},
               enc : {{}} \cup {{e} : e \in [auth : Auths, keys : {"blank"} \cup Auths]},
               fallbacks : BOOLEAN]
    BY <1>3 DEF ProtocolType
  <2> DEFINE blank == [auth |-> "mlkem768", keys |-> "blank"]
             enc == CHOOSE e \in x.enc \cup {blank} : x.enc # {} => e \in x.enc
             mode == IF x.enc = {} THEN "none" ELSE "mlkem768x25519plus"
             F == {"protocol_kind", "vless_flow", "encryption_mode", "encryption_auth",
                   "encryption_keys", "fallbacks"}
  <2>2. /\ x.enc = {} => enc = blank
        /\ x.enc # {} => x.enc = {enc}
        /\ enc \in [auth : Auths, keys : {"blank"} \cup Auths]
    BY <2>1 DEF Auths
  <2>3. w = [v EXCEPT !.protocol_kind = "vless", !.vless_flow = x.flow, !.encryption_mode = mode,
                      !.encryption_auth = enc.auth, !.encryption_keys = enc.keys,
                      !.fallbacks = x.fallbacks]
    BY <1>3 DEF HydrateProtocol
  <2>4. mode \in {"none", "mlkem768x25519plus"} /\ (mode # "none" <=> x.enc # {})
    OBVIOUS
  <2>5. F \subseteq ProtocolFields /\ F \subseteq Fields
    BY DEF ProtocolFields, Fields
  <2> HIDE DEF enc, mode, w
  <2>6. Changed(w, v, F)
    BY <1>0, <2>3, <2>5 DEF Changed
  <2>7. /\ w.protocol_kind = "vless" /\ w.vless_flow = x.flow /\ w.encryption_mode = mode
        /\ w.encryption_auth = enc.auth /\ w.encryption_keys = enc.keys /\ w.fallbacks = x.fallbacks
    BY <1>0, <2>3, <2>5
  <2>8. \A f \in F : w[f] \in FieldType[f]
    BY <2>1, <2>2, <2>4, <2>7, FieldTypes DEF Protocols
  <2>9. Filled(w) /\ Changed(w, v, ProtocolFields)
    BY <2>5, <2>6, <2>8, ChangedIsFilled, ChangedMore
  <2>10. Some(mode # "none", [auth |-> enc.auth, keys |-> enc.keys]) = x.enc
    BY <2>1, <2>2, <2>4 DEF Some
  <2>11. (~(mode # "none") /\ x.fallbacks) = x.fallbacks
    BY <1>3, <2>1, <2>4
  <2>12. BuildProtocol(w) = [kind |-> "vless", flow |-> x.flow, enc |-> x.enc, fallbacks |-> x.fallbacks]
    BY <2>7, <2>10, <2>11 DEF BuildProtocol
  <2>13. BuildProtocol(w) = x
    BY <2>1, <2>12
  <2> QED
    BY <1>3, <2>7, <2>9, <2>13 DEF w
<1> QED
  BY <1>1, <1>2, <1>3 DEF ProtocolType
LEMMA QuicSurvives ==
    ASSUME NEW q \in QuicType, NEW v, v.quic = HydrateQuicParams(q)
    PROVE  BuildQuicParams(v) = q
<1>1. CASE q = {}
  <2>1. v.quic = {}
    BY <1>1 DEF HydrateQuicParams
  <2> QED
    BY <1>1, <2>1 DEF BuildQuicParams, Some
<1>2. CASE q # {}
  <2>1. PICK x \in [tuned : BOOLEAN, udp_hop : {{}} \cup {{h} : h \in [interval : BOOLEAN]}] :
            q = {x} /\ (x.tuned \/ x.udp_hop # {})
    BY <1>2 DEF QuicType
  <2>2. /\ "tuned" \in v.quic <=> x.tuned
        /\ "hop_ports" \in v.quic <=> x.udp_hop # {}
        /\ "hop_interval" \in v.quic <=> \E h \in x.udp_hop : h.interval
    BY <2>1 DEF HydrateQuicParams
  <2> DEFINE tuned == "tuned" \in v.quic
             interval == "hop_interval" \in v.quic
             hop == Some("hop_ports" \in v.quic, [interval |-> interval])
  <2>3. hop = x.udp_hop
    <3>1. CASE x.udp_hop = {}
      BY <2>2, <3>1 DEF Some
    <3>2. CASE x.udp_hop # {}
      <4>1. PICK h \in [interval : BOOLEAN] : x.udp_hop = {h}
        BY <2>1, <3>2
      <4>2. interval <=> h.interval
        BY <2>2, <4>1
      <4>3. interval \in BOOLEAN
        OBVIOUS
      <4> HIDE DEF interval
      <4>4. [interval |-> interval] = h
        BY <4>1, <4>2, <4>3
      <4>5. hop = {[interval |-> interval]}
        BY <2>2, <3>2 DEF Some
      <4> QED
        BY <4>1, <4>4, <4>5
    <3> QED
      BY <3>1, <3>2
  <2>4. BuildQuicParams(v) = Some(tuned \/ hop # {}, [tuned |-> tuned, udp_hop |-> hop])
    BY DEF BuildQuicParams
  <2>5. (tuned <=> x.tuned) /\ tuned \in BOOLEAN
    BY <2>2
  <2> HIDE DEF tuned, hop
  <2>6. [tuned |-> tuned, udp_hop |-> hop] = x
    BY <2>1, <2>3, <2>5
  <2>7. tuned \/ hop # {}
    BY <2>1, <2>3, <2>5
  <2> QED
    BY <2>1, <2>4, <2>6, <2>7 DEF Some
<1> QED
  BY <1>1, <1>2

LEMMA TransportSurvives ==
    ASSUME NEW v, Filled(v), NEW x \in TransportType, ValidateXhttpMode(x),
           v.protocol_kind = "hysteria2" <=> x.kind = "hysteria"
    PROVE  LET w == HydrateTransport(v, x)
           IN /\ Filled(w)
              /\ Changed(w, v, TransportFields)
              /\ BuildTransport(w) = Shown("transport", x)
<1> DEFINE w == HydrateTransport(v, x)
           q == HydrateQuicParams(x.quic)
<1>0. DOMAIN v = Fields
  BY FormHas DEF Filled
<1>q. q \in SUBSET {"tuned", "hop_ports", "hop_interval"}
  BY DEF HydrateQuicParams
<1>p. "protocol_kind" \in Fields \ TransportFields
  BY DEF Fields, ProtocolFields, TransportFields
<1>s. x.kind # "hysteria" => Shown("transport", x) = x
  BY DEF Shown
<1>1. CASE x.kind = "tcp"
  <2>1. x = [kind |-> "tcp"]
    BY <1>1 DEF TransportType
  <2> DEFINE F == {"network"}
  <2>2. w = [v EXCEPT !.network = "tcp"]
    BY <1>1 DEF HydrateTransport
  <2>3. F \subseteq TransportFields /\ F \subseteq Fields
    BY DEF TransportFields, Fields
  <2> HIDE DEF w
  <2>4. Changed(w, v, F)
    BY <1>0, <2>2, <2>3 DEF Changed
  <2>5. w.network = "tcp"
    BY <1>0, <2>2, <2>3
  <2>6. \A f \in F : w[f] \in FieldType[f]
    BY <2>5, FieldTypes DEF Networks
  <2>7. Filled(w) /\ Changed(w, v, TransportFields)
    BY <2>3, <2>4, <2>6, ChangedIsFilled, ChangedMore
  <2>8. w.protocol_kind = v.protocol_kind
    BY <1>p, <2>7 DEF Changed
  <2>9. BuildTransport(w) = x
    BY <1>1, <2>1, <2>5, <2>8 DEF BuildTransport
  <2> QED
    BY <1>1, <1>s, <2>7, <2>9 DEF w
<1>2. CASE x.kind = "ws"
  <2>1. x \in [kind : {"ws"}, headers : SUBSET {"named"}]
    BY <1>2 DEF TransportType
  <2> DEFINE F == {"network", "headers"}
  <2>2. w = [v EXCEPT !.network = "ws", !.headers = x.headers]
    BY <1>2 DEF HydrateTransport
  <2>3. F \subseteq TransportFields /\ F \subseteq Fields
    BY DEF TransportFields, Fields
  <2> HIDE DEF w
  <2>4. Changed(w, v, F)
    BY <1>0, <2>2, <2>3 DEF Changed
  <2>5. w.network = "ws" /\ w.headers = x.headers
    BY <1>0, <2>2, <2>3
  <2>6. \A f \in F : w[f] \in FieldType[f]
    BY <2>1, <2>5, FieldTypes DEF Networks
  <2>7. Filled(w) /\ Changed(w, v, TransportFields)
    BY <2>3, <2>4, <2>6, ChangedIsFilled, ChangedMore
  <2>8. w.protocol_kind = v.protocol_kind
    BY <1>p, <2>7 DEF Changed
  <2>9. CollapseHeaders(w) = x.headers
    BY <2>1, <2>5 DEF CollapseHeaders
  <2>10. BuildTransport(w) = [kind |-> "ws", headers |-> x.headers]
    BY <1>2, <2>5, <2>8, <2>9 DEF BuildTransport
  <2>11. BuildTransport(w) = x
    BY <2>1, <2>10
  <2> QED
    BY <1>2, <1>s, <2>7, <2>11 DEF w
<1>3. CASE x.kind = "xhttp"
  <2>1. x \in [kind : {"xhttp"}, mode : {"auto", "packet-up"}, headers : SUBSET {"named"},
               get : BOOLEAN, quic : QuicType]
    BY <1>3 DEF TransportType
  <2> DEFINE F == {"network", "xhttp_mode", "headers", "uplink_get", "quic"}
  <2>2. w = [v EXCEPT !.network = "xhttp", !.xhttp_mode = x.mode, !.headers = x.headers,
                      !.uplink_get = x.get, !.quic = q]
    BY <1>3 DEF HydrateTransport
  <2>3. F \subseteq TransportFields /\ F \subseteq Fields
    BY DEF TransportFields, Fields
  <2> HIDE DEF w, q
  <2>4. Changed(w, v, F)
    BY <1>0, <2>2, <2>3 DEF Changed
  <2>5. /\ w.network = "xhttp" /\ w.headers = x.headers /\ w.xhttp_mode = x.mode
        /\ w.uplink_get = x.get /\ w.quic = q
    BY <1>0, <2>2, <2>3
  <2>6. \A f \in F : w[f] \in FieldType[f]
    <3>1. w.network \in FieldType.network
      BY <2>5, FieldTypes DEF Networks
    <3>2. w.quic \in FieldType.quic
      BY <1>q, <2>5, FieldTypes
    <3>3. w.headers \in FieldType.headers
      BY <2>1, <2>5, FieldTypes
    <3>4. w.xhttp_mode \in FieldType.xhttp_mode /\ w.uplink_get \in FieldType.uplink_get
      BY <2>1, <2>5, FieldTypes
    <3> QED
      BY <3>1, <3>2, <3>3, <3>4
  <2>7. Filled(w) /\ Changed(w, v, TransportFields)
    BY <2>3, <2>4, <2>6, ChangedIsFilled, ChangedMore
  <2>8. w.protocol_kind = v.protocol_kind
    BY <1>p, <2>7 DEF Changed
  <2>9. CollapseHeaders(w) = x.headers
    BY <2>1, <2>5 DEF CollapseHeaders
  <2>10. UplinkGet(w) = x.get
    BY <1>3, <2>1, <2>5 DEF UplinkGet, ValidateXhttpMode
  <2>11. BuildQuicParams(w) = x.quic
    BY <2>1, <2>5, QuicSurvives DEF q
  <2>12. BuildTransport(w) = [kind |-> "xhttp", mode |-> x.mode, headers |-> x.headers, get |-> x.get,
                              quic |-> x.quic]
    BY <1>3, <2>5, <2>8, <2>9, <2>10, <2>11 DEF BuildTransport
  <2>13. BuildTransport(w) = x
    BY <2>1, <2>12
  <2> QED
    BY <1>3, <1>s, <2>7, <2>13 DEF w
<1>4. CASE x.kind = "hysteria"
  <2>1. x \in [kind : {"hysteria"}, masquerade : MasqueradeType, quic : QuicType]
    BY <1>4 DEF TransportType
  <2> DEFINE F == {"network", "masq_kind", "quic"}
  <2>2. w = [v EXCEPT !.network = "tcp", !.masq_kind = x.masquerade.kind, !.quic = q]
    BY <1>4 DEF HydrateTransport
  <2>3. F \subseteq TransportFields /\ F \subseteq Fields
    BY DEF TransportFields, Fields
  <2> HIDE DEF w, q
  <2>4. Changed(w, v, F)
    BY <1>0, <2>2, <2>3 DEF Changed
  <2>5. w.network = "tcp" /\ w.masq_kind = x.masquerade.kind /\ w.quic = q
    BY <1>0, <2>2, <2>3
  <2>6. \A f \in F : w[f] \in FieldType[f]
    <3>1. w.network \in FieldType.network
      BY <2>5, FieldTypes DEF Networks
    <3>2. w.quic \in FieldType.quic
      BY <1>q, <2>5, FieldTypes
    <3>3. w.masq_kind \in FieldType.masq_kind
      BY <2>1, <2>5, FieldTypes DEF MasqueradeType
    <3> QED
      BY <3>1, <3>2, <3>3
  <2>7. Filled(w) /\ Changed(w, v, TransportFields)
    BY <2>3, <2>4, <2>6, ChangedIsFilled, ChangedMore
  <2>8. w.protocol_kind = v.protocol_kind
    BY <1>p, <2>7 DEF Changed
  <2>9. BuildQuicParams(w) = x.quic
    BY <2>1, <2>5, QuicSurvives DEF q
  <2> DEFINE m == [kind |-> x.masquerade.kind, headers |-> {}]
  <2>10. BuildMasquerade(w) = m
    BY <2>5 DEF BuildMasquerade
  <2>11. BuildTransport(w) = [kind |-> "hysteria", masquerade |-> m, quic |-> x.quic]
    BY <1>4, <2>8, <2>9, <2>10 DEF BuildTransport
  <2>12. [x.masquerade EXCEPT !.headers = {}] = m
    BY <2>1 DEF MasqueradeType
  <2>13. Shown("transport", x) = [kind |-> "hysteria", masquerade |-> m, quic |-> x.quic]
    <3>1. Shown("transport", x) = [x EXCEPT !.masquerade = [x.masquerade EXCEPT !.headers = {}]]
      BY <1>4, <2>1 DEF Shown
    <3> HIDE DEF m
    <3> QED
      BY <2>1, <2>12, <3>1
  <2> QED
    BY <2>7, <2>11, <2>13 DEF w
<1> QED
  BY <1>1, <1>2, <1>3, <1>4 DEF TransportType

LEMMA SecuritySurvives ==
    ASSUME NEW v, Filled(v), NEW x \in SecurityType
    PROVE  LET w == HydrateSecurity(v, x)
           IN /\ Filled(w)
              /\ Changed(w, v, SecurityFields)
              /\ Effective("security", BuildSecurity(w)) = Effective("security", x)
<1> DEFINE w == HydrateSecurity(v, x)
<1>0. DOMAIN v = Fields
  BY FormHas DEF Filled
<1>1. CASE x.kind = "none"
  <2>1. x = [kind |-> "none"]
    BY <1>1 DEF SecurityType, TlsType
  <2> DEFINE F == {"security"}
  <2>2. w = [v EXCEPT !.security = "none"]
    BY <1>1 DEF HydrateSecurity
  <2>3. F \subseteq SecurityFields /\ F \subseteq Fields
    BY DEF SecurityFields, Fields
  <2> HIDE DEF w
  <2>4. Changed(w, v, F)
    BY <1>0, <2>2, <2>3 DEF Changed
  <2>5. w.security = "none"
    BY <1>0, <2>2, <2>3
  <2>6. \A f \in F : w[f] \in FieldType[f]
    BY <2>5, FieldTypes DEF Securities
  <2>7. Filled(w) /\ Changed(w, v, SecurityFields)
    BY <2>3, <2>4, <2>6, ChangedIsFilled, ChangedMore
  <2>8. BuildSecurity(w) = x
    BY <2>1, <2>5 DEF BuildSecurity
  <2> QED
    BY <2>7, <2>8 DEF w
<1>2. CASE x.kind = "reality"
  <2>1. x \in [kind : {"reality"}, keys : {"blank", "pair"}]
    BY <1>2 DEF SecurityType, TlsType
  <2> DEFINE F == {"security", "reality_keys"}
  <2>2. w = [v EXCEPT !.security = "reality", !.reality_keys = x.keys]
    BY <1>2 DEF HydrateSecurity
  <2>3. F \subseteq SecurityFields /\ F \subseteq Fields
    BY DEF SecurityFields, Fields
  <2> HIDE DEF w
  <2>4. Changed(w, v, F)
    BY <1>0, <2>2, <2>3 DEF Changed
  <2>5. w.security = "reality" /\ w.reality_keys = x.keys
    BY <1>0, <2>2, <2>3
  <2>6. \A f \in F : w[f] \in FieldType[f]
    BY <2>1, <2>5, FieldTypes DEF Securities
  <2>7. Filled(w) /\ Changed(w, v, SecurityFields)
    BY <2>3, <2>4, <2>6, ChangedIsFilled, ChangedMore
  <2>8. BuildSecurity(w) = [kind |-> "reality", keys |-> x.keys]
    BY <2>5 DEF BuildSecurity
  <2>9. BuildSecurity(w) = x
    BY <2>1, <2>8
  <2> QED
    BY <2>7, <2>9 DEF w
<1>3. CASE x.kind = "tls"
  <2>1. x \in [kind : {"tls"}, certificates : SUBSET {"full"},
               alpn : {{}} \cup {{a} : a \in (SUBSET {"h1", "h2", "h3"}) \ {{}}},
               fingerprint : {"blank", "chrome", "firefox"}]
    BY <1>3 DEF SecurityType, TlsType
  <2> DEFINE F == {"security", "tls_certificates", "tls_alpn", "tls_fingerprint"}
             alpn == HydrateAlpn(x)
             fp == FingerprintOr(x.fingerprint)
  <2>2. w = [v EXCEPT !.security = "tls", !.tls_certificates = x.certificates, !.tls_alpn = alpn,
                      !.tls_fingerprint = fp]
    BY <1>3 DEF HydrateSecurity
  <2>3. F \subseteq SecurityFields /\ F \subseteq Fields
    BY DEF SecurityFields, Fields
  <2>a. alpn \in SUBSET {"h1", "h2", "h3"} /\ Some(alpn # {}, alpn) = x.alpn
    <3>1. CASE x.alpn = {}
      <4>1. alpn = {}
        BY <3>1 DEF HydrateAlpn
      <4> QED
        BY <3>1, <4>1 DEF Some
    <3>2. CASE x.alpn # {}
      <4>1. PICK a \in (SUBSET {"h1", "h2", "h3"}) \ {{}} : x.alpn = {a}
        BY <2>1, <3>2
      <4>2. alpn = a
        BY <4>1 DEF HydrateAlpn
      <4> HIDE DEF alpn
      <4> QED
        BY <4>1, <4>2 DEF Some
    <3> QED
      BY <3>1, <3>2
  <2>b. fp \in {"chrome", "firefox"} /\ FingerprintOr(fp) = fp
    BY <2>1 DEF FingerprintOr
  <2> HIDE DEF w, alpn, fp
  <2>4. Changed(w, v, F)
    BY <1>0, <2>2, <2>3 DEF Changed
  <2>5. /\ w.security = "tls" /\ w.tls_certificates = x.certificates /\ w.tls_alpn = alpn
        /\ w.tls_fingerprint = fp
    BY <1>0, <2>2, <2>3
  <2>6. \A f \in F : w[f] \in FieldType[f]
    <3>1. w.security \in FieldType.security
      BY <2>5, FieldTypes DEF Securities
    <3>2. w.tls_certificates \in FieldType.tls_certificates
      BY <2>1, <2>5, FieldTypes
    <3>3. w.tls_alpn \in FieldType.tls_alpn
      BY <2>a, <2>5, FieldTypes
    <3>4. w.tls_fingerprint \in FieldType.tls_fingerprint
      BY <2>b, <2>5, FieldTypes
    <3> QED
      BY <3>1, <3>2, <3>3, <3>4
  <2>7. Filled(w) /\ Changed(w, v, SecurityFields)
    BY <2>3, <2>4, <2>6, ChangedIsFilled, ChangedMore
  <2>8. w.tls_certificates \cap {"full"} = x.certificates
    BY <2>1, <2>5
  <2> DEFINE y == [kind |-> "tls", certificates |-> x.certificates, alpn |-> x.alpn, fingerprint |-> fp]
  <2>9. BuildSecurity(w) = y
    BY <2>a, <2>5, <2>8 DEF BuildSecurity
  <2>10. Effective("security", y) = y
    BY <2>b DEF Effective
  <2>11. Effective("security", x) = y
    <3>1. Effective("security", x) = [x EXCEPT !.fingerprint = fp]
      BY <1>3 DEF Effective, fp
    <3> QED
      BY <2>1, <3>1
  <2> QED
    BY <2>7, <2>9, <2>10, <2>11 DEF w
<1> QED
  BY <1>1, <1>2, <1>3 DEF SecurityType, TlsType

LEMMA MaskSurvives ==
    ASSUME NEW v, Filled(v), v.finalmask_kind = "none", NEW x \in MaskType
    PROVE  LET w == HydrateFinalMask(v, x)
           IN /\ Filled(w)
              /\ Changed(w, v, MaskFields)
              /\ EffectiveMask(BuildFinalMask(w)) = EffectiveMask(ShownMask(x))
<1> DEFINE w == HydrateFinalMask(v, x)
<1>0. DOMAIN v = Fields /\ Changed(v, v, MaskFields)
  BY FormHas DEF Filled, Changed
<1>s. x.kind \notin {"fragment", "noise"} => ShownMask(x) = x
  BY DEF ShownMask
<1>1. CASE x.kind = "none"
  <2>1. x = [kind |-> "none"]
    BY <1>1 DEF MaskType, FragmentType, NoiseType
  <2>2. w = v
    BY <1>1 DEF HydrateFinalMask
  <2>3. BuildFinalMask(v) = x
    BY <2>1 DEF BuildFinalMask
  <2> QED
    BY <1>0, <1>1, <1>s, <2>2, <2>3
<1>2. CASE x.kind = "salamander"
  <2>1. x = [kind |-> "salamander"]
    BY <1>2 DEF MaskType, FragmentType, NoiseType
  <2> DEFINE F == {"finalmask_kind"}
  <2>2. w = [v EXCEPT !.finalmask_kind = "salamander"]
    BY <1>2 DEF HydrateFinalMask
  <2>3. F \subseteq MaskFields /\ F \subseteq Fields
    BY DEF MaskFields, Fields
  <2> HIDE DEF w
  <2>4. Changed(w, v, F)
    BY <1>0, <2>2, <2>3 DEF Changed
  <2>5. w.finalmask_kind = "salamander"
    BY <1>0, <2>2, <2>3
  <2>6. \A f \in F : w[f] \in FieldType[f]
    BY <2>5, FieldTypes DEF MaskKinds
  <2>7. Filled(w) /\ Changed(w, v, MaskFields)
    BY <2>3, <2>4, <2>6, ChangedIsFilled, ChangedMore
  <2>8. BuildFinalMask(w) = x
    BY <2>1, <2>5 DEF BuildFinalMask
  <2> QED
    BY <1>2, <1>s, <2>7, <2>8 DEF w
<1>3. CASE x.kind = "sudoku"
  <2>1. x \in [kind : {"sudoku"}, custom_table : SUBSET {"table"}, custom_tables : SUBSET {"table"}]
    BY <1>3 DEF MaskType, FragmentType, NoiseType
  <2> DEFINE F == {"finalmask_kind", "sudoku_tables"}
             tables == IF x.custom_tables # {} THEN x.custom_tables ELSE x.custom_table
  <2>2. w = [v EXCEPT !.finalmask_kind = "sudoku", !.sudoku_tables = tables]
    BY <1>3 DEF HydrateFinalMask
  <2>3. F \subseteq MaskFields /\ F \subseteq Fields
    BY DEF MaskFields, Fields
  <2>a. tables \in SUBSET {"table"} /\ EffectiveMask(x) = [kind |-> "sudoku", tables |-> tables]
    BY <1>3, <2>1 DEF EffectiveMask
  <2> HIDE DEF w, tables
  <2>4. Changed(w, v, F)
    BY <1>0, <2>2, <2>3 DEF Changed
  <2>5. w.finalmask_kind = "sudoku" /\ w.sudoku_tables = tables
    BY <1>0, <2>2, <2>3
  <2>6. \A f \in F : w[f] \in FieldType[f]
    <3>1. w.finalmask_kind \in FieldType.finalmask_kind
      BY <2>5, FieldTypes DEF MaskKinds
    <3>2. w.sudoku_tables \in FieldType.sudoku_tables
      BY <2>a, <2>5, FieldTypes
    <3> QED
      BY <3>1, <3>2
  <2>7. Filled(w) /\ Changed(w, v, MaskFields)
    BY <2>3, <2>4, <2>6, ChangedIsFilled, ChangedMore
  <2>8. w.sudoku_tables \ {"blank"} = tables
    BY <2>a, <2>5
  <2>9. BuildFinalMask(w) = [kind |-> "sudoku", custom_table |-> {}, custom_tables |-> tables]
    BY <2>5, <2>8 DEF BuildFinalMask
  <2>10. EffectiveMask([kind |-> "sudoku", custom_table |-> {}, custom_tables |-> tables])
             = [kind |-> "sudoku", tables |-> tables]
    BY DEF EffectiveMask
  <2> QED
    BY <1>3, <1>s, <2>7, <2>9, <2>10, <2>a DEF w
<1>4. CASE x.kind = "fragment"
  <2>1. x \in [kind : {"fragment"}, packets : PacketBounds \X PacketBounds, max_split : {Null, 1}]
    BY <1>4 DEF MaskType, FragmentType, NoiseType
  <2> DEFINE F == {"finalmask_kind", "packets_mode", "packets_from", "packets_to"}
             from == x.packets[1]
             to == x.packets[2]
             mode == PacketsMode(from, to)
  <2>2. w = [v EXCEPT !.finalmask_kind = "fragment", !.packets_mode = mode,
                      !.packets_from = from, !.packets_to = to]
    BY <1>4 DEF HydrateFinalMask
  <2>3. F \subseteq MaskFields /\ F \subseteq Fields
    BY DEF MaskFields, Fields
  <2>a. from \in PacketBounds /\ to \in PacketBounds
        /\ EffectiveMask(ShownMask(x))
             = [kind |-> "fragment", from |-> OrZero(from), to |-> OrZero(to), max_split |-> OrZero(Null)]
    <3>1. ShownMask(x) = [kind |-> "fragment", packets |-> x.packets, max_split |-> Null]
      BY <1>4, <2>1 DEF ShownMask
    <3> QED
      BY <2>1, <3>1 DEF EffectiveMask
  <2>b. /\ mode \in {"tlshello", "all", "range"}
        /\ mode = "tlshello" => OrZero(from) = 0 /\ OrZero(to) = 1
        /\ mode = "all" => OrZero(from) = 0 /\ OrZero(to) = 0
    BY DEF PacketsMode
  <2> HIDE DEF w, from, to, mode
  <2>4. Changed(w, v, F)
    BY <1>0, <2>2, <2>3 DEF Changed
  <2>5. /\ w.finalmask_kind = "fragment" /\ w.packets_mode = mode
        /\ w.packets_from = from /\ w.packets_to = to
    BY <1>0, <2>2, <2>3
  <2>6. \A f \in F : w[f] \in FieldType[f]
    <3>1. w.finalmask_kind \in FieldType.finalmask_kind
      BY <2>5, FieldTypes DEF MaskKinds
    <3>2. /\ w.packets_mode \in FieldType.packets_mode /\ w.packets_from \in FieldType.packets_from
          /\ w.packets_to \in FieldType.packets_to
      BY <2>a, <2>b, <2>5, FieldTypes
    <3> QED
      BY <3>1, <3>2
  <2>7. Filled(w) /\ Changed(w, v, MaskFields)
    BY <2>3, <2>4, <2>6, ChangedIsFilled, ChangedMore
  <2> DEFINE b == BuildPackets(w)
  <2>8. OrZero(b[1]) = OrZero(from) /\ OrZero(b[2]) = OrZero(to)
    <3>1. CASE mode = "tlshello"
      <4>1. b = <<0, 1>>
        BY <2>5, <3>1 DEF BuildPackets
      <4> QED
        BY <2>b, <3>1, <4>1 DEF OrZero, Null
    <3>2. CASE mode = "all"
      <4>1. b = <<0, 0>>
        BY <2>5, <3>2 DEF BuildPackets
      <4> QED
        BY <2>b, <3>2, <4>1 DEF OrZero, Null
    <3>3. CASE mode = "range"
      BY <2>5, <3>3 DEF BuildPackets
    <3> QED
      BY <2>b, <3>1, <3>2, <3>3
  <2> HIDE DEF b
  <2>9. BuildFinalMask(w) = [kind |-> "fragment", packets |-> b, max_split |-> Null]
    BY <2>5 DEF BuildFinalMask, b
  <2>10. EffectiveMask([kind |-> "fragment", packets |-> b, max_split |-> Null])
             = [kind |-> "fragment", from |-> OrZero(b[1]), to |-> OrZero(b[2]), max_split |-> OrZero(Null)]
    BY DEF EffectiveMask
  <2> QED
    BY <2>7, <2>8, <2>9, <2>10, <2>a DEF w
<1>5. CASE x.kind = "noise"
  <2>1. x \in [kind : {"noise"}, items : (SUBSET {"blank", "literal", "random"}) \ {{}}, reset : {Null, 1}]
    BY <1>5 DEF MaskType, NoiseType, FragmentType
  <2> DEFINE F == {"finalmask_kind", "noise_items"}
  <2>2. w = [v EXCEPT !.finalmask_kind = "noise", !.noise_items = x.items]
    BY <1>5, <2>1 DEF HydrateFinalMask
  <2>3. F \subseteq MaskFields /\ F \subseteq Fields
    BY DEF MaskFields, Fields
  <2> HIDE DEF w
  <2>4. Changed(w, v, F)
    BY <1>0, <2>2, <2>3 DEF Changed
  <2>5. w.finalmask_kind = "noise" /\ w.noise_items = x.items
    BY <1>0, <2>2, <2>3
  <2>6. \A f \in F : w[f] \in FieldType[f]
    <3>1. w.finalmask_kind \in FieldType.finalmask_kind
      BY <2>5, FieldTypes DEF MaskKinds
    <3>2. w.noise_items \in FieldType.noise_items
      BY <2>1, <2>5, FieldTypes DEF NoiseItems
    <3> QED
      BY <3>1, <3>2
  <2>7. Filled(w) /\ Changed(w, v, MaskFields)
    BY <2>1, <2>3, <2>4, <2>5, <2>6, ChangedIsFilled, ChangedMore
  <2>8. {BuildNoiseItem(i) : i \in w.noise_items} = x.items
    <3>1. \A i \in x.items : BuildNoiseItem(i) = i
      BY <2>1 DEF BuildNoiseItem
    <3> QED
      BY <2>5, <3>1
  <2>9. BuildFinalMask(w) = [kind |-> "noise", items |-> x.items, reset |-> Null]
    BY <2>5, <2>8 DEF BuildFinalMask
  <2>10. ShownMask(x) = [kind |-> "noise", items |-> x.items, reset |-> Null]
    BY <1>5, <2>1 DEF ShownMask
  <2> QED
    BY <2>7, <2>9, <2>10 DEF w
<1>6. CASE x.kind = "xmc"
  <2>1. x \in [kind : {"xmc"}, profiles : SUBSET {"resolved", "renamed"}]
    BY <1>6 DEF MaskType, FragmentType, NoiseType
  <2> DEFINE F == {"finalmask_kind", "xmc_profiles"}
             profiles == IF x.profiles = {} THEN {"blank"} ELSE x.profiles
  <2>2. w = [v EXCEPT !.finalmask_kind = "xmc", !.xmc_profiles = profiles]
    BY <1>6 DEF HydrateFinalMask
  <2>3. F \subseteq MaskFields /\ F \subseteq Fields
    BY DEF MaskFields, Fields
  <2>a. /\ profiles \in SUBSET {"blank", "resolved", "renamed"}
        /\ profiles \cap {"resolved", "renamed"} = x.profiles
    BY <2>1
  <2> HIDE DEF w, profiles
  <2>4. Changed(w, v, F)
    BY <1>0, <2>2, <2>3 DEF Changed
  <2>5. w.finalmask_kind = "xmc" /\ w.xmc_profiles = profiles
    BY <1>0, <2>2, <2>3
  <2>6. \A f \in F : w[f] \in FieldType[f]
    <3>1. w.finalmask_kind \in FieldType.finalmask_kind
      BY <2>5, FieldTypes DEF MaskKinds
    <3>2. w.xmc_profiles \in FieldType.xmc_profiles
      BY <2>a, <2>5, FieldTypes DEF XmcProfiles
    <3> QED
      BY <3>1, <3>2
  <2>7. Filled(w) /\ Changed(w, v, MaskFields)
    BY <2>3, <2>4, <2>6, ChangedIsFilled, ChangedMore
  <2>8. BuildFinalMask(w) = [kind |-> "xmc", profiles |-> x.profiles]
    BY <2>a, <2>5 DEF BuildFinalMask
  <2>9. BuildFinalMask(w) = x
    BY <2>1, <2>8
  <2> QED
    BY <1>6, <1>s, <2>7, <2>9 DEF w
<1> QED
  BY <1>1, <1>2, <1>3, <1>4, <1>5, <1>6 DEF MaskType, FragmentType, NoiseType

\* Hydrating a whole row: what the form shows of each layer means the same built
\* back.
LEMMA RowSurvives ==
    ASSUME NEW row \in RowType, ValidateLayers(row)
    PROVE  LET w == InboundToForm(row)
           IN Filled(w) /\ \A l \in Layers : Effective(l, FormToUpdate(w)[l]) = Effective(l, Shown(l, row[l]))
<1> DEFINE p == HydrateProtocol(DEFAULTS, row.protocol)
           t == HydrateTransport(p, row.transport)
           s == HydrateSecurity(t, row.security)
           o == [s EXCEPT !.sniffing = row.sniffing, !.sockopt = row.sockopt]
           w == HydrateFinalMask(o, row.finalmask)
<1>0. /\ row.protocol \in ProtocolType /\ row.transport \in TransportType
      /\ row.security \in SecurityType /\ row.finalmask \in MaskType
      /\ row.sniffing \in SUBSET {"entry"} /\ row.sockopt \in SUBSET {"entry"}
  BY DEF RowType
<1>a. /\ (row.protocol.kind = "vless" /\ row.protocol.fallbacks) => row.protocol.enc = {}
      /\ ValidateXhttpMode(row.transport)
      /\ row.protocol.kind = "hysteria2" <=> row.transport.kind = "hysteria"
  <2>1. row.protocol.kind \in Protocols /\ row.transport.kind \in {"tcp", "ws", "xhttp", "hysteria"}
    BY <1>0 DEF ProtocolType, TransportType, Protocols
  <2> QED
    BY <2>1 DEF ValidateLayers, ValidateFallbacks, CompatTransports, Protocols
<1>1. /\ Filled(p) /\ p.protocol_kind = row.protocol.kind
      /\ Changed(p, DEFAULTS, ProtocolFields)
      /\ Effective("protocol", BuildProtocol(p)) = Effective("protocol", row.protocol)
  BY <1>0, <1>a, DefaultsFilled, ProtocolSurvives
<1> HIDE DEF p
<1>2. Filled(t) /\ Changed(t, p, TransportFields) /\ BuildTransport(t) = Shown("transport", row.transport)
  BY <1>0, <1>a, <1>1, TransportSurvives
<1> HIDE DEF t
<1>3. /\ Filled(s) /\ Changed(s, t, SecurityFields)
      /\ Effective("security", BuildSecurity(s)) = Effective("security", row.security)
  BY <1>0, <1>2, SecuritySurvives
<1> HIDE DEF s
<1>4. /\ Filled(o) /\ Changed(o, s, ListFields)
      /\ o.sniffing = row.sniffing /\ o.sockopt = row.sockopt
  <2>0. DOMAIN s = Fields
    BY <1>3, FormHas DEF Filled
  <2>1. {"sniffing", "sockopt"} \subseteq Fields
    BY DEF Fields, ListFields
  <2>2. Changed(o, s, ListFields)
    BY <2>0, <2>1 DEF Changed, ListFields
  <2>3. o.sniffing = row.sniffing /\ o.sockopt = row.sockopt
    BY <2>0, <2>1
  <2> HIDE DEF o
  <2>4. \A f \in ListFields : o[f] \in FieldType[f]
    <3>1. o.sniffing \in FieldType.sniffing
      BY <1>0, <2>3, FieldTypes
    <3>2. o.sockopt \in FieldType.sockopt
      BY <1>0, <2>3, FieldTypes
    <3> QED
      BY <3>1, <3>2 DEF ListFields
  <2>5. "noise_items" \notin ListFields
    BY DEF ListFields
  <2> QED
    BY <1>3, <2>2, <2>3, <2>4, <2>5, ChangedIsFilled
<1> HIDE DEF o
<1>d. /\ "finalmask_kind" \in Fields
      /\ "finalmask_kind" \notin ProtocolFields \cup TransportFields \cup SecurityFields \cup ListFields
      /\ {"sniffing", "sockopt"} \subseteq Fields
      /\ {"sniffing", "sockopt"} \cap MaskFields = {}
      /\ DEFAULTS.finalmask_kind = "none"
  BY DEF Fields, ProtocolFields, TransportFields, SecurityFields, MaskFields, ListFields, DEFAULTS
<1>5. o.finalmask_kind = "none"
  BY <1>1, <1>2, <1>3, <1>4, <1>d DEF Changed
<1>6. /\ Filled(w) /\ Changed(w, o, MaskFields)
      /\ EffectiveMask(BuildFinalMask(w)) = EffectiveMask(ShownMask(row.finalmask))
  BY <1>0, <1>4, <1>5, MaskSurvives
<1> HIDE DEF w
<1>7. /\ Changed(w, s, ListFields \cup MaskFields)
      /\ Changed(w, t, SecurityFields \cup (ListFields \cup MaskFields))
      /\ Changed(w, p, TransportFields \cup (SecurityFields \cup (ListFields \cup MaskFields)))
  BY <1>2, <1>3, <1>4, <1>6, ChangedTwice
<1>8. BuildProtocol(w) = BuildProtocol(p)
  <2>1. (TransportFields \cup (SecurityFields \cup (ListFields \cup MaskFields))) \cap ProtocolFields = {}
    BY DEF ProtocolFields, TransportFields, SecurityFields, MaskFields, ListFields
  <2> QED
    BY <1>7, <2>1, BuildReads
<1>9. BuildTransport(w) = BuildTransport(t)
  <2>1. (SecurityFields \cup (ListFields \cup MaskFields)) \cap (TransportFields \cup {"protocol_kind"}) = {}
    BY DEF ProtocolFields, TransportFields, SecurityFields, MaskFields, ListFields
  <2> QED
    BY <1>7, <2>1, BuildReads
<1>10. BuildSecurity(w) = BuildSecurity(s)
  <2>1. (ListFields \cup MaskFields) \cap SecurityFields = {}
    BY DEF SecurityFields, MaskFields, ListFields
  <2> QED
    BY <1>7, <2>1, BuildReads
<1>11. BuildSniffing(w) = row.sniffing /\ BuildSockopt(w) = row.sockopt
  <2>1. w.sniffing = row.sniffing /\ w.sockopt = row.sockopt
    BY <1>4, <1>6, <1>d DEF Changed
  <2> QED
    BY <1>0, <2>1 DEF BuildSniffing, BuildSockopt
<1>12. InboundToForm(row) = w
  BY DEF InboundToForm, p, t, s, o, w
<1>13. \A l \in Layers : Effective(l, FormToUpdate(w)[l]) = Effective(l, Shown(l, row[l]))
  <2>1. /\ FormToUpdate(w).protocol = BuildProtocol(w) /\ FormToUpdate(w).transport = BuildTransport(w)
        /\ FormToUpdate(w).security = BuildSecurity(w) /\ FormToUpdate(w).sniffing = BuildSniffing(w)
        /\ FormToUpdate(w).sockopt = BuildSockopt(w) /\ FormToUpdate(w).finalmask = BuildFinalMask(w)
    BY DEF FormToUpdate
  <2>2. /\ Effective("finalmask", BuildFinalMask(w)) = EffectiveMask(BuildFinalMask(w))
        /\ Effective("finalmask", Shown("finalmask", row.finalmask)) = EffectiveMask(ShownMask(row.finalmask))
    BY DEF Effective, Shown
  <2>3. \A l \in {"protocol", "security", "sniffing", "sockopt"} : Shown(l, row[l]) = row[l]
    BY DEF Shown
  <2> QED
    BY <1>1, <1>2, <1>3, <1>6, <1>8, <1>9, <1>10, <1>11, <2>1, <2>2, <2>3 DEF Layers
<1> QED
  BY <1>6, <1>12, <1>13
-----------------------------------------------------------------------------
(* The rows keep their type, whoever wrote them.                            *)

LEMMA RowFields ==
    ASSUME NEW b, NEW p, NEW t, NEW s, NEW n, NEW k, NEW m,
           b = [protocol |-> p, transport |-> t, security |-> s, sniffing |-> n, sockopt |-> k,
                finalmask |-> m],
           p \in ProtocolType, t \in TransportType, s \in SecurityType,
           n \in SUBSET {"entry"}, k \in SUBSET {"entry"}, m \in MaskType
    PROVE  b \in RowType
BY DEF RowType

LEMMA OthersRowIsTyped ==
    ASSUME NEW b \in RowType
    PROVE  WrittenOtherwise(b) \in RowType
<1>0. /\ b.protocol \in ProtocolType /\ b.transport \in TransportType
      /\ b.security \in SecurityType /\ b.finalmask \in MaskType
      /\ b.sniffing \in SUBSET {"entry"} /\ b.sockopt \in SUBSET {"entry"}
  BY DEF RowType
<1> DEFINE masq == [kind |-> "string", headers |-> {"named"}]
           t == CASE b.transport.kind = "xhttp" -> [b.transport EXCEPT !.mode = "packet-up", !.get = TRUE]
                  [] b.transport.kind = "hysteria" -> [b.transport EXCEPT !.masquerade = masq]
                  [] OTHER -> b.transport
           s == IF b.security.kind = "tls"
                THEN [b.security EXCEPT !.alpn = {}, !.fingerprint = "blank"] ELSE b.security
           p == IF b.protocol.kind = "wireguard" THEN [b.protocol EXCEPT !.mtu = 0] ELSE b.protocol
           m == CASE b.finalmask.kind = "sudoku" -> [b.finalmask EXCEPT !.custom_table = {"table"}]
                  [] b.finalmask.kind = "fragment" ->
                        [b.finalmask EXCEPT !.packets = <<Null, Null>>, !.max_split = 1]
                  [] b.finalmask.kind = "noise" -> [b.finalmask EXCEPT !.reset = 1]
                  [] OTHER -> b.finalmask
<1>1. t \in TransportType
  <2>1. CASE b.transport.kind = "xhttp"
    <3>1. b.transport \in [kind : {"xhttp"}, mode : {"auto", "packet-up"}, headers : SUBSET {"named"},
                           get : BOOLEAN, quic : QuicType]
      BY <1>0, <2>1 DEF TransportType
    <3>2. t = [kind |-> "xhttp", mode |-> "packet-up", headers |-> b.transport.headers, get |-> TRUE,
               quic |-> b.transport.quic]
      BY <2>1, <3>1
    <3> HIDE DEF t
    <3> QED
      BY <3>1, <3>2 DEF TransportType
  <2>2. CASE b.transport.kind = "hysteria"
    <3>1. b.transport \in [kind : {"hysteria"}, masquerade : MasqueradeType, quic : QuicType]
      BY <1>0, <2>2 DEF TransportType
    <3>2. t = [kind |-> "hysteria", masquerade |-> masq, quic |-> b.transport.quic]
      BY <2>2, <3>1
    <3>3. masq \in MasqueradeType
      BY DEF MasqueradeType
    <3> HIDE DEF t, masq
    <3> QED
      BY <3>1, <3>2, <3>3 DEF TransportType
  <2>3. CASE b.transport.kind \notin {"xhttp", "hysteria"}
    <3>1. t = b.transport
      BY <2>3
    <3> QED
      BY <1>0, <3>1
  <2> QED
    BY <2>1, <2>2, <2>3
<1>2. s \in SecurityType
  <2>1. CASE b.security.kind = "tls"
    <3>1. b.security \in [kind : {"tls"}, certificates : SUBSET {"full"},
                          alpn : {{}} \cup {{a} : a \in (SUBSET {"h1", "h2", "h3"}) \ {{}}},
                          fingerprint : {"blank", "chrome", "firefox"}]
      BY <1>0, <2>1 DEF SecurityType, TlsType
    <3>2. s = [kind |-> "tls", certificates |-> b.security.certificates, alpn |-> {},
               fingerprint |-> "blank"]
      BY <2>1, <3>1
    <3>3. b.security.certificates \in SUBSET {"full"}
      BY <3>1
    <3> HIDE DEF s
    <3> QED
      BY <3>2, <3>3 DEF SecurityType, TlsType
  <2> QED
    BY <1>0, <2>1
<1>3. p \in ProtocolType
  <2>1. CASE b.protocol.kind = "wireguard"
    <3>1. b.protocol \in [kind : {"wireguard"}, keys : {"blank", "pair"}, mtu : {0, 1280, MtuDefault}]
      BY <1>0, <2>1 DEF ProtocolType
    <3>2. p = [kind |-> "wireguard", keys |-> b.protocol.keys, mtu |-> 0]
      BY <2>1, <3>1
    <3> HIDE DEF p
    <3> QED
      BY <3>1, <3>2 DEF ProtocolType
  <2> QED
    BY <1>0, <2>1
<1>4. m \in MaskType
  <2>1. CASE b.finalmask.kind = "sudoku"
    <3>1. b.finalmask \in [kind : {"sudoku"}, custom_table : SUBSET {"table"}, custom_tables : SUBSET {"table"}]
      BY <1>0, <2>1 DEF MaskType, FragmentType, NoiseType
    <3>2. m = [kind |-> "sudoku", custom_table |-> {"table"}, custom_tables |-> b.finalmask.custom_tables]
      BY <2>1, <3>1
    <3>3. b.finalmask.custom_tables \in SUBSET {"table"}
      BY <3>1
    <3> HIDE DEF m
    <3> QED
      BY <3>2, <3>3 DEF MaskType
  <2>2. CASE b.finalmask.kind = "fragment"
    <3>1. b.finalmask \in [kind : {"fragment"}, packets : PacketBounds \X PacketBounds, max_split : {Null, 1}]
      BY <1>0, <2>2 DEF MaskType, FragmentType, NoiseType
    <3>2. m = [kind |-> "fragment", packets |-> <<Null, Null>>, max_split |-> 1]
      BY <2>2, <3>1
    <3>3. <<Null, Null>> \in PacketBounds \X PacketBounds
      BY DEF PacketBounds
    <3> HIDE DEF m
    <3> QED
      BY <3>2, <3>3 DEF MaskType, FragmentType
  <2>3. CASE b.finalmask.kind = "noise"
    <3>1. b.finalmask \in [kind : {"noise"}, items : (SUBSET {"blank", "literal", "random"}) \ {{}},
                           reset : {Null, 1}]
      BY <1>0, <2>3 DEF MaskType, FragmentType, NoiseType
    <3>2. m = [kind |-> "noise", items |-> b.finalmask.items, reset |-> 1]
      BY <2>3, <3>1
    <3> HIDE DEF m
    <3> QED
      BY <3>1, <3>2 DEF MaskType, NoiseType
  <2>4. CASE b.finalmask.kind \notin {"sudoku", "fragment", "noise"}
    <3>1. m = b.finalmask
      BY <2>4
    <3> QED
      BY <1>0, <3>1
  <2> QED
    BY <2>1, <2>2, <2>3, <2>4
<1>5. WrittenOtherwise(b) = [protocol |-> p, transport |-> t, security |-> s, sniffing |-> b.sniffing,
                             sockopt |-> b.sockopt, finalmask |-> m]
  <2>1. WrittenOtherwise(b) = [b EXCEPT !.transport = t, !.security = s, !.protocol = p, !.finalmask = m]
    BY DEF WrittenOtherwise
  <2> HIDE DEF p, t, s, m
  <2> QED
    BY <2>1 DEF RowType
<1> HIDE DEF p, t, s, m
<1> QED
  BY <1>0, <1>1, <1>2, <1>3, <1>4, <1>5, RowFields

LEMMA CompletedIsTyped ==
    ASSUME NEW b \in RowType
    PROVE  CompleteServerManagedFields(b) \in RowType
<1>0. /\ b.protocol \in ProtocolType /\ b.transport \in TransportType
      /\ b.security \in SecurityType /\ b.finalmask \in MaskType
      /\ b.sniffing \in SUBSET {"entry"} /\ b.sockopt \in SUBSET {"entry"}
  BY DEF RowType
<1> DEFINE s == IF b.security.kind = "reality" THEN [b.security EXCEPT !.keys = "pair"] ELSE b.security
           p == CompleteKeys(b.protocol)
<1>1. s \in SecurityType
  <2>1. CASE b.security.kind = "reality"
    <3>1. b.security \in [kind : {"reality"}, keys : {"blank", "pair"}]
      BY <1>0, <2>1 DEF SecurityType, TlsType
    <3>2. s = [kind |-> "reality", keys |-> "pair"]
      BY <2>1, <3>1
    <3> HIDE DEF s
    <3> QED
      BY <3>2 DEF SecurityType
  <2> QED
    BY <1>0, <2>1
<1>2. p \in ProtocolType
  <2>1. CASE b.protocol.kind = "wireguard"
    <3>1. b.protocol \in [kind : {"wireguard"}, keys : {"blank", "pair"}, mtu : {0, 1280, MtuDefault}]
      BY <1>0, <2>1 DEF ProtocolType
    <3>2. p = [kind |-> "wireguard", keys |-> "pair", mtu |-> b.protocol.mtu]
      BY <2>1, <3>1 DEF CompleteKeys
    <3> HIDE DEF p
    <3> QED
      BY <3>1, <3>2 DEF ProtocolType
  <2>2. CASE b.protocol.kind = "vless"
    <3>1. b.protocol \in [kind : {"vless"}, flow : {"none", "vision"},
                          enc : {{}} \cup {{e} : e \in [auth : Auths, keys : {"blank"} \cup Auths]},
                          fallbacks : BOOLEAN]
      BY <1>0, <2>2 DEF ProtocolType
    <3> DEFINE Keyed(e) == IF e.keys = "blank" THEN [e EXCEPT !.keys = e.auth] ELSE e
               enc == {Keyed(e) : e \in b.protocol.enc}
    <3>2. enc \in {{}} \cup {{e} : e \in [auth : Auths, keys : {"blank"} \cup Auths]}
      <4>1. CASE b.protocol.enc = {}
        BY <4>1
      <4>2. CASE b.protocol.enc # {}
        <5>1. PICK e \in [auth : Auths, keys : {"blank"} \cup Auths] : b.protocol.enc = {e}
          BY <3>1, <4>2
        <5>2. enc = {Keyed(e)}
          BY <5>1
        <5>3. Keyed(e) \in [auth : Auths, keys : {"blank"} \cup Auths]
          BY <5>1
        <5> HIDE DEF Keyed, enc
        <5> QED
          BY <5>2, <5>3
      <4> QED
        BY <4>1, <4>2
    <3>3. p = [kind |-> "vless", flow |-> b.protocol.flow, enc |-> enc,
               fallbacks |-> b.protocol.fallbacks]
      BY <2>2, <3>1 DEF CompleteKeys
    <3> HIDE DEF p, enc
    <3> QED
      BY <3>1, <3>2, <3>3 DEF ProtocolType
  <2>3. CASE b.protocol.kind \notin {"wireguard", "vless"}
    <3>1. p = b.protocol
      BY <2>3 DEF CompleteKeys
    <3> QED
      BY <1>0, <3>1
  <2> QED
    BY <2>1, <2>2, <2>3
<1>3. CompleteServerManagedFields(b) =
          [protocol |-> p, transport |-> b.transport, security |-> s, sniffing |-> b.sniffing,
           sockopt |-> b.sockopt, finalmask |-> b.finalmask]
  <2>1. CompleteServerManagedFields(b) = [b EXCEPT !.protocol = p, !.security = s]
    BY DEF CompleteServerManagedFields
  <2> HIDE DEF p, s
  <2> QED
    BY <2>1 DEF RowType
<1> HIDE DEF p, s
<1> QED
  BY <1>0, <1>1, <1>2, <1>3, RowFields

LEMMA UpdatedIsTyped ==
    ASSUME NEW b \in RowType, NEW before \in RowType
    PROVE  SettleUpdatedKeys(b, before) \in RowType
<1>0. /\ b.protocol \in ProtocolType /\ b.transport \in TransportType
      /\ b.security \in SecurityType /\ b.finalmask \in MaskType
      /\ b.sniffing \in SUBSET {"entry"} /\ b.sockopt \in SUBSET {"entry"}
      /\ before.security \in SecurityType
  BY DEF RowType
<1> DEFINE p == IF b.protocol.kind = "wireguard" THEN [b.protocol EXCEPT !.keys = "pair"] ELSE b.protocol
           s == IF /\ b.security.kind = "reality" /\ b.security.keys = "blank"
                   /\ before.security.kind = "reality"
                THEN [b.security EXCEPT !.keys = before.security.keys] ELSE b.security
<1>1. s \in SecurityType
  <2>1. CASE b.security.kind = "reality" /\ before.security.kind = "reality"
    <3>1. /\ b.security \in [kind : {"reality"}, keys : {"blank", "pair"}]
          /\ before.security \in [kind : {"reality"}, keys : {"blank", "pair"}]
      BY <1>0, <2>1 DEF SecurityType, TlsType
    <3>2. s \in [kind : {"reality"}, keys : {"blank", "pair"}]
      BY <3>1
    <3> HIDE DEF s
    <3> QED
      BY <3>2 DEF SecurityType
  <2> QED
    BY <1>0, <2>1
<1>2. p \in ProtocolType
  <2>1. CASE b.protocol.kind = "wireguard"
    <3>1. b.protocol \in [kind : {"wireguard"}, keys : {"blank", "pair"}, mtu : {0, 1280, MtuDefault}]
      BY <1>0, <2>1 DEF ProtocolType
    <3>2. p = [kind |-> "wireguard", keys |-> "pair", mtu |-> b.protocol.mtu]
      BY <2>1, <3>1
    <3> HIDE DEF p
    <3> QED
      BY <3>1, <3>2 DEF ProtocolType
  <2> QED
    BY <1>0, <2>1
<1>3. SettleUpdatedKeys(b, before) =
          [protocol |-> p, transport |-> b.transport, security |-> s, sniffing |-> b.sniffing,
           sockopt |-> b.sockopt, finalmask |-> b.finalmask]
  <2>1. SettleUpdatedKeys(b, before) = [b EXCEPT !.protocol = p, !.security = s]
    BY DEF SettleUpdatedKeys
  <2> HIDE DEF p, s
  <2> QED
    BY <2>1 DEF RowType
<1> HIDE DEF p, s
<1> QED
  BY <1>0, <1>1, <1>2, <1>3, RowFields

LEMMA ApiRowsTyped ==
    ASSUME NEW row \in ApiRows
    PROVE  row \in RowType /\ Builds(row)
<1>1. ASSUME NEW b \in WrittenRows PROVE b \in RowType
  <2>1. PICK p \in Protocols, n \in Networks, s \in Securities, m \in MaskKinds : b = Written(p, n, s, m)
    BY DEF WrittenRows
  <2> DEFINE F == {"protocol_kind", "network", "security", "finalmask_kind", "tls_certificates",
                   "reality_keys", "wg_keys"}
             v == [DEFAULTS EXCEPT !.protocol_kind = p, !.network = n, !.security = s,
                                   !.finalmask_kind = m, !.tls_certificates = {"full"},
                                   !.reality_keys = "pair", !.wg_keys = "pair"]
  <2>2. F \subseteq Fields
    BY DEF Fields, ProtocolFields, TransportFields, SecurityFields, MaskFields
  <2>3. DOMAIN DEFAULTS = Fields
    BY DefaultsFilled, FormHas DEF Filled
  <2>4. Changed(v, DEFAULTS, F)
    BY <2>2, <2>3 DEF Changed
  <2>5. /\ v.protocol_kind = p /\ v.network = n /\ v.security = s /\ v.finalmask_kind = m
        /\ v.tls_certificates = {"full"} /\ v.reality_keys = "pair" /\ v.wg_keys = "pair"
    BY <2>2, <2>3
  <2>6. b = FormToUpdate(v)
    BY <2>1 DEF Written
  <2> HIDE DEF v
  <2>7. \A f \in F : v[f] \in FieldType[f]
    <3>1. /\ v.protocol_kind \in FieldType.protocol_kind /\ v.network \in FieldType.network
          /\ v.security \in FieldType.security /\ v.finalmask_kind \in FieldType.finalmask_kind
          /\ v.reality_keys \in FieldType.reality_keys /\ v.wg_keys \in FieldType.wg_keys
      BY <2>5, FieldTypes
    <3>2. v.tls_certificates \in FieldType.tls_certificates
      BY <2>5, FieldTypes
    <3> QED
      BY <3>1, <3>2
  <2>8. Filled(v)
    BY <2>4, <2>7, DefaultsFilled, ChangedIsFilled
  <2> QED
    BY <2>6, <2>8, BuiltIsTyped
<1> QED
  BY <1>1, OthersRowIsTyped DEF ApiRows
-----------------------------------------------------------------------------
(* What the guards move, and what a tab moves.                              *)

Guarded == {"vless_flow", "network", "security", "finalmask_kind"}

LEMMA PassTyped ==
    ASSUME NEW v, NEW m, Filled(v)
    PROVE  LET w == UseProtocolGuards(v, m) IN Filled(w) /\ Changed(w, v, Guarded)
<1> DEFINE w == UseProtocolGuards(v, m)
<1>0. DOMAIN v = Fields /\ Shaped(v)
  BY FormHas, FilledIsShaped DEF Filled
<1>1. Guarded \subseteq Fields /\ "noise_items" \notin Guarded
  BY DEF Guarded, Fields, ProtocolFields, TransportFields, SecurityFields, MaskFields
<1>2. Changed(w, v, Guarded)
  <2> DEFINE a == GuardFlow(v)
             b == GuardNetwork(v)
             c == GuardSecurity(v)
             d == FinalMaskGuard(m, v.finalmask_kind, MaskTransport(v.protocol_kind, v.network), v.security)
  <2>1. w = [v EXCEPT !.vless_flow = a, !.network = b, !.security = c, !.finalmask_kind = d]
    BY DEF UseProtocolGuards
  <2> HIDE DEF a, b, c, d, w
  <2> QED
    BY <1>0, <2>1 DEF Changed, Guarded
<1>3. \A f \in Guarded : w[f] \in FieldType[f]
  <2>1. Shaped(w) /\ w.vless_flow = GuardFlow(v)
    BY <1>0, GuardShape, GuardFields
  <2> HIDE DEF w
  <2>2. v.vless_flow \in {"none", "vision"}
    BY DEF Filled, FormValues
  <2>3. w.vless_flow \in FieldType.vless_flow
    BY <2>1, <2>2, FieldTypes DEF GuardFlow
  <2>4. /\ w.network \in FieldType.network /\ w.security \in FieldType.security
        /\ w.finalmask_kind \in FieldType.finalmask_kind
    BY <2>1, FieldTypes DEF Shaped
  <2> QED
    BY <2>3, <2>4 DEF Guarded
<1> HIDE DEF w
<1>4. Filled(w)
  BY <1>1, <1>2, <1>3, ChangedIsFilled
<1> QED
  BY <1>2, <1>4 DEF w

LEMMA SettleTyped ==
    ASSUME NEW v, NEW m, Filled(v)
    PROVE  Filled(Settle(v, m)) /\ Changed(Settle(v, m), v, Guarded)
<1> DEFINE once  == UseProtocolGuards(v, m)
           twice == UseProtocolGuards(once, m)
           final == UseProtocolGuards(twice, m)
<1>0. Settle(v, m) = final
  BY DEF Settle
<1>1. Filled(once) /\ Changed(once, v, Guarded)
  BY PassTyped
<1> HIDE DEF once
<1>2. Filled(twice) /\ Changed(twice, once, Guarded)
  BY <1>1, PassTyped
<1> HIDE DEF twice
<1>3. Filled(final) /\ Changed(final, twice, Guarded)
  BY <1>2, PassTyped
<1> HIDE DEF final
<1> QED
  BY <1>0, <1>1, <1>2, <1>3 DEF Changed

\* Where the layers are legal a pass moves the mask alone, and not even that
\* where the matrix allows it or has not answered.
LEMMA PassMoves ==
    ASSUME NEW v, NEW m, Filled(v), LegalLayers(v)
    PROVE  LET w == UseProtocolGuards(v, m)
           IN /\ Filled(w) /\ LegalLayers(w)
              /\ Changed(w, v, {"finalmask_kind"})
              /\ (m = "known" => LegalMask(v)) => (Changed(w, v, {}) /\ (m = "known" => LegalMask(w)))
<1> DEFINE w == UseProtocolGuards(v, m)
<1>1. Filled(w) /\ Changed(w, v, Guarded) /\ Shaped(v)
  BY PassTyped, FilledIsShaped
<1>2. /\ LegalLayers(w)
      /\ w.protocol_kind = v.protocol_kind /\ w.network = v.network /\ w.security = v.security
      /\ w.finalmask_kind = FinalMaskGuard(m, v.finalmask_kind,
                                MaskTransport(v.protocol_kind, v.network), v.security)
      /\ w.vless_flow = GuardFlow(v)
  BY <1>1, PassLegal, GuardFields
<1> HIDE DEF w
<1>3. w.vless_flow = v.vless_flow
  <2>1. v.vless_flow \in {"none", "vision"}
    BY DEF Filled, FormValues
  <2> QED
    BY <1>2, <2>1 DEF GuardFlow, HasFlow, LegalLayers
<1>4. Changed(w, v, {"finalmask_kind"})
  BY <1>1, <1>2, <1>3 DEF Changed, Guarded
<1>5. ASSUME m = "known" => LegalMask(v) PROVE w.finalmask_kind = v.finalmask_kind
  BY <1>2, <1>5 DEF LegalMask, FinalMaskGuard, AllowedFinalMasks
<1>6. ASSUME m = "known" => LegalMask(v)
      PROVE  Changed(w, v, {}) /\ (m = "known" => LegalMask(w))
  <2>1. w.finalmask_kind = v.finalmask_kind
    BY <1>5, <1>6
  <2> QED
    BY <1>2, <1>4, <1>6, <2>1 DEF Changed, LegalMask
<1> QED
  BY <1>1, <1>2, <1>4, <1>6 DEF w

LEMMA SettleMoves ==
    ASSUME NEW v, NEW m, Filled(v), LegalLayers(v)
    PROVE  /\ Changed(Settle(v, m), v, {"finalmask_kind"})
           /\ (m = "known" => LegalMask(v)) => Changed(Settle(v, m), v, {})
<1> DEFINE once  == UseProtocolGuards(v, m)
           twice == UseProtocolGuards(once, m)
           final == UseProtocolGuards(twice, m)
<1>0. Settle(v, m) = final
  BY DEF Settle
<1>1. /\ Filled(once) /\ LegalLayers(once)
      /\ Changed(once, v, {"finalmask_kind"})
      /\ (m = "known" => LegalMask(v)) => (Changed(once, v, {}) /\ (m = "known" => LegalMask(once)))
  BY PassMoves
<1> HIDE DEF once
<1>2. /\ Filled(twice) /\ LegalLayers(twice)
      /\ Changed(twice, once, {"finalmask_kind"})
      /\ (m = "known" => LegalMask(once)) => (Changed(twice, once, {}) /\ (m = "known" => LegalMask(twice)))
  BY <1>1, PassMoves
<1> HIDE DEF twice
<1>3. /\ Changed(final, twice, {"finalmask_kind"})
      /\ (m = "known" => LegalMask(twice)) => Changed(final, twice, {})
  BY <1>2, PassMoves
<1> HIDE DEF final
<1> QED
  BY <1>0, <1>1, <1>2, <1>3 DEF Changed

LEMMA Toggles ==
    ASSUME NEW S, NEW set \in SUBSET S, NEW x \in S
    PROVE  Toggled(set, x) \in SUBSET S
BY DEF Toggled

\* The selectors other layers depend on.
Shared == {"protocol_kind", "network", "security", "vless_flow"}

LayerFields ==
    [protocol |-> ProtocolFields, transport |-> TransportFields, security |-> SecurityFields,
     sniffing |-> {"sniffing"}, sockopt |-> {"sockopt"}, finalmask |-> MaskFields]

Own(l) == LayerFields[l] \ Shared

LEMMA Owns ==
    /\ {"encryption_mode", "encryption_auth", "encryption_keys", "fallbacks", "wg_keys", "wg_mtu"}
           \subseteq Own("protocol")
    /\ {"xhttp_mode", "uplink_get", "headers", "quic", "masq_kind"} \subseteq Own("transport")
    /\ {"reality_keys", "tls_certificates", "tls_alpn", "tls_fingerprint"} \subseteq Own("security")
    /\ MaskFields \subseteq Own("finalmask")
    /\ "sniffing" \in Own("sniffing") /\ "sockopt" \in Own("sockopt")
    /\ \A l \in Layers : Own(l) \subseteq Fields /\ LayerFields[l] \subseteq Fields
    /\ Shared \subseteq Fields /\ MaskFields \subseteq Fields
BY DEF Own, LayerFields, Shared, Layers, Fields, ProtocolFields, TransportFields, SecurityFields,
       MaskFields, ListFields

\* One field of the store, given a value it may have.
Put(v, n, f) == \E x \in FieldType[f] : n = [v EXCEPT ![f] = x] /\ (f = "noise_items" => x # {})

LEMMA PutIsOwn ==
    ASSUME NEW v, Filled(v), NEW n, NEW l \in Layers, NEW f \in Own(l), Put(v, n, f)
    PROVE  Filled(n) /\ Changed(n, v, Own(l))
<1>1. f \in Fields
  BY Owns
<1>2. PICK x \in FieldType[f] : n = [v EXCEPT ![f] = x] /\ (f = "noise_items" => x # {})
  BY DEF Put
<1>3. Filled(n) /\ Changed(n, v, {f})
  BY <1>1, <1>2, OneField
<1> QED
  BY <1>3, ChangedMore
LEMMA EncryptionEditIsOwn ==
    ASSUME NEW v, Filled(v), NEW n \in VlessEncryptionSection(v)
    PROVE  Filled(n) /\ Changed(n, v, Own("protocol"))
<1>0. "protocol" \in Layers
  BY DEF Layers
<1>1. CASE n = [v EXCEPT !.encryption_mode = "none"]
  <2>1. Put(v, n, "encryption_mode")
    BY <1>1, FieldTypes DEF Put
  <2> QED
    BY <1>0, <2>1, Owns, PutIsOwn
<1>2. ASSUME NEW a \in Auths, NEW k \in {v.encryption_keys, a},
             n = [v EXCEPT !.encryption_mode = "mlkem768x25519plus", !.encryption_auth = a,
                           !.encryption_keys = k]
      PROVE  Filled(n) /\ Changed(n, v, Own("protocol"))
  <2> DEFINE F == {"encryption_mode", "encryption_auth", "encryption_keys"}
  <2>1. F \subseteq Own("protocol") /\ F \subseteq Fields
    BY <1>0, Owns
  <2>2. DOMAIN v = Fields
    BY FormHas DEF Filled
  <2>3. Changed(n, v, F)
    BY <1>2, <2>1, <2>2 DEF Changed
  <2>4. /\ n.encryption_mode = "mlkem768x25519plus" /\ n.encryption_auth = a
        /\ n.encryption_keys = k
    BY <1>2, <2>1, <2>2
  <2>5. k \in {"blank"} \cup Auths
    BY <1>2 DEF Filled, FormValues
  <2>6. \A f \in F : n[f] \in FieldType[f]
    BY <2>4, <2>5, FieldTypes
  <2> QED
    BY <2>1, <2>3, <2>6, ChangedIsFilled, ChangedMore
<1>3. CASE \E a \in Auths :
              n = [v EXCEPT !.encryption_mode = "mlkem768x25519plus", !.encryption_auth = a,
                            !.encryption_keys = IF v.encryption_auth = a /\ v.encryption_keys # "blank"
                                                THEN @ ELSE a]
  <2>1. PICK a \in Auths :
              n = [v EXCEPT !.encryption_mode = "mlkem768x25519plus", !.encryption_auth = a,
                            !.encryption_keys = IF v.encryption_auth = a /\ v.encryption_keys # "blank"
                                                THEN @ ELSE a]
    BY <1>3
  <2> DEFINE k == IF v.encryption_auth = a /\ v.encryption_keys # "blank" THEN v.encryption_keys ELSE a
  <2>2. n = [v EXCEPT !.encryption_mode = "mlkem768x25519plus", !.encryption_auth = a,
                      !.encryption_keys = k]
    BY <2>1
  <2>3. k \in {v.encryption_keys, a}
    OBVIOUS
  <2> HIDE DEF k
  <2> QED
    BY <1>2, <2>2, <2>3
<1> QED
  BY <1>1, <1>3 DEF VlessEncryptionSection

LEMMA ProtocolEditIsOwn ==
    ASSUME NEW v, Filled(v), NEW n \in FallbacksTab(v) \cup WireguardTab(v)
    PROVE  Filled(n) /\ Changed(n, v, Own("protocol"))
<1>0. "protocol" \in Layers
  BY DEF Layers
<1>1. Put(v, n, "fallbacks") \/ Put(v, n, "wg_keys") \/ Put(v, n, "wg_mtu")
  <2>1. CASE n \in FallbacksTab(v)
    BY <2>1, FieldTypes DEF FallbacksTab, Put
  <2>2. CASE n \in WireguardTab(v)
    BY <2>2, FieldTypes DEF WireguardTab, Put
  <2> QED
    BY <2>1, <2>2
<1> QED
  BY <1>0, <1>1, Owns, PutIsOwn

LEMMA TransportEditIsOwn ==
    ASSUME NEW v, Filled(v), NEW n \in WebSocketTab(v) \cup XhttpTab(v) \cup HysteriaTab(v)
    PROVE  Filled(n) /\ Changed(n, v, Own("transport"))
<1>0. "transport" \in Layers
  BY DEF Layers
<1>a. v.headers \in SUBSET {"blank", "named"} /\ v.quic \in SUBSET {"tuned", "hop_ports", "hop_interval"}
  BY DEF Filled, FormValues
<1>1. CASE n \in HeaderListField(v)
  <2>1. PICK h \in {"blank", "named"} : n = [v EXCEPT !.headers = Toggled(v.headers, h)]
    BY <1>1 DEF HeaderListField
  <2>2. Toggled(v.headers, h) \in SUBSET {"blank", "named"}
    BY <1>a, Toggles
  <2>3. Put(v, n, "headers")
    <3>1. Toggled(v.headers, h) \in FieldType.headers
      BY <2>2, FieldTypes
    <3> QED
      BY <2>1, <3>1 DEF Put
  <2> QED
    BY <1>0, <2>3, Owns, PutIsOwn
<1>2. CASE n \in QuicTuning(v)
  <2>1. PICK q \in {"tuned", "hop_ports", "hop_interval"} : n = [v EXCEPT !.quic = Toggled(v.quic, q)]
    BY <1>2 DEF QuicTuning
  <2>2. Toggled(v.quic, q) \in SUBSET {"tuned", "hop_ports", "hop_interval"}
    BY <1>a, Toggles
  <2>3. Put(v, n, "quic")
    <3>1. Toggled(v.quic, q) \in FieldType.quic
      BY <2>2, FieldTypes
    <3> QED
      BY <2>1, <3>1 DEF Put
  <2> QED
    BY <1>0, <2>3, Owns, PutIsOwn
<1>3. CASE \E m \in {"auto", "packet-up"} : n = [v EXCEPT !.xhttp_mode = m]
  <2>1. Put(v, n, "xhttp_mode")
    BY <1>3, FieldTypes DEF Put
  <2> QED
    BY <1>0, <2>1, Owns, PutIsOwn
<1>4. CASE \E b \in BOOLEAN : n = [v EXCEPT !.uplink_get = b]
  <2>1. Put(v, n, "uplink_get")
    BY <1>4, FieldTypes DEF Put
  <2> QED
    BY <1>0, <2>1, Owns, PutIsOwn
<1>5. CASE \E k \in {"notfound", "file", "string"} : n = [v EXCEPT !.masq_kind = k]
  <2>1. Put(v, n, "masq_kind")
    BY <1>5, FieldTypes DEF Put
  <2> QED
    BY <1>0, <2>1, Owns, PutIsOwn
<1>6. CASE n \in WebSocketTab(v)
  BY <1>1, <1>6 DEF WebSocketTab
<1>7. CASE n \in XhttpTab(v)
  BY <1>1, <1>2, <1>3, <1>4, <1>7 DEF XhttpTab
<1>8. CASE n \in HysteriaTab(v)
  BY <1>2, <1>5, <1>8 DEF HysteriaTab
<1> QED
  BY <1>6, <1>7, <1>8

LEMMA SecurityEditIsOwn ==
    ASSUME NEW v, Filled(v), NEW n \in RealityTab(v) \cup TlsTab(v)
    PROVE  Filled(n) /\ Changed(n, v, Own("security"))
<1>0. "security" \in Layers
  BY DEF Layers
<1>1. CASE n \in RealityTab(v)
  <2>1. Put(v, n, "reality_keys")
    BY <1>1, FieldTypes DEF RealityTab, Put
  <2> QED
    BY <1>0, <2>1, Owns, PutIsOwn
<1>2. CASE \E c \in {"half", "full"} : n = [v EXCEPT !.tls_certificates = Toggled(v.tls_certificates, c)]
  <2>1. PICK c \in {"half", "full"} : n = [v EXCEPT !.tls_certificates = Toggled(v.tls_certificates, c)]
    BY <1>2
  <2>2. v.tls_certificates \in SUBSET {"half", "full"}
    BY DEF Filled, FormValues
  <2>3. Toggled(v.tls_certificates, c) \in SUBSET {"half", "full"}
    BY <2>2, Toggles
  <2>4. Put(v, n, "tls_certificates")
    <3>1. Toggled(v.tls_certificates, c) \in FieldType.tls_certificates
      BY <2>3, FieldTypes
    <3> QED
      BY <2>1, <3>1 DEF Put
  <2> QED
    BY <1>0, <2>4, Owns, PutIsOwn
<1>3. CASE \E a \in {{}, {"h1"}, {"h1", "h2"}, {"h3"}} : n = [v EXCEPT !.tls_alpn = a]
  <2>1. PICK a \in {{}, {"h1"}, {"h1", "h2"}, {"h3"}} : n = [v EXCEPT !.tls_alpn = a]
    BY <1>3
  <2>2. a \in SUBSET {"h1", "h2", "h3"}
    BY <2>1
  <2>3. Put(v, n, "tls_alpn")
    <3>1. a \in FieldType.tls_alpn
      BY <2>2, FieldTypes
    <3> QED
      BY <2>1, <3>1 DEF Put
  <2> QED
    BY <1>0, <2>3, Owns, PutIsOwn
<1>4. CASE \E f \in {"chrome", "firefox"} : n = [v EXCEPT !.tls_fingerprint = f]
  <2>1. Put(v, n, "tls_fingerprint")
    BY <1>4, FieldTypes DEF Put
  <2> QED
    BY <1>0, <2>1, Owns, PutIsOwn
<1> QED
  BY <1>1, <1>2, <1>3, <1>4 DEF TlsTab

LEMMA MaskEditIsOwn ==
    ASSUME NEW v, Filled(v), NEW n \in MaskFieldEdits(v)
    PROVE  Filled(n) /\ Changed(n, v, Own("finalmask"))
<1>0. "finalmask" \in Layers
  BY DEF Layers
<1>1. CASE n \in SudokuEdits(v)
  <2>1. PICK t \in SUBSET {"blank", "table"} : n = [v EXCEPT !.sudoku_tables = t]
    BY <1>1 DEF SudokuEdits
  <2>2. t \in FieldType.sudoku_tables
    BY FieldTypes
  <2>3. Put(v, n, "sudoku_tables")
    BY <2>1, <2>2 DEF Put
  <2> QED
    BY <1>0, <2>3, Owns, PutIsOwn DEF MaskFields
<1>2. CASE n \in FragmentEdits(v)
  <2>1. Put(v, n, "packets_mode") \/ Put(v, n, "packets_from") \/ Put(v, n, "packets_to")
    BY <1>2, FieldTypes DEF FragmentEdits, Put
  <2> QED
    BY <1>0, <2>1, Owns, PutIsOwn DEF MaskFields
<1>3. CASE n \in NoiseEdits(v)
  <2>1. PICK items \in SUBSET NoiseItems : items # {} /\ n = [v EXCEPT !.noise_items = items]
    <3>1. v.noise_items \in SUBSET NoiseItems
      BY DEF Filled, FormValues
    <3>2. CASE \E i \in v.noise_items, j \in {"blank", "literal", "random"} :
                  n = [v EXCEPT !.noise_items = (@ \ {i}) \cup {j}]
      <4>1. PICK i \in v.noise_items, j \in {"blank", "literal", "random"} :
                  n = [v EXCEPT !.noise_items = (@ \ {i}) \cup {j}]
        BY <3>2
      <4>2. n = [v EXCEPT !.noise_items = (v.noise_items \ {i}) \cup {j}]
        BY <4>1
      <4>3. (v.noise_items \ {i}) \cup {j} \in SUBSET NoiseItems
        BY <3>1 DEF NoiseItems
      <4> QED
        BY <4>2, <4>3
    <3>3. CASE n = [v EXCEPT !.noise_items = (@ \ {"random"}) \cup {"both"}]
      <4>2. n = [v EXCEPT !.noise_items = (v.noise_items \ {"random"}) \cup {"both"}]
        BY <3>3
      <4>3. (v.noise_items \ {"random"}) \cup {"both"} \in SUBSET NoiseItems
        BY <3>1 DEF NoiseItems
      <4> QED
        BY <4>2, <4>3
    <3>4. CASE n = [v EXCEPT !.noise_items = @ \cup {"blank"}]
      <4>2. n = [v EXCEPT !.noise_items = v.noise_items \cup {"blank"}]
        BY <3>4
      <4>3. v.noise_items \cup {"blank"} \in SUBSET NoiseItems
        BY <3>1 DEF NoiseItems
      <4> QED
        BY <4>2, <4>3
    <3> QED
      BY <1>3, <3>2, <3>3, <3>4 DEF NoiseEdits
  <2>2. Put(v, n, "noise_items")
    BY <2>1, FieldTypes DEF Put
  <2> QED
    BY <1>0, <2>2, Owns, PutIsOwn DEF MaskFields
<1>4. CASE n \in XmcEdits(v)
  <2>1. PICK profiles \in SUBSET XmcProfiles : n = [v EXCEPT !.xmc_profiles = profiles]
    <3>0. v.xmc_profiles \in SUBSET XmcProfiles
      BY DEF Filled, FormValues
    <3>1. /\ v.xmc_profiles \cup {"blank"} \in SUBSET XmcProfiles
          /\ (v.xmc_profiles \ {"blank"}) \cup {"named"} \in SUBSET XmcProfiles
          /\ \A i : (v.xmc_profiles \ {i}) \cup {"resolved"} \in SUBSET XmcProfiles
          /\ (v.xmc_profiles \ {"resolved"}) \cup {"renamed"} \in SUBSET XmcProfiles
      BY <3>0 DEF XmcProfiles
    <3>2. \/ n = [v EXCEPT !.xmc_profiles = v.xmc_profiles \cup {"blank"}]
          \/ n = [v EXCEPT !.xmc_profiles = (v.xmc_profiles \ {"blank"}) \cup {"named"}]
          \/ \E i : n = [v EXCEPT !.xmc_profiles = (v.xmc_profiles \ {i}) \cup {"resolved"}]
          \/ n = [v EXCEPT !.xmc_profiles = (v.xmc_profiles \ {"resolved"}) \cup {"renamed"}]
      BY <1>4 DEF XmcEdits
    <3>3. CASE n = [v EXCEPT !.xmc_profiles = v.xmc_profiles \cup {"blank"}]
      BY <3>1, <3>3
    <3>4. CASE n = [v EXCEPT !.xmc_profiles = (v.xmc_profiles \ {"blank"}) \cup {"named"}]
      BY <3>1, <3>4
    <3>5. CASE \E i : n = [v EXCEPT !.xmc_profiles = (v.xmc_profiles \ {i}) \cup {"resolved"}]
      <4>1. PICK i : n = [v EXCEPT !.xmc_profiles = (v.xmc_profiles \ {i}) \cup {"resolved"}]
        BY <3>5
      <4>2. (v.xmc_profiles \ {i}) \cup {"resolved"} \in SUBSET XmcProfiles
        BY <3>1
      <4> QED
        BY <4>1, <4>2
    <3>6. CASE n = [v EXCEPT !.xmc_profiles = (v.xmc_profiles \ {"resolved"}) \cup {"renamed"}]
      BY <3>1, <3>6
    <3> QED
      BY <3>2, <3>3, <3>4, <3>5, <3>6
  <2>2. Put(v, n, "xmc_profiles")
    <3>1. profiles \in FieldType.xmc_profiles
      BY FieldTypes
    <3> QED
      BY <2>1, <3>1 DEF Put
  <2> QED
    BY <1>0, <2>2, Owns, PutIsOwn DEF MaskFields
<1> QED
  BY <1>1, <1>2, <1>3, <1>4 DEF MaskFieldEdits

LEMMA ListEditIsOwn ==
    ASSUME NEW v, Filled(v), NEW n
    PROVE  /\ n \in SockoptTab(v) => Filled(n) /\ Changed(n, v, Own("sockopt"))
           /\ n \in SniffingPart(v) => Filled(n) /\ Changed(n, v, Own("sniffing"))
<1>0. "sockopt" \in Layers /\ "sniffing" \in Layers
  BY DEF Layers
<1>a. v.sockopt \in SUBSET {"blank", "entry"} /\ v.sniffing \in SUBSET {"blank", "entry"}
  BY DEF Filled, FormValues
<1>1. ASSUME n \in SockoptTab(v) PROVE Filled(n) /\ Changed(n, v, Own("sockopt"))
  <2>1. PICK e \in {"blank", "entry"} : n = [v EXCEPT !.sockopt = Toggled(v.sockopt, e)]
    BY <1>1 DEF SockoptTab
  <2>2. Toggled(v.sockopt, e) \in SUBSET {"blank", "entry"}
    BY <1>a, Toggles
  <2>3. Put(v, n, "sockopt")
    <3>1. Toggled(v.sockopt, e) \in FieldType.sockopt
      BY <2>2, FieldTypes
    <3> QED
      BY <2>1, <3>1 DEF Put
  <2> QED
    BY <1>0, <2>3, Owns, PutIsOwn
<1>2. ASSUME n \in SniffingPart(v) PROVE Filled(n) /\ Changed(n, v, Own("sniffing"))
  <2>1. PICK e \in {"blank", "entry"} : n = [v EXCEPT !.sniffing = Toggled(v.sniffing, e)]
    BY <1>2 DEF SniffingPart
  <2>2. Toggled(v.sniffing, e) \in SUBSET {"blank", "entry"}
    BY <1>a, Toggles
  <2>3. Put(v, n, "sniffing")
    <3>1. Toggled(v.sniffing, e) \in FieldType.sniffing
      BY <2>2, FieldTypes
    <3> QED
      BY <2>1, <3>1 DEF Put
  <2> QED
    BY <1>0, <2>3, Owns, PutIsOwn
<1> QED
  BY <1>1, <1>2

LEMMA MaskKindEditIsOwn ==
    ASSUME NEW v, Filled(v), NEW n \in FinalMaskKind(v)
    PROVE  Filled(n) /\ Changed(n, v, Own("finalmask"))
<1>1. PICK k \in AllowedFinalMasks(matrix, MaskTransport(v.protocol_kind, v.network), v.security) :
          n = [v EXCEPT !.finalmask_kind = k]
  BY DEF FinalMaskKind, FinalMaskKindEdits
<1>2. k \in MaskKinds
  BY DEF AllowedFinalMasks, SupportedKinds, MaskKinds
<1>3. Put(v, n, "finalmask_kind")
  BY <1>1, <1>2, FieldTypes DEF Put
<1>4. "finalmask" \in Layers /\ "finalmask_kind" \in MaskFields
  BY DEF Layers, MaskFields
<1> QED
  BY <1>3, <1>4, Owns, PutIsOwn

\* The general tab edits one of the shared selectors.
LEMMA GeneralEditIsShared ==
    ASSUME NEW v, Filled(v), NEW n \in GeneralTab(v)
    PROVE  Filled(n) /\ Changed(n, v, Shared)
<1>0. Shaped(v)
  BY FilledIsShaped
<1>1. ASSUME NEW f \in Shared, Put(v, n, f)
      PROVE  Filled(n) /\ Changed(n, v, Shared)
  <2>1. PICK x \in FieldType[f] : n = [v EXCEPT ![f] = x] /\ (f = "noise_items" => x # {})
    BY <1>1 DEF Put
  <2>2. f \in Fields
    BY Owns
  <2>3. Filled(n) /\ Changed(n, v, {f})
    BY <2>1, <2>2, OneField
  <2> QED
    BY <2>3, ChangedMore
<1>2. CASE \E p \in Protocols : n = [v EXCEPT !.protocol_kind = p]
  <2>1. Put(v, n, "protocol_kind")
    BY <1>2, FieldTypes DEF Put
  <2> QED
    BY <1>1, <2>1 DEF Shared
<1>3. CASE \E t \in AllowedTransports(v.protocol_kind) :
              /\ Cardinality(AllowedTransports(v.protocol_kind)) > 1
              /\ n = [v EXCEPT !.network = t]
  <2>1. PICK t \in AllowedTransports(v.protocol_kind) :
              /\ Cardinality(AllowedTransports(v.protocol_kind)) > 1
              /\ n = [v EXCEPT !.network = t]
    BY <1>3
  <2>2. t \in Networks
    <3>1. v.protocol_kind = "vless" => t \in Networks
      BY DEF AllowedTransports
    <3>2. Cardinality({"hysteria"}) = 1 /\ Cardinality({"tcp"}) = 1
      BY FS_Singleton
    <3>3. v.protocol_kind # "vless" => AllowedTransports(v.protocol_kind) \in {{"hysteria"}, {"tcp"}}
      BY <1>0 DEF AllowedTransports, Shaped, Protocols
    <3> QED
      BY <2>1, <3>1, <3>2, <3>3
  <2>3. Put(v, n, "network")
    BY <2>1, <2>2, FieldTypes DEF Put
  <2> QED
    BY <1>1, <2>3 DEF Shared
<1>4. CASE \E s \in AllowedSecurities(v.protocol_kind) : n = [v EXCEPT !.security = s]
  <2>1. AllowedSecurities(v.protocol_kind) \subseteq Securities
    BY <1>0 DEF AllowedSecurities, Shaped, Protocols, Securities
  <2>2. Put(v, n, "security")
    BY <1>4, <2>1, FieldTypes DEF Put
  <2> QED
    BY <1>1, <2>2 DEF Shared
<1>5. CASE \E f \in {"none"} \cup Some(v.network = "tcp", "vision") : n = [v EXCEPT !.vless_flow = f]
  <2>1. {"none"} \cup Some(v.network = "tcp", "vision") \subseteq {"none", "vision"}
    BY DEF Some
  <2>2. Put(v, n, "vless_flow")
    BY <1>5, <2>1, FieldTypes DEF Put
  <2> QED
    BY <1>1, <2>2 DEF Shared
<1> QED
  BY <1>2, <1>3, <1>4, <1>5 DEF GeneralTab
-----------------------------------------------------------------------------
(* The invariant of an edit: what was not touched is what hydration put     *)
(* there. A shared selector moves fields of other layers, so it stands as   *)
(* hydrated until the general tab, which touches the whole stack, edits it. *)

Kept ==
    (editing /\ stage \in {"opening", "open"}) =>
        \A row \in stored :
            LET w == InboundToForm(row)
            IN /\ \A l \in Layers \ touched : \A f \in LayerFields[l] : form[f] = w[f]
               /\ ~(Stack \subseteq touched) => \A f \in Shared : form[f] = w[f]

Typed ==
    /\ Filled(form)
    /\ \A row \in stored : row \in RowType /\ Builds(row)
    /\ stored = {} \/ \E row \in stored : stored = {row}
    /\ editing => stored # {}
    /\ stage \in {"closed", "opening", "open"}
    /\ matrix \in {"pending", "known", "failed"}
    /\ touched \subseteq Layers

\* The same selectors are as legal.
LEMMA LegalReads ==
    ASSUME NEW v, NEW w, \A f \in Shared : v[f] = w[f]
    PROVE  /\ LegalLayers(w) => LegalLayers(v)
           /\ LegalMask(w) /\ v.finalmask_kind = w.finalmask_kind => LegalMask(v)
<1>1. /\ v.protocol_kind = w.protocol_kind /\ v.network = w.network
      /\ v.security = w.security /\ v.vless_flow = w.vless_flow
  BY DEF Shared
<1> QED
  BY <1>1 DEF LegalLayers, LegalMask

\* An edit is one of the general tab's, which touches the stack, or one that
\* leaves the shared selectors and stays within the layer it touches.
LEMMA EditIsOwn ==
    ASSUME Filled(form), Edit
    PROVE  \E n : /\ Filled(n) /\ form' = Settle(n, matrix)
                  /\ UNCHANGED <<stored, stage, editing, matrix>> /\ stage = "open"
                  /\ \/ touched' = touched \cup Stack /\ Changed(n, form, Shared)
                     \/ \E l \in Layers : touched' = touched \cup {l} /\ Changed(n, form, Own(l))
<1>0. Layers = {"protocol", "transport", "security", "sniffing", "sockopt", "finalmask"}
  BY DEF Layers
<1>1. CASE EditGeneral
  BY <1>1, GeneralEditIsShared DEF EditGeneral, Type
<1>2. CASE EditEncryption
  BY <1>0, <1>2, EncryptionEditIsOwn DEF EditEncryption, Type
<1>3. CASE EditMaskKind
  BY <1>0, <1>3, MaskKindEditIsOwn DEF EditMaskKind, Type
<1>4. CASE EditProtocol
  BY <1>0, <1>4, ProtocolEditIsOwn DEF EditProtocol, Type
<1>5. CASE EditTransport
  BY <1>0, <1>5, TransportEditIsOwn DEF EditTransport, Type
<1>6. CASE EditSecurity
  BY <1>0, <1>6, SecurityEditIsOwn DEF EditSecurity, Type
<1>7. CASE EditMask
  BY <1>0, <1>7, MaskEditIsOwn DEF EditMask, Type
<1>8. CASE EditSockopt
  BY <1>0, <1>8, ListEditIsOwn DEF EditSockopt, Type
<1>9. CASE EditSniffing
  BY <1>0, <1>9, ListEditIsOwn DEF EditSniffing, Type
<1> QED
  BY <1>1, <1>2, <1>3, <1>4, <1>5, <1>6, <1>7, <1>8, <1>9 DEF Edit

LEMMA InitTyped == Init => Typed /\ Kept
<1> SUFFICES ASSUME Init PROVE Typed /\ Kept
  OBVIOUS
<1>1. \A row \in stored : row \in RowType /\ Builds(row)
  BY ApiRowsTyped DEF Init
<1> QED
  BY <1>1, DefaultsFilled DEF Init, Typed, Kept

LEMMA BodyTyped ==
    ASSUME Typed, Accepted
    PROVE  Body \in RowType /\ Builds(Body)
<1>1. FormToUpdate(form) \in RowType
  BY BuiltIsTyped DEF Typed
<1>2. CASE editing
  <2>1. (CHOOSE r \in stored : TRUE) \in stored
    BY <1>2 DEF Typed
  <2>2. (CHOOSE r \in stored : TRUE) \in RowType
    BY <2>1 DEF Typed
  <2> QED
    BY <1>1, <1>2, <2>2, UpdatedIsTyped DEF Accepted, Body
<1>3. CASE ~editing
  BY <1>1, <1>3, CompletedIsTyped DEF Accepted, Body
<1> QED
  BY <1>2, <1>3

LEMMA StepTyped == IInv /\ Typed /\ [Next]_vars => Typed'
<1> SUFFICES ASSUME IInv, Typed, [Next]_vars PROVE Typed'
  OBVIOUS
<1>0. /\ Filled(form) /\ Filled(DEFAULTS) /\ touched \subseteq Layers
      /\ \A row \in stored : row \in RowType /\ ValidateLayers(row)
  BY DefaultsFilled DEF Typed, IInv
<1>1. CASE OpenEdit
  <2>1. PICK row \in stored : form' = InboundToForm(row)
    BY <1>1 DEF OpenEdit
  <2>2. Filled(form')
    BY <1>0, <2>1, RowSurvives
  <2> QED
    BY <1>1, <2>1, <2>2 DEF OpenEdit, Typed
<1>2. CASE OpenCreate
  BY <1>0, <1>2 DEF OpenCreate, Typed
<1>3. CASE Register
  <2>1. Filled(form')
    BY <1>0, <1>3, SettleTyped DEF Register, Watched
  <2> QED
    BY <1>3, <2>1 DEF Register, Typed
<1>4. CASE Cancel
  BY <1>0, <1>4 DEF Cancel, Typed
<1>5. CASE MatrixAnswers
  <2>1. Filled(form')
    BY <1>0, <1>5, SettleTyped DEF MatrixAnswers
  <2> QED
    BY <1>5, <2>1 DEF MatrixAnswers, Typed
<1>6. CASE MatrixFails
  BY <1>6 DEF MatrixFails, Typed
<1>7. CASE Edit
  <2>1. PICK n : /\ Filled(n) /\ form' = Settle(n, matrix)
                 /\ UNCHANGED <<stored, stage, editing, matrix>>
                 /\ touched' = touched \cup Stack \/ \E l \in Layers : touched' = touched \cup {l}
    BY <1>0, <1>7, EditIsOwn
  <2>2. Filled(form')
    BY <2>1, SettleTyped
  <2>3. touched' \subseteq Layers
    BY <1>0, <2>1 DEF Stack, Layers
  <2> QED
    BY <2>1, <2>2, <2>3 DEF Typed
<1>8. CASE SaveAccepted
  <2>1. Body \in RowType /\ Builds(Body)
    BY <1>8, BodyTyped DEF SaveAccepted
  <2> HIDE DEF Body
  <2> QED
    BY <1>0, <1>8, <2>1 DEF SaveAccepted, Typed
<1>9. CASE UNCHANGED vars \/ SaveRefused \/ Finished
  BY <1>9 DEF vars, SaveRefused, Finished, Typed
<1> QED
  BY <1>1, <1>2, <1>3, <1>4, <1>5, <1>6, <1>7, <1>8, <1>9 DEF Next, Edit

LEMMA StepKept == IInv /\ Typed /\ Kept /\ [Next]_vars => Kept'
<1> SUFFICES ASSUME IInv, Typed, Kept, [Next]_vars PROVE Kept'
  OBVIOUS
<1>0. Filled(form) /\ touched \subseteq Layers
  BY DEF Typed
<1>a. \A row \in stored : LegalLayers(InboundToForm(row)) /\ LegalMask(InboundToForm(row))
  BY HydratedIsLegal DEF IInv
<1>b. /\ Stack \subseteq Layers /\ {"sniffing", "sockopt"} \subseteq Layers
      /\ \A l \in Layers \ Stack : LayerFields[l] \cap (Shared \cup Guarded) = {}
      /\ \A l \in Layers : LayerFields[l] \subseteq Fields
      /\ \A l \in Layers \ {"finalmask"} : "finalmask_kind" \notin LayerFields[l]
      /\ \A l \in Layers : \A k \in Layers : k # l => LayerFields[l] \cap Own(k) = {}
      /\ \A l \in Layers : Shared \cap Own(l) = {}
      /\ "finalmask_kind" \in LayerFields["finalmask"] /\ "finalmask" \in Stack
      /\ "finalmask_kind" \notin Shared
      /\ Shared \subseteq Fields
  BY DEF Stack, Layers, LayerFields, Shared, Guarded, Own, Fields, ProtocolFields, TransportFields,
         SecurityFields, MaskFields, ListFields
<1>1. CASE OpenEdit
  BY <1>1 DEF OpenEdit, Typed, Kept
<1>2. CASE OpenCreate
  BY <1>2 DEF OpenCreate, Kept
<1>3. CASE Register
  <2>1. Changed(form', form, {})
    BY <1>0, <1>3, SettleMoves DEF Register, Watched, IInv
  <2>2. \A f \in Fields : form'[f] = form[f]
    BY <2>1 DEF Changed
  <2> QED
    BY <1>3, <1>b, <2>2 DEF Register, Kept
<1>4. CASE Cancel \/ SaveAccepted
  BY <1>4 DEF Cancel, SaveAccepted, Kept
<1>5. CASE MatrixFails \/ SaveRefused \/ Finished \/ UNCHANGED vars
  BY <1>5 DEF MatrixFails, SaveRefused, Finished, vars, Kept
\* Settling moves the mask, and only if it was touched; so does the matrix.
<1>6. ASSUME editing, stage = "open", NEW n, NEW m, Filled(n), NEW row \in stored, NEW T \in SUBSET Layers,
             \A l \in Layers \ T : \A f \in LayerFields[l] : n[f] = InboundToForm(row)[f],
             \A f \in Shared : n[f] = InboundToForm(row)[f]
      PROVE  LET s == Settle(n, m)
                 w == InboundToForm(row)
             IN /\ \A l \in Layers \ T : \A f \in LayerFields[l] : s[f] = w[f]
                /\ \A f \in Shared : s[f] = w[f]
  <2> DEFINE s == Settle(n, m)
             w == InboundToForm(row)
  <2>1. LegalLayers(w) /\ LegalMask(w)
    BY <1>a, <1>6
  <2>2. \A f \in Shared : n[f] = w[f]
    BY <1>6
  <2>3. \A l \in Layers \ T : \A f \in LayerFields[l] : n[f] = w[f]
    BY <1>6
  <2> HIDE DEF w
  <2>4. LegalLayers(n)
    BY <2>1, <2>2, LegalReads
  <2>5. Changed(s, n, {"finalmask_kind"})
    BY <1>6, <2>4, SettleMoves
  <2>6. ASSUME "finalmask" \notin T PROVE Changed(s, n, {})
    <3>1. n.finalmask_kind = w.finalmask_kind
      BY <1>b, <2>3, <2>6
    <3>2. LegalMask(n)
      BY <2>1, <2>2, <3>1, LegalReads
    <3> QED
      BY <1>6, <2>4, <3>2, SettleMoves
  <2> HIDE DEF s
  <2>7. \A f \in Shared : s[f] = w[f]
    BY <1>b, <2>2, <2>5 DEF Changed
  <2>8. ASSUME NEW l \in Layers \ T, NEW f \in LayerFields[l] PROVE s[f] = w[f]
    <3>1. f \in Fields
      BY <1>b
    <3>2. CASE l = "finalmask"
      BY <2>3, <2>6, <3>1, <3>2 DEF Changed
    <3>3. CASE l # "finalmask"
      BY <1>b, <2>3, <2>5, <3>1, <3>3 DEF Changed
    <3> QED
      BY <3>2, <3>3
  <2> QED
    BY <2>7, <2>8 DEF s, w
<1>7. CASE MatrixAnswers
  <2>1. CASE stage # "open"
    BY <1>7, <2>1 DEF MatrixAnswers, Kept
  <2>2. CASE stage = "open"
    <3>1. SUFFICES ASSUME editing, NEW row \in stored
                   PROVE  LET w == InboundToForm(row)
                          IN /\ \A l \in Layers \ touched : \A f \in LayerFields[l] : form'[f] = w[f]
                             /\ ~(Stack \subseteq touched) => \A f \in Shared : form'[f] = w[f]
      BY <1>7, <2>2 DEF MatrixAnswers, Kept
    <3> DEFINE w == InboundToForm(row)
    <3>2. /\ \A l \in Layers \ touched : \A f \in LayerFields[l] : form[f] = w[f]
          /\ ~(Stack \subseteq touched) => \A f \in Shared : form[f] = w[f]
      BY <2>2, <3>1 DEF Kept
    <3>3. form' = Settle(form, "known")
      BY <1>7, <2>2 DEF MatrixAnswers
    <3>4. CASE ~(Stack \subseteq touched)
      BY <1>0, <1>6, <2>2, <3>1, <3>2, <3>3, <3>4
    <3>5. CASE Stack \subseteq touched
      <4>1. Changed(form', form, Guarded)
        BY <1>0, <3>3, SettleTyped
      <4> HIDE DEF w
      <4>2. \A l \in Layers \ touched : \A f \in LayerFields[l] : form'[f] = form[f]
        BY <1>b, <3>5, <4>1 DEF Changed
      <4> QED
        BY <3>2, <3>5, <4>2 DEF w
    <3> QED
      BY <3>4, <3>5
  <2> QED
    BY <2>1, <2>2
<1>8. CASE Edit
  <2>1. PICK n : /\ Filled(n) /\ form' = Settle(n, matrix)
                 /\ UNCHANGED <<stored, stage, editing, matrix>> /\ stage = "open"
                 /\ \/ touched' = touched \cup Stack /\ Changed(n, form, Shared)
                    \/ \E l \in Layers : touched' = touched \cup {l} /\ Changed(n, form, Own(l))
    BY <1>0, <1>8, EditIsOwn
  <2>2. SUFFICES ASSUME editing, NEW row \in stored
                 PROVE  LET w == InboundToForm(row)
                        IN /\ \A l \in Layers \ touched' : \A f \in LayerFields[l] : form'[f] = w[f]
                           /\ ~(Stack \subseteq touched') => \A f \in Shared : form'[f] = w[f]
    BY <2>1 DEF Kept
  <2> DEFINE w == InboundToForm(row)
  <2>3. /\ \A l \in Layers \ touched : \A f \in LayerFields[l] : form[f] = w[f]
        /\ ~(Stack \subseteq touched) => \A f \in Shared : form[f] = w[f]
    BY <2>1, <2>2 DEF Kept
  <2>4. Changed(form', n, Guarded)
    BY <2>1, SettleTyped
  <2>5. CASE Stack \subseteq touched'
    <3> HIDE DEF w
    <3>1. \A l \in Layers \ touched' : \A f \in LayerFields[l] : n[f] = form[f]
      BY <1>b, <2>1, <2>5 DEF Changed
    <3>2. \A l \in Layers \ touched' : \A f \in LayerFields[l] : form'[f] = n[f]
      BY <1>b, <2>4, <2>5 DEF Changed
    <3>3. touched \subseteq touched'
      BY <2>1
    <3> QED
      BY <2>3, <2>5, <3>1, <3>2, <3>3 DEF w
  <2>6. CASE ~(Stack \subseteq touched')
    <3>1. PICK l \in Layers : touched' = touched \cup {l} /\ Changed(n, form, Own(l))
      BY <2>1, <2>6
    <3>2. ~(Stack \subseteq touched) /\ touched' \in SUBSET Layers
      BY <1>0, <2>6, <3>1
    <3> HIDE DEF w
    <3>3. \A f \in Shared : n[f] = w[f]
      BY <1>b, <2>3, <3>1, <3>2 DEF Changed
    <3>4. \A k \in Layers \ touched' : \A f \in LayerFields[k] : n[f] = w[f]
      BY <1>b, <2>3, <3>1 DEF Changed
    <3> QED
      BY <1>6, <2>1, <2>2, <3>2, <3>3, <3>4 DEF w
  <2> QED
    BY <2>5, <2>6
<1> QED
  BY <1>1, <1>2, <1>3, <1>4, <1>5, <1>7, <1>8 DEF Next, Edit

LEMMA SpecTyped == Spec => [](IInv /\ Typed /\ Kept)
<1>1. Init => IInv /\ Typed /\ Kept
  BY InitIInv, InitTyped
<1>2. (IInv /\ Typed /\ Kept) /\ [Next]_vars => (IInv /\ Typed /\ Kept)'
  BY StepIInv, StepTyped, StepKept
<1> QED
  BY <1>1, <1>2, PTL DEF Spec

\* The store holds form values whatever the tabs, the guards and the hydration
\* did to it, and every stored row passed the backend's rules and its build
\* (form/adapters.ts, form/registry.ts, validate_layers of api/inbounds.rs).
THEOREM TypeCorrect == Spec => []TypeOK
<1>1. IInv /\ Typed => TypeOK
  <2> SUFFICES ASSUME IInv, Typed PROVE TypeOK
    OBVIOUS
  <2>1. Cardinality(stored) <= 1
    <3>1. CASE stored = {}
      BY <3>1, FS_EmptySet
    <3>2. CASE stored # {}
      <4>1. PICK row : stored = {row}
        BY <3>2 DEF Typed
      <4>2. Cardinality({row}) = 1
        BY FS_Singleton
      <4> QED
        BY <4>1, <4>2
    <3> QED
      BY <3>1, <3>2
  <2> QED
    BY <2>1 DEF IInv, Typed, TypeOK, Filled
<1> QED
  BY <1>1, SpecTyped, PTL

\* What the form shows of a layer the operator did not touch means the same after
\* the save as before it: hydrating a row and building it back loses nothing of
\* it but the three values that have no input (Shown), whoever wrote the row,
\* whatever the guards did and whenever the matrix answered (inboundToForm
\* against formToUpdateInbound).
THEOREM UntouchedLayersSurvive == Spec => []UntouchedSurvives
<1>1. IInv /\ Typed /\ Kept => UntouchedSurvives
  <2> SUFFICES ASSUME IInv, Typed, Kept, stage = "open", editing, NEW row \in stored,
                      NEW l \in Layers \ touched
               PROVE  Effective(l, FormToUpdate(form)[l]) = Effective(l, Shown(l, row[l]))
    BY DEF UntouchedSurvives
  <2> DEFINE w == InboundToForm(row)
             F == {f \in Fields : form[f] # w[f]}
  <2>1. Filled(w) /\ Effective(l, FormToUpdate(w)[l]) = Effective(l, Shown(l, row[l]))
    BY RowSurvives DEF IInv, Typed
  <2>2. /\ \A f \in LayerFields[l] : form[f] = w[f]
        /\ ~(Stack \subseteq touched) => \A f \in Shared : form[f] = w[f]
    BY DEF Kept
  <2>3. DOMAIN form = Fields /\ form = [f \in Fields |-> form[f]]
    BY FormHas DEF Typed, Filled
  <2> HIDE DEF w
  <2>4. Changed(form, w, F)
    BY <2>3 DEF Changed
  <2>5. l \in Stack => \A f \in Shared : form[f] = w[f]
    BY <2>2
  <2>6. FormToUpdate(form)[l] = FormToUpdate(w)[l]
    <3> HIDE DEF F
    <3>0. /\ l \in {"protocol", "transport", "security", "sniffing", "sockopt", "finalmask"}
          /\ F \cap LayerFields[l] = {}
          /\ l \in Stack => F \cap Shared = {}
      BY <2>2, <2>5 DEF F, Layers
    <3>1. CASE l = "protocol"
      BY <2>4, <3>0, <3>1, BuildReads DEF LayerFields, FormToUpdate
    <3>2. CASE l = "transport"
      <4>1. F \cap (TransportFields \cup {"protocol_kind"}) = {}
        BY <3>0, <3>2 DEF LayerFields, Shared, Stack
      <4> QED
        BY <2>4, <3>2, <4>1, BuildReads DEF FormToUpdate
    <3>3. CASE l = "security"
      BY <2>4, <3>0, <3>3, BuildReads DEF LayerFields, FormToUpdate
    <3>4. CASE l = "finalmask"
      BY <2>4, <3>0, <3>4, BuildReads DEF LayerFields, FormToUpdate
    <3>5. CASE l \in {"sniffing", "sockopt"}
      BY <2>4, <3>0, <3>5, BuildReads DEF LayerFields, FormToUpdate
    <3> QED
      BY <3>0, <3>1, <3>2, <3>3, <3>4, <3>5
  <2> QED
    BY <2>1, <2>6
<1> QED
  BY <1>1, SpecTyped, PTL
=============================================================================
