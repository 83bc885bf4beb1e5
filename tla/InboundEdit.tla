------------------------------ MODULE InboundEdit ------------------------------
(***************************************************************************)
(* One inbound edited through the panel's form, session after session:     *)
(* open (create or edit), fields that register, the mask matrix that       *)
(* answers or does not, edits with the guards that follow each of them,    *)
(* and a save the backend accepts or refuses.                              *)
(* What the form's requests race against is in InboundPage.                *)
(***************************************************************************)
EXTENDS Integers, FiniteSets, InboundAdapters

CONSTANTS
    MaxSwitches,  \* bound: edits of a selector other fields depend on, per behaviour
    MaxFills,     \* bound: edits of any other field
    MaxSaves      \* bound: submits, each of which may reopen the form

ASSUME EditAssumption == {MaxSwitches, MaxFills, MaxSaves} \subseteq Nat

VARIABLES
    stored,   \* the row, as a set of at most one body
    form,     \* the form's store
    stage,    \* closed | opening (fields not registered yet) | open
    editing,  \* is the form open on the stored row?
    matrix,   \* the mask matrix: pending | known | failed
    touched,  \* history: the layers the operator edited in this session
    budget

vars == <<stored, form, stage, editing, matrix, touched, budget>>

Spend(k) == budget[k] > 0 /\ budget' = [budget EXCEPT ![k] = @ - 1]

\* Bodies another client of the API may have stored: what the form would write
\* from its defaults for each choice of protocol, transport, security and mask,
\* with the parts it writes differently left the way such a client would.
Written(p, n, s, m) ==
    FormToUpdate([DEFAULTS EXCEPT !.protocol_kind = p, !.network = n, !.security = s,
                                  !.finalmask_kind = m, !.tls_certificates = {"full"},
                                  !.reality_keys = "pair", !.wg_keys = "pair"])

WrittenRows ==
    {b \in {Written(p, n, s, m) : p \in Protocols, n \in Networks,
                                  s \in Securities, m \in MaskKinds} : ValidateLayers(b)}

WrittenOtherwise(b) ==
    [b EXCEPT !.transport = CASE @.kind = "xhttp" -> [@ EXCEPT !.mode = "packet-up", !.get = TRUE]
                              [] @.kind = "hysteria" ->
                                    [@ EXCEPT !.masquerade = [kind |-> "string", headers |-> {"named"}]]
                              [] OTHER -> @,
              !.security = IF @.kind = "tls" THEN [@ EXCEPT !.alpn = {}, !.fingerprint = "blank"] ELSE @,
              !.protocol = IF @.kind = "wireguard" THEN [@ EXCEPT !.mtu = 0] ELSE @,
              !.finalmask = CASE @.kind = "sudoku" -> [@ EXCEPT !.custom_table = {"table"}]
                              [] @.kind = "fragment" ->
                                    [@ EXCEPT !.packets = <<Null, Null>>, !.max_split = 1]
                              [] @.kind = "noise" -> [@ EXCEPT !.reset = 1]
                              [] OTHER -> @]

ApiRows ==
    {b \in WrittenRows \cup {WrittenOtherwise(x) : x \in WrittenRows} : Builds(b)}

Init ==
    /\ stored \in {{}} \cup {{b} : b \in ApiRows}
    /\ form = DEFAULTS
    /\ stage = "closed" /\ editing = FALSE
    /\ matrix = "pending"
    /\ touched = {}
    /\ budget = [switch |-> MaxSwitches, fill |-> MaxFills, save |-> MaxSaves]

-----------------------------------------------------------------------------
(* Opening: the store is reset to the record's values, or to the defaults.  *)

OpenEdit ==
    /\ stage = "closed" /\ budget.save > 0
    /\ \E row \in stored : form' = InboundToForm(row)
    /\ editing' = TRUE
    /\ stage' = "opening" /\ touched' = {}
    /\ UNCHANGED <<stored, matrix, budget>>

OpenCreate ==
    /\ stage = "closed" /\ budget.save > 0 /\ stored = {}
    /\ form' = DEFAULTS
    /\ editing' = FALSE
    /\ stage' = "opening" /\ touched' = {}
    /\ UNCHANGED <<stored, matrix, budget>>

\* Mutant: fields that are not registered yet are judged as a bare TCP inbound.
WatchedEarly(v) ==
    [v EXCEPT !.finalmask_kind = FinalMaskGuard(matrix, v.finalmask_kind, "tcp", "none")]

\* Until the fields register, useWatch answers undefined and no guard acts.
Watched(v) == v

\* The first render with registered fields, and the guards it sets off.
Register ==
    /\ stage = "opening"
    /\ form' = Settle(Watched(form), matrix)
    /\ stage' = "open"
    /\ UNCHANGED <<stored, editing, matrix, touched, budget>>

Cancel ==
    /\ stage = "open"
    /\ stage' = "closed" /\ form' = DEFAULTS /\ editing' = FALSE
    /\ touched' = {}
    /\ Spend("save")
    /\ UNCHANGED <<stored, matrix>>

\* The matrix is fetched once and kept; a failure may be followed by an answer.
MatrixAnswers ==
    /\ matrix # "known"
    /\ matrix' = "known"
    /\ form' = IF stage = "open" THEN Settle(form, "known") ELSE form
    /\ UNCHANGED <<stored, stage, editing, touched, budget>>

MatrixFails ==
    /\ matrix = "pending"
    /\ matrix' = "failed"
    /\ UNCHANGED <<stored, form, stage, editing, touched, budget>>

-----------------------------------------------------------------------------
(* The tabs: the forms one edit on each of them leads to.                  *)

\* A transport is picked only where a protocol allows several; the radio of a
\* security the protocol excludes is disabled, Reality's also over WebSocket,
\* and Vision's off TCP.
GeneralTab(v) ==
    {[v EXCEPT !.protocol_kind = p] : p \in Protocols}
    \cup {[v EXCEPT !.network = n] :
            n \in IF Cardinality(AllowedTransports(v.protocol_kind)) > 1
                  THEN AllowedTransports(v.protocol_kind) ELSE {}}
    \cup {[v EXCEPT !.security = s] :
            s \in AllowedSecurities(v.protocol_kind)
                  \ (IF v.network = "ws" THEN {"reality"} ELSE {})}
    \cup {[v EXCEPT !.vless_flow = f] :
            f \in IF ~HasFlow(v.protocol_kind) THEN {}
                  ELSE {"none"} \cup Some(v.network = "tcp", "vision")}

\* Switching the mode on, or the auth, brings keys of that auth; InboundPage
\* has the request in between.
VlessEncryptionSection(v) ==
    IF v.protocol_kind # "vless" THEN {}
    ELSE {[v EXCEPT !.encryption_mode = "none"]}
         \cup {[v EXCEPT !.encryption_mode = "mlkem768x25519plus", !.encryption_auth = a,
                         !.encryption_keys = IF v.encryption_auth = a /\ v.encryption_keys # "blank"
                                             THEN @ ELSE a] : a \in Auths}

\* An entry can be added only where fallbacks work, and what was added stays
\* in the store when the tab's body gives way to a notice.
FallbacksTab(v) ==
    IF v.protocol_kind = "vless" /\ v.network = "tcp" /\ v.encryption_mode = "none"
    THEN {[v EXCEPT !.fallbacks = b] : b \in BOOLEAN} ELSE {}

\* An inbound being created gets a pair of its own; no edit of an existing one
\* makes the first.
RealityTab(v) ==
    IF v.security = "reality" /\ (~editing \/ v.reality_keys # "blank")
    THEN {[v EXCEPT !.reality_keys = "pair"]} ELSE {}

WireguardTab(v) ==
    IF v.protocol_kind # "wireguard" THEN {}
    ELSE {[v EXCEPT !.wg_keys = "pair"]} \cup {[v EXCEPT !.wg_mtu = n] : n \in {Null, 0, 1280}}

\* One entry of a list, or one knob of several, is put in or taken out.
Toggled(set, x) == IF x \in set THEN set \ {x} ELSE set \cup {x}

TlsTab(v) ==
    IF v.security # "tls" THEN {}
    ELSE {[v EXCEPT !.tls_certificates = Toggled(v.tls_certificates, c)] : c \in {"half", "full"}}
         \cup {[v EXCEPT !.tls_alpn = a] : a \in {{}, {"h1"}, {"h1", "h2"}, {"h3"}}}
         \cup {[v EXCEPT !.tls_fingerprint = f] : f \in {"chrome", "firefox"}}

HeaderListField(v) == {[v EXCEPT !.headers = Toggled(v.headers, h)] : h \in {"blank", "named"}}
QuicTuning(v) ==
    {[v EXCEPT !.quic = Toggled(v.quic, q)] : q \in {"tuned", "hop_ports", "hop_interval"}}

WebSocketTab(v) == IF v.protocol_kind = "vless" /\ v.network = "ws" THEN HeaderListField(v) ELSE {}

\* The packet-up knob is disabled in the other modes and keeps its value there.
XhttpTab(v) ==
    IF ~(v.protocol_kind = "vless" /\ v.network = "xhttp") THEN {}
    ELSE HeaderListField(v) \cup QuicTuning(v)
         \cup {[v EXCEPT !.xhttp_mode = m] : m \in {"auto", "packet-up"}}
         \cup {[v EXCEPT !.uplink_get = b] : b \in {b \in BOOLEAN : v.xhttp_mode = "packet-up"}}

HysteriaTab(v) ==
    IF v.protocol_kind # "hysteria2" THEN {}
    ELSE QuicTuning(v) \cup {[v EXCEPT !.masq_kind = k] : k \in {"notfound", "file", "string"}}

SockoptTab(v)   == {[v EXCEPT !.sockopt = Toggled(v.sockopt, e)] : e \in {"blank", "entry"}}
SniffingPart(v) == {[v EXCEPT !.sniffing = Toggled(v.sniffing, e)] : e \in {"blank", "entry"}}

FinalMaskKind(v) ==
    FinalMaskKindEdits(v, matrix, MaskTransport(v.protocol_kind, v.network), v.security)

Type(layers, next, k) ==
    /\ stage = "open" /\ Spend(k)
    /\ next # form
    /\ form' = Settle(next, matrix)
    /\ touched' = touched \cup layers
    /\ UNCHANGED <<stored, stage, editing, matrix>>

\* These selectors move fields of other layers with them.
Stack == {"protocol", "transport", "security", "finalmask"}

EditGeneral    == stage = "open" /\ \E n \in GeneralTab(form) : Type(Stack, n, "switch")
EditEncryption == stage = "open" /\ \E n \in VlessEncryptionSection(form) : Type({"protocol"}, n, "switch")
EditMaskKind   == stage = "open" /\ \E n \in FinalMaskKind(form) : Type({"finalmask"}, n, "switch")

EditProtocol  == stage = "open" /\ \E n \in FallbacksTab(form) \cup WireguardTab(form) :
                    Type({"protocol"}, n, "fill")
EditTransport == stage = "open" /\ \E n \in WebSocketTab(form) \cup XhttpTab(form) \cup HysteriaTab(form) :
                    Type({"transport"}, n, "fill")
EditSecurity  == stage = "open" /\ \E n \in RealityTab(form) \cup TlsTab(form) : Type({"security"}, n, "fill")
EditMask      == stage = "open" /\ \E n \in MaskFieldEdits(form) : Type({"finalmask"}, n, "fill")
EditSockopt   == stage = "open" /\ \E n \in SockoptTab(form) : Type({"sockopt"}, n, "fill")
EditSniffing  == stage = "open" /\ \E n \in SniffingPart(form) : Type({"sniffing"}, n, "fill")

-----------------------------------------------------------------------------
(* Save: the whole store is built into every layer. A body the backend      *)
(* refuses leaves the form as it was.                                       *)

FormValid(v) == MaskFieldsValid(v)

Body == IF editing
        THEN SettleUpdatedKeys(FormToUpdate(form), CHOOSE r \in stored : TRUE)
        ELSE CompleteServerManagedFields(FormToUpdate(form))

Accepted == ValidateLayers(FormToUpdate(form)) /\ Builds(Body)

SaveAccepted ==
    /\ stage = "open" /\ FormValid(form) /\ Accepted
    /\ stored' = {Body}
    /\ stage' = "closed" /\ form' = DEFAULTS /\ editing' = FALSE
    /\ touched' = {}
    /\ Spend("save")
    /\ UNCHANGED matrix

SaveRefused ==
    /\ stage = "open" /\ FormValid(form) /\ ~Accepted
    /\ UNCHANGED vars

Finished == budget.save = 0 /\ UNCHANGED vars

Next ==
    \/ OpenEdit \/ OpenCreate \/ Register \/ Cancel
    \/ MatrixAnswers \/ MatrixFails
    \/ EditGeneral \/ EditEncryption \/ EditMaskKind
    \/ EditProtocol \/ EditTransport \/ EditSecurity \/ EditMask \/ EditSockopt \/ EditSniffing
    \/ SaveAccepted \/ SaveRefused
    \/ Finished

Spec == Init /\ [][Next]_vars

-----------------------------------------------------------------------------
\* Type correctness: the store holds form values whatever the tabs, the guards
\* and the hydration did to it, and the row passed the backend's rules.
TypeOK ==
    /\ form \in FormValues
    /\ \A row \in stored : ValidateLayers(row) /\ Builds(row)
    /\ Cardinality(stored) <= 1
    /\ stage \in {"closed", "opening", "open"}
    /\ matrix \in {"pending", "known", "failed"}
    /\ touched \subseteq Layers

\* The combinations no guard of the form looks at: fallbacks left in the store
\* by a transport that is not TCP any more, and a TCP mask over HTTP/3. (A third,
\* a mask picked while nothing says what the transport can run, needs an
\* unanswered matrix.)
Unguarded(v) ==
    \/ v.fallbacks /\ v.encryption_mode = "none" /\ v.network # "tcp"
    \/ OverHttp3(BuildTransport(v), BuildSecurity(v)) /\ v.finalmask_kind \in {"fragment", "xmc"}

\* Whatever the operator switched, in whatever order, and whenever the matrix
\* arrived, an open form is one the backend's cross-layer rules accept: the
\* guards and the adapters leave no other illegal combination behind.
SettledFormAccepted ==
    (stage = "open" /\ matrix = "known" /\ ~Unguarded(form)) => ValidateLayers(FormToUpdate(form))

\* What the form has inputs for and the operator did not touch means the same
\* after a save: hydrating a row and building it back changes nothing of it, for
\* rows the form wrote and for rows another client did. The three values that
\* have no input are dropped by every save, touched or not: the headers of a
\* string masquerade, max_split of a fragment and reset of a noise.
UntouchedSurvives ==
    (stage = "open" /\ editing) =>
        LET body == FormToUpdate(form)
        IN \A row \in stored, l \in Layers \ touched : Effective(l, body[l]) = Effective(l, Shown(l, row[l]))

\* A mask leaves the form only by the operator's choice or because the answered
\* matrix rules it out, never because something was not known yet.
MaskLeavesForCause ==
    [][(form.finalmask_kind # "none" /\ form'.finalmask_kind = "none"
            /\ stage' = "open" /\ ~EditMaskKind)
       => /\ matrix' = "known"
          /\ form.finalmask_kind \notin
                SupportedKinds(MaskTransport(form'.protocol_kind, form'.network), form'.security)]_vars
=============================================================================
