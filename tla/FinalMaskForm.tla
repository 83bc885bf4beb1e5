----------------------------- MODULE FinalMaskForm -----------------------------
(***************************************************************************)
(* The traffic-mask part of the inbound form: the flat finalmask_* fields,  *)
(* the typed FinalMask blob they are built into and hydrated from, the     *)
(* matrix of kinds a transport and a security layer can run, and the guard *)
(* that resets a kind the new combination cannot. Pure operators, shared   *)
(* by the modules that hold a form.                                        *)
(*                                                                         *)
(* Texts are classes: a table, a profile or a header is blank or a value.  *)
(***************************************************************************)
EXTENDS Integers

Null == -1   \* an empty number input, and null in a blob

MaskKinds    == {"none", "sudoku", "fragment", "noise", "salamander", "xmc"}
NoiseItems   == {"blank", "literal", "random", "both"}
XmcProfiles  == {"blank", "named", "resolved", "renamed"}
PacketBounds == {Null, 0, 1, 2}

MaskDefaults ==
    [finalmask_kind |-> "none", sudoku_tables |-> {}, packets_mode |-> "tlshello",
     packets_from |-> Null, packets_to |-> Null,
     noise_items |-> {"random"}, xmc_profiles |-> {"blank"}]

-----------------------------------------------------------------------------
(* The blob. max_split and reset are pinned to null, the scalar custom table *)
(* is folded into the list, a literal packet drops its random range, and   *)
(* the profiles that were never resolved are left out.                     *)

BuildPackets(v) ==
    CASE v.packets_mode = "tlshello" -> <<0, 1>>
      [] v.packets_mode = "all"      -> <<0, 0>>
      [] v.packets_mode = "range"    -> <<v.packets_from, v.packets_to>>

BuildNoiseItem(i) == IF i = "both" THEN "literal" ELSE i

BuildFinalMask(v) ==
    CASE v.finalmask_kind = "none"       -> [kind |-> "none"]
      [] v.finalmask_kind = "salamander" -> [kind |-> "salamander"]
      [] v.finalmask_kind = "sudoku"     ->
            [kind |-> "sudoku", custom_table |-> {}, custom_tables |-> v.sudoku_tables \ {"blank"}]
      [] v.finalmask_kind = "fragment"   ->
            [kind |-> "fragment", packets |-> BuildPackets(v), max_split |-> Null]
      [] v.finalmask_kind = "noise"      ->
            [kind |-> "noise", items |-> {BuildNoiseItem(i) : i \in v.noise_items}, reset |-> Null]
      [] v.finalmask_kind = "xmc"        ->
            [kind |-> "xmc", profiles |-> v.xmc_profiles \cap {"resolved", "renamed"}]

OrZero(n) == IF n = Null THEN 0 ELSE n

PacketsMode(from, to) ==
    IF <<OrZero(from), OrZero(to)>> = <<0, 1>> THEN "tlshello"
    ELSE IF <<OrZero(from), OrZero(to)>> = <<0, 0>> THEN "all" ELSE "range"

\* Only the active kind is poured into the form; the others keep the defaults.
HydrateFinalMask(v, fm) ==
    CASE fm.kind = "none"       -> v
      [] fm.kind = "salamander" -> [v EXCEPT !.finalmask_kind = "salamander"]
      [] fm.kind = "sudoku"     ->
            [v EXCEPT !.finalmask_kind = "sudoku",
                      !.sudoku_tables = IF fm.custom_tables # {} THEN fm.custom_tables
                                        ELSE fm.custom_table]
      [] fm.kind = "fragment"   ->
            [v EXCEPT !.finalmask_kind = "fragment",
                      !.packets_mode = PacketsMode(fm.packets[1], fm.packets[2]),
                      !.packets_from = fm.packets[1], !.packets_to = fm.packets[2]]
      [] fm.kind = "noise"      ->
            [v EXCEPT !.finalmask_kind = "noise",
                      !.noise_items = IF fm.items = {} THEN {"blank"} ELSE fm.items]
      [] fm.kind = "xmc"        ->
            [v EXCEPT !.finalmask_kind = "xmc",
                      !.xmc_profiles = IF fm.profiles = {} THEN {"blank"} ELSE fm.profiles]

\* What the tab has inputs for: the limit on a fragment's pieces and the reset
\* interval of a noise are not on it.
ShownMask(fm) ==
    CASE fm.kind = "fragment" -> [fm EXCEPT !.max_split = Null]
      [] fm.kind = "noise"    -> [fm EXCEPT !.reset = Null]
      [] OTHER                -> fm

\* What the panel's backend makes of a blob: the scalar table counts when the
\* list is empty, an absent number is 0.
EffectiveMask(fm) ==
    CASE fm.kind = "sudoku"   ->
            [kind |-> "sudoku", tables |-> IF fm.custom_tables # {} THEN fm.custom_tables
                                           ELSE fm.custom_table]
      [] fm.kind = "fragment" ->
            [kind |-> "fragment", from |-> OrZero(fm.packets[1]), to |-> OrZero(fm.packets[2]),
             max_split |-> OrZero(fm.max_split)]
      [] fm.kind = "noise"    -> [fm EXCEPT !.reset = OrZero(@)]
      [] OTHER                -> fm

-----------------------------------------------------------------------------
(* The matrix the backend serves and the guard that lives by it.           *)

SupportedKinds(transport, security) ==
    CASE transport = "wireguard" -> {"noise"}
      [] transport = "hysteria"  -> {"sudoku", "noise", "salamander"}
      [] OTHER -> {"sudoku", "fragment", "xmc"} \ (IF security = "reality" THEN {"xmc"} ELSE {})

\* Two protocols carry their own socket and are keyed as transports.
MaskTransport(protocol, network) ==
    CASE protocol = "hysteria2" -> "hysteria"
      [] protocol = "wireguard" -> "wireguard"
      [] OTHER                  -> network

\* Without an answer every kind is listed, and only then may a kind stay that
\* nothing vouches for.
AllowedFinalMasks(matrix, transport, security) ==
    IF matrix = "known" THEN {"none"} \cup SupportedKinds(transport, security) ELSE MaskKinds

FinalMaskGuard(matrix, kind, transport, security) ==
    IF matrix = "known" /\ kind \notin AllowedFinalMasks(matrix, transport, security)
    THEN "none" ELSE kind

-----------------------------------------------------------------------------
(* The tab: what the operator can change, as the set of forms one edit leads to. *)

SudokuEdits(v) == {[v EXCEPT !.sudoku_tables = s] : s \in SUBSET {"blank", "table"}}

\* The bounds are on screen in range mode only.
FragmentEdits(v) ==
    {[v EXCEPT !.packets_mode = m] : m \in {"tlshello", "all", "range"}}
    \cup IF v.packets_mode # "range" THEN {}
         ELSE {[v EXCEPT !.packets_from = n] : n \in PacketBounds}
              \cup {[v EXCEPT !.packets_to = n] : n \in PacketBounds}

\* The last row cannot be removed; a literal disables the range inputs, so a
\* row with both was typed range first.
NoiseEdits(v) ==
    {[v EXCEPT !.noise_items = (@ \ {i}) \cup {j}] :
        i \in v.noise_items, j \in {"blank", "literal", "random"}}
    \cup {[v EXCEPT !.noise_items = (@ \ {"random"}) \cup {"both"}] : i \in v.noise_items \cap {"random"}}
    \cup {[v EXCEPT !.noise_items = @ \cup {"blank"}]}

\* A name is typed, then looked up; a name typed over a resolved row keeps the
\* other account's id and signature.
XmcEdits(v) ==
    {[v EXCEPT !.xmc_profiles = @ \cup {"blank"}]}
    \cup {[v EXCEPT !.xmc_profiles = (@ \ {"blank"}) \cup {"named"}] : i \in v.xmc_profiles \cap {"blank"}}
    \cup {[v EXCEPT !.xmc_profiles = (@ \ {i}) \cup {"resolved"}] :
            i \in v.xmc_profiles \cap {"named", "renamed"}}
    \cup {[v EXCEPT !.xmc_profiles = (@ \ {"resolved"}) \cup {"renamed"}] : i \in v.xmc_profiles \cap {"resolved"}}

FinalMaskKindEdits(v, matrix, transport, security) ==
    IF matrix = "pending" THEN {}
    ELSE {[v EXCEPT !.finalmask_kind = k] : k \in AllowedFinalMasks(matrix, transport, security)}

MaskFieldEdits(v) ==
    CASE v.finalmask_kind = "sudoku"   -> SudokuEdits(v)
      [] v.finalmask_kind = "fragment" -> FragmentEdits(v)
      [] v.finalmask_kind = "noise"    -> NoiseEdits(v)
      [] v.finalmask_kind = "xmc"      -> XmcEdits(v)
      [] OTHER                         -> {}

\* The rules that stop a submit: a mask with profiles needs a resolved one.
MaskFieldsValid(v) ==
    v.finalmask_kind = "xmc" => v.xmc_profiles \cap {"resolved", "renamed"} # {}
=============================================================================
