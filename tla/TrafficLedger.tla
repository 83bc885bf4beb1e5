--------------------------- MODULE TrafficLedger ---------------------------
(***************************************************************************)
(* How the bytes xray counts reach the totals the panel keeps.             *)
(*                                                                         *)
(* xray counts per key (a client's email, an inbound or outbound tag) and  *)
(* forgets when it exits.  Three pollers read the counters every 5 s, turn *)
(* them into deltas against the previous reading, and add those to rows of *)
(* the database: to every attachment of the email (Poller = "user"), or to *)
(* the one row of the tag, created when missing.  The keys do not touch    *)
(* each other, so the module follows a single one.  A tick is split where  *)
(* the poller waits, so that handlers, traffic and exits come in between;  *)
(* a failed query changes nothing and is a tick that does not happen.      *)
(***************************************************************************)
EXTENDS Naturals, FiniteSets

CONSTANTS
    Poller,       \* which poller: "user", "inbound" or "outbound"
    Rows,         \* the rows that may carry the key
    Edits,        \* what operators do: "attach", "detach", "zero", "rename"
    Mishaps,      \* what may go wrong: "flush", "seed", "panel", "xray"
    MaxBytes,     \* bound: bytes moved per direction
    MaxBrought,   \* bound: bytes a row comes with from another key
    MaxEdits      \* bound: edits

ASSUME LedgerAssumption ==
    /\ Poller \in {"user", "inbound", "outbound"}
    /\ Edits \subseteq {"attach", "detach", "zero", "rename"}
    /\ Mishaps \subseteq {"flush", "seed", "panel", "xray"}
    /\ {MaxBytes, MaxBrought, MaxEdits} \subseteq Nat

\* A tag is the key of its traffic row; only an email has several.
ASSUME OneRowPerTag ==
    Poller # "user" => \A q, r \in Rows : q = r

VARIABLES
    n,        \* xray's session counters of the key
    attached, \* the rows whose client or inbound exists
    total,    \* persisted totals, of the rows in the table
    stored,   \* the rows in the table
    poll,     \* where the poller is in its tick
    prev,     \* the previous reading; zero for a key xray had not listed
    seeded,   \* whether a baseline has been captured
    cur,      \* this tick's reading
    meta,     \* this tick's canonical database total
    shown,    \* the total the operator saw last
    moved,    \* history: the bytes the key really moved
    seen,     \* history: moved, as of the baseline and of this tick's reading
    exits,    \* history: whether xray exited "before" this reading, since the
              \* baseline, or "after" it
    brought,  \* history: the most a row had counted under another key
    mishaps,  \* history: what has happened that may cost a row bytes
    edits     \* edits left

vars == <<n, attached, total, stored, poll, prev, seeded, cur, meta, shown,
          moved, seen, exits, brought, mishaps, edits>>
ledger == <<attached, total, stored>>
tick   == <<poll, prev, seeded, cur, meta, seen>>

Dirs     == {"uplink", "downlink"}
Counters == [Dirs -> Nat]
Zero     == [d \in Dirs |-> 0]
Plus(a, b) == [d \in Dirs |-> a[d] + b[d]]
Sum(a)   == a["uplink"] + a["downlink"]

\* A missing row stands at zero.
Val(r) == IF r \in stored THEN total[r] ELSE Zero

\* The panel has been up for a while; the key has not moved a byte yet.
Init ==
    /\ n = Zero
    /\ attached \in (SUBSET Rows) \ {{}}
    /\ stored = IF Poller = "user" THEN attached ELSE {}
    /\ total = [r \in Rows |-> Zero]
    /\ poll = "idle"
    /\ prev = Zero
    /\ seeded = TRUE
    /\ cur = Zero
    /\ meta = Zero
    /\ shown = Zero
    /\ moved = Zero
    /\ seen = [prev |-> Zero, cur |-> Zero]
    /\ exits = {}
    /\ brought = Zero
    /\ mishaps = {}
    /\ edits = MaxEdits

\* What a tick read is gone with it; the baseline is of when m was moved.
Forget(m) ==
    /\ cur' = Zero
    /\ meta' = Zero
    /\ seen' = [prev |-> m, cur |-> Zero]

-----------------------------------------------------------------------------
(* xray.                                                                    *)

Move(d) ==
    /\ moved[d] < MaxBytes
    /\ n' = [n EXCEPT ![d] = @ + 1]
    /\ moved' = [moved EXCEPT ![d] = @ + 1]
    /\ UNCHANGED <<ledger, tick, shown, exits, brought, mishaps, edits>>

XrayRestarts ==
    /\ "xray" \in Mishaps
    /\ n' = Zero
    /\ exits' = exits \cup {IF poll \in {"queried", "read"} THEN "after" ELSE "before"}
    /\ UNCHANGED <<ledger, tick, shown, moved, brought, mishaps, edits>>

-----------------------------------------------------------------------------
(* The poller.                                                              *)

\* The panel exits in the middle of whatever the poller does and comes back.
\* The operator's page keeps what it showed until a tick replaces it.
PanelRestarts ==
    /\ "panel" \in Mishaps
    /\ poll' = "boot"
    /\ prev' = Zero
    /\ seeded' = FALSE
    /\ Forget(Zero)
    /\ exits' = {}
    /\ UNCHANGED <<n, ledger, shown, moved, brought, mishaps, edits>>

\* Mutant: the counters of a running xray are not taken as the baseline.
SeedNothing ==
    /\ poll = "boot"
    /\ poll' = "idle"
    /\ prev' = Zero
    /\ seeded' = TRUE
    /\ seen' = [seen EXCEPT !.prev = moved]
    /\ exits' = {}
    /\ UNCHANGED <<n, ledger, cur, meta, shown, moved, brought, mishaps, edits>>

\* Whatever xray counted so far becomes the baseline...
Seed ==
    /\ poll = "boot"
    /\ poll' = "idle"
    /\ prev' = n
    /\ seeded' = TRUE
    /\ seen' = [seen EXCEPT !.prev = moved]
    /\ exits' = {}
    /\ UNCHANGED <<n, ledger, cur, meta, shown, moved, brought, mishaps, edits>>

\* ...unless three attempts in a row fail.
SeedFails ==
    /\ poll = "boot"
    /\ "seed" \in Mishaps
    /\ poll' = "idle"
    /\ seeded' = FALSE
    /\ UNCHANGED <<n, ledger, prev, cur, meta, shown, moved, seen, exits, brought, mishaps,
                   edits>>

\* The tag pollers adopt the first reading after a failed seed and end the tick.
Query ==
    /\ poll = "idle"
    /\ IF Poller = "user" \/ seeded
       THEN /\ cur' = n
            /\ seen' = [seen EXCEPT !.cur = moved]
            /\ poll' = IF Poller = "user" THEN "queried" ELSE "read"
            /\ UNCHANGED <<prev, seeded, exits>>
       ELSE /\ prev' = n
            /\ seeded' = TRUE
            /\ seen' = [seen EXCEPT !.prev = moved]
            /\ exits' = {}
            /\ UNCHANGED <<cur, poll>>
    /\ UNCHANGED <<n, ledger, meta, shown, moved, brought, mishaps, edits>>

\* load_db_totals: of the rows of an email, the one with the largest total.
ReadTotals ==
    /\ poll = "queried"
    /\ \/ /\ attached = {}
          /\ meta' = Zero
       \/ \E r \in attached :
             /\ \A q \in attached : Sum(Val(q)) <= Sum(Val(r))
             /\ meta' = Val(r)
    /\ poll' = "read"
    /\ UNCHANGED <<n, ledger, prev, seeded, cur, shown, moved, seen, exits, brought,
                   mishaps, edits>>

\* Mutant: a skipped tick moves the baseline all the same.
AbandonMovesBaseline ==
    /\ poll = "queried"
    /\ poll' = "idle"
    /\ prev' = cur
    /\ Forget(seen.prev)
    /\ exits' = {e \in {"before"} : exits # {}}
    /\ UNCHANGED <<n, ledger, seeded, shown, moved, brought, mishaps, edits>>

\* The online list or the database could not be read: the tick is skipped.
Abandon ==
    /\ poll = "queried"
    /\ poll' = "idle"
    /\ Forget(seen.prev)
    /\ exits' = {e \in {"before"} : exits # {}}
    /\ UNCHANGED <<n, ledger, prev, seeded, shown, moved, brought, mishaps, edits>>

\* compute_delta: any drop means xray restarted, and both directions count in
\* full. tag_deltas judges each direction by itself. No baseline, no credit.
Delta ==
    IF ~seeded THEN Zero
    ELSE IF Poller = "user" /\ \E d \in Dirs : cur[d] < prev[d] THEN cur
    ELSE [d \in Dirs |-> IF cur[d] < prev[d] THEN cur[d] ELSE cur[d] - prev[d]]

\* The end of a tick, whether or not the transaction went through.
EndTick ==
    /\ poll = "read"
    /\ poll' = "idle"
    /\ prev' = cur
    /\ seeded' = TRUE
    /\ Forget(seen.cur)
    /\ exits' = {e \in {"before"} : "after" \in exits}
    /\ UNCHANGED <<n, attached, moved, brought, edits>>

\* Mutant: the page adds the session counter instead of the delta.
ShowSession == shown' = IF Poller = "user" THEN Plus(meta, cur) ELSE shown

\* build_snapshot: what was read from the database plus this tick's delta.
Show == shown' = IF Poller = "user" THEN Plus(meta, Delta) ELSE shown

\* Mutant: the row of a tag is updated, and not created when it is missing.
FlushUpdatesOnly ==
    /\ EndTick
    /\ Show
    /\ stored' = stored
    /\ total' = [r \in Rows |-> IF r \in stored' THEN Plus(Val(r), Delta)
                                ELSE total[r]]
    /\ UNCHANGED mishaps

\* UPDATE ... WHERE email reaches every attachment; a tag's row is upserted.
Flush ==
    /\ EndTick
    /\ Show
    /\ stored' = IF Poller = "user" \/ Delta = Zero THEN stored ELSE Rows
    /\ total' = [r \in Rows |-> IF r \in stored' THEN Plus(Val(r), Delta)
                                ELSE total[r]]
    /\ UNCHANGED mishaps

FlushFails ==
    /\ Delta # Zero
    /\ "flush" \in Mishaps
    /\ mishaps' = mishaps \cup {"flush"}
    /\ EndTick
    /\ Show
    /\ UNCHANGED <<total, stored>>

-----------------------------------------------------------------------------
(* The operators.                                                           *)

Edit(e) ==
    /\ e \in Edits
    /\ edits > 0
    /\ edits' = edits - 1
    /\ UNCHANGED <<n, tick, shown, moved, exits>>

\* Mutant: a new attachment starts from zero.
NothingInherited(v) == v = Zero

\* COALESCE(MAX(...), 0) over the rows of the email, per direction.
Inherited(v) ==
    \A d \in Dirs :
        /\ v[d] \in {0} \cup {total[r][d] : r \in stored}
        /\ \A r \in stored : total[r][d] <= v[d]

\* create / bulk_assign: another attachment. An inbound that is created leaves
\* a row stored under its tag alone.
Attach(r) ==
    /\ Edit("attach")
    /\ r \notin attached
    /\ attached' = attached \cup {r}
    /\ IF Poller = "user"
       THEN /\ stored' = stored \cup {r}
            /\ \E v \in [Dirs -> 0 .. MaxBytes + MaxBrought] :
                  Inherited(v) /\ total' = [total EXCEPT ![r] = v]
       ELSE UNCHANGED <<total, stored>>
    /\ UNCHANGED <<brought, mishaps>>

\* delete, for a client or an inbound; replace, for an outbound: the row goes too.
\* A row that is renamed away goes with its totals, as seen from this key.
Detach(r) ==
    /\ Edit("detach")
    /\ r \in attached
    /\ attached' = attached \ {r}
    /\ stored' = stored \ {r}
    /\ mishaps' = IF attached' = {} THEN mishaps \cup {"forgotten"} ELSE mishaps
    /\ UNCHANGED <<total, brought>>

\* reset_traffic: one call per attachment.
ZeroRow(r) ==
    /\ Poller = "user"
    /\ Edit("zero")
    /\ r \in attached
    /\ total' = [total EXCEPT ![r] = Zero]
    /\ mishaps' = mishaps \cup {"zeroed"}
    /\ UNCHANGED <<attached, stored, brought>>

Larger(a, b) == IF a >= b THEN a ELSE b

\* A PATCH gives the key to a client of another email or an inbound of another tag.
Rename(r) ==
    /\ Edit("rename")
    /\ r \notin attached
    /\ attached' = attached \cup {r}
    /\ mishaps' = mishaps \cup {"renamed"}
    /\ \E v \in [Dirs -> 0 .. MaxBrought] :
          /\ total' = [total EXCEPT ![r] = v]
          /\ brought' = [d \in Dirs |-> Larger(brought[d], v[d])]

\* A client keeps the totals it had.
RenameEmail(r) ==
    /\ Poller = "user"
    /\ Rename(r)
    /\ stored' = stored \cup {r}

\* What a deleted inbound left under the new tag goes; what was stored under the
\* old tag, if anything was, comes instead. The tag of an outbound never changes.
RenameTag(r) ==
    /\ Poller = "inbound"
    /\ Rename(r)
    /\ stored' \in {stored \ {r}, stored \cup {r}}

-----------------------------------------------------------------------------

Next ==
    \/ \E d \in Dirs : Move(d)
    \/ XrayRestarts
    \/ PanelRestarts
    \/ Seed
    \/ SeedFails
    \/ Query
    \/ ReadTotals
    \/ Abandon
    \/ Flush
    \/ FlushFails
    \/ \E r \in Rows :
          \/ Attach(r)
          \/ Detach(r)
          \/ ZeroRow(r)
          \/ RenameEmail(r)
          \/ RenameTag(r)

Spec == Init /\ [][Next]_vars

-----------------------------------------------------------------------------
(* Properties.                                                              *)

\* Counters, deltas and totals stay natural numbers: no reading after a reset
\* turns into the "giant wraparound" compute_delta guards against.
TypeOK ==
    /\ n \in [Dirs -> 0 .. MaxBytes]
    /\ attached \subseteq Rows
    /\ stored \subseteq Rows
    /\ total \in [Rows -> [Dirs -> 0 .. MaxBytes + MaxBrought]]
    /\ poll \in {"boot", "idle", "queried", "read"}
    /\ prev \in [Dirs -> 0 .. MaxBytes]
    /\ seeded \in BOOLEAN
    /\ cur \in [Dirs -> 0 .. MaxBytes]
    /\ meta \in [Dirs -> 0 .. MaxBytes + MaxBrought]
    /\ shown \in Counters
    /\ moved \in [Dirs -> 0 .. MaxBytes]
    /\ seen \in [{"prev", "cur"} -> [Dirs -> 0 .. MaxBytes]]
    /\ exits \subseteq {"before", "after"}
    /\ brought \in [Dirs -> 0 .. MaxBrought]
    /\ mishaps \subseteq {"flush", "zeroed", "renamed", "forgotten"}
    /\ edits \in 0 .. MaxEdits

\* Whatever restarts, in whatever order, no total ever exceeds the bytes that
\* were moved, and those a row had counted before it took the key: nothing is
\* counted twice.
NeverOverCredited ==
    \A r \in stored, d \in Dirs : total[r][d] <= moved[d] + brought[d]

\* The inductive core of it: crediting `extra` now and everything above the
\* baseline b later stays within what was moved.  Either xray is still in the
\* session b was read in, or it restarted since and even its whole counter is owed.
Ahead(b, extra) ==
    \/ \A d \in Dirs :
          /\ b[d] <= n[d]
          /\ extra[d] + n[d] <= moved[d] + b[d]
          /\ \A r \in Rows : Val(r)[d] + extra[d] + n[d] <= moved[d] + brought[d] + b[d]
    \/ \A d \in Dirs :
          /\ extra[d] + n[d] <= moved[d]
          /\ \A r \in Rows : Val(r)[d] + extra[d] + n[d] <= moved[d] + brought[d]

Covered ==
    /\ \A d \in Dirs : n[d] <= moved[d]
    /\ \A d \in Dirs, r \in Rows : Val(r)[d] <= moved[d] + brought[d]
    /\ poll # "boot" /\ seeded => Ahead(prev, Zero)
    /\ poll \in {"queried", "read"} => Ahead(cur, Delta)

\* The bytes moved between this tick's reading and the one of the last tick that
\* ended; without a baseline none of them are known to be the session's own.
Due(d) == IF seeded THEN seen.cur[d] - seen.prev[d] ELSE 0

\* A tick that ends credits every attachment, or none when its transaction failed,
\* with exactly what moved between the readings: the ticks skipped in between, the
\* resets, renames and attachments since, an earlier failure or restart take
\* nothing and add nothing. Only where xray exited in between may it be less.
CreditedExactly ==
    [][ poll = "read" /\ poll' = "idle" =>
            \/ "flush" \in mishaps' /\ UNCHANGED ledger
            \/ \A r \in attached, d \in Dirs :
                  \E credit \in 0 .. Due(d) :
                     /\ Val(r)'[d] = Val(r)[d] + credit
                     /\ "before" \notin exits => credit = Due(d) ]_vars

\* "Every row in step": the attachments of an email carry the same total, so that
\* deleting any of them is lossless...
RowsInStep ==
    \A q, r \in attached : Val(q) = Val(r)

\* ...which holds until one of them is reset, or has come from another email.
RowsInStepUntilReset ==
    mishaps \cap {"zeroed", "renamed"} = {} => RowsInStep

\* The operator's total only grows, across restarts of xray and of the panel,
\* skipped ticks and changes of the attachments; only a failed transaction, a
\* reset, a row of another email or the removal of the last attachment takes it
\* back.
ShownMonotone ==
    [][ mishaps' \cap {"flush", "zeroed", "renamed", "forgotten"} = {} =>
            \A d \in Dirs : shown'[d] >= shown[d] ]_vars
=============================================================================
