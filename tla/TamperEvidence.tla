--------------------------- MODULE TamperEvidence ---------------------------
(***************************************************************************)
(* What verification can tell of a chain its operator corrupted: the       *)
(* sealing of a ledger under successive record schemas, the published      *)
(* anchors, the twelve corruptions of boundary/audit/tamper.py, and verify *)
(* of boundary/audit/chain.py.  When records are appended, and by whom, is *)
(* AuditAppender's; here a seal is one step.                               *)
(***************************************************************************)
EXTENDS Naturals, Sequences, FiniteSets, FiniteSetsExt, SequencesExt

CONSTANTS
  Calls,        \* the calls of the ledger, in the order of their ids: 1 .. n
  Schemas,      \* record schemas are 1 .. Schemas
  Costs,        \* what a completed call may cost: 0, 1 or both
  MaxRecords,   \* bound: records of the chain
  MaxAnchors,   \* bound: anchors published
  MaxTampers,   \* bound: corruptions
  None

VARIABLES
  ledger,    \* [Calls -> the call's row, or None]
  used,      \* how many call_uids were ever given out
  schema,    \* the record schema of the library that seals
  chain,     \* the audit table: [seq, prev, hash, body] in the order of seq
  anchors,   \* the anchor file
  tampers,   \* corruptions so far
  truth,     \* history: [Calls -> the row as the gateway last wrote it]
  trusted    \* history: the highest position anchored before any corruption
vars == <<ledger, used, schema, chain, anchors, tampers, truth, trusted>>

(* A row is what a record of it can seal: whether it is in flight, its cost, and which of   *)
(* the columns that later schemas added are not null.  A hash is the sequence of the bodies *)
(* it was computed over, which is injective as SHA-256 is taken to be.                      *)

States  == {"in_flight", "complete"}
Row     == [state : States, cost : {0, 1}, extra : SUBSET (2 .. Schemas)]
Body    == [uid : Calls, schema : 1 .. Schemas, state : States, cost : {0, 1},
            extra : SUBSET (2 .. Schemas)]
Genesis == <<>>
Link(prev, body) == Append(prev, body)

\* What is assumed of the constants; the modules that give them their values check it.
TamperAssumption ==
  /\ Schemas \in Nat \ {0} /\ Costs \subseteq {0, 1}
  /\ IsFiniteSet(Calls) /\ Calls = 1 .. Cardinality(Calls)
  /\ {MaxRecords, MaxAnchors, MaxTampers} \subseteq Nat
  /\ None \notin Nat \cup Row \cup Body

\* sealed_fields: the columns of a schema; which schema they are of is read from them.
SealedFields(u, row, s) ==
  [uid |-> u, schema |-> s, state |-> row.state, cost |-> row.cost,
   extra |-> row.extra \cap 2 .. s]

\* needs_seal: never sealed, changed since, or carrying what its record's schema had no place
\* for.
NeedsSeal(before, u, row) ==
  \/ before = None
  \/ before # SealedFields(u, row, before.schema)
  \/ row.extra \cap (before.schema + 1 .. schema) # {}

\* build: the records of bodies after a hash and a position.
Build(bodies, prev, first) ==
  LET hash(k) == prev \o SubSeq(bodies, 1, k)
  IN  [k \in 1 .. Len(bodies) |->
         [seq |-> first + k - 1, prev |-> hash(k - 1),
          hash |-> Link(hash(k - 1), bodies[k]), body |-> bodies[k]]]

\* latest_sealed: the body of the newest record of a call, or None.
Latest(records, u) ==
  LET of == {k \in DOMAIN records : records[k].body.uid = u}
  IN  IF of = {} THEN None ELSE records[Max(of)].body

-----------------------------------------------------------------------------
(* Verification.  The code follows the stored hash from record to record.  *)

Break(kind, seq) == [kind |-> kind, seq |-> seq]

\* verify's loop over the records.
RecordBreaks(records) ==
  LET expected(k) == IF k = 1 THEN 1 ELSE records[k - 1].seq + 1
      prev(k)     == IF k = 1 THEN Genesis ELSE records[k - 1].hash
      where(kind, wrong(_)) == {Break(kind, records[k].seq) : k \in {j \in DOMAIN records : wrong(j)}}
  IN  UNION {
        where("sequence", LAMBDA k : records[k].seq # expected(k)),
        where("link",     LAMBDA k : records[k].prev # prev(k)),
        where("hash",     LAMBDA k : records[k].hash # Link(records[k].prev, records[k].body))}

LastSeq(records) == IF records = <<>> THEN 0 ELSE Last(records).seq

\* The hash a reader of the file finds at a position, or None.
HashAt(records, seq) ==
  LET at == {k \in DOMAIN records : records[k].seq = seq}
  IN  IF at = {} THEN None ELSE records[Max(at)].hash

AnchorBreaks(records) ==
  {Break(IF a.seq > LastSeq(records) THEN "truncated" ELSE "anchor", a.seq) :
     a \in {b \in ToSet(anchors) : b.seq > LastSeq(records) \/ HashAt(records, b.seq) # b.head}}

\* Mutant: whatever is complete by now may differ from its record.
MayDifferComplete(before, row) == row.state = "complete"

\* A call sealed in flight that has completed since is for the next seal.
MayDiffer(before, row) == before.state = "in_flight" /\ row.state = "complete"

\* Mutant: only the rows the ledger still has are looked at.
MissingOverlooked(records, rows) == {}

Missing(records, rows) == {u \in Calls : rows[u] = None /\ Latest(records, u) # None}

\* verify's comparison with the ledger: the row against the fields its record's schema seals.
LedgerBreaks(records, rows) ==
  LET changed(u) == LET before == Latest(records, u)
                    IN  /\ rows[u] # None /\ before # None
                        /\ before # SealedFields(u, rows[u], before.schema)
                        /\ ~MayDiffer(before, rows[u])
  IN  {Break("ledger_changed", u) : u \in {v \in Calls : changed(v)}}
        \cup {Break("ledger_missing", u) : u \in Missing(records, rows)}

ChainIntact == RecordBreaks(chain) \cup AnchorBreaks(chain) = {}
Verified    == ChainIntact /\ LedgerBreaks(chain, ledger) = {}

-----------------------------------------------------------------------------
(* The gateway, the sealer and the operator who anchors.                   *)

Begin ==
  /\ used < Cardinality(Calls)
  /\ used' = used + 1
  /\ \E extra \in SUBSET (2 .. Schemas) :
       ledger' = [ledger EXCEPT ![used + 1] = [state |-> "in_flight", cost |-> 0, extra |-> extra]]
  /\ truth' = [truth EXCEPT ![used + 1] = ledger'[used + 1]]
  /\ UNCHANGED <<schema, chain, anchors, tampers, trusted>>

Complete(u) ==
  /\ ledger[u] # None /\ ledger[u].state = "in_flight"
  /\ \E cost \in Costs :
       ledger' = [ledger EXCEPT ![u].state = "complete", ![u].cost = cost]
  /\ truth' = [truth EXCEPT ![u] = ledger'[u]]
  /\ UNCHANGED <<used, schema, chain, anchors, tampers, trusted>>

\* A later version of the library seals from now on.
Upgrade ==
  /\ schema < Schemas /\ schema' = schema + 1
  /\ UNCHANGED <<ledger, used, chain, anchors, tampers, truth, trusted>>

\* ids in ascending order.
InOrder(ids) ==
  CHOOSE s \in [1 .. Cardinality(ids) -> ids] :
    /\ \A i \in ids : \E k \in DOMAIN s : s[k] = i
    /\ \A j, k \in DOMAIN s : j < k => s[j] < s[k]

\* _seal: a record for each row that needs one, but for those in flight not yet old enough.
Seal ==
  \E held \in SUBSET {u \in Calls : ledger[u] # None /\ ledger[u].state = "in_flight"} :
    LET due(u) == ledger[u] # None /\ NeedsSeal(Latest(chain, u), u, ledger[u]) /\ u \notin held
        uids   == InOrder({u \in Calls : due(u)})
        bodies == [k \in DOMAIN uids |-> SealedFields(uids[k], ledger[uids[k]], schema)]
        head   == IF chain = <<>> THEN Genesis ELSE Last(chain).hash
    IN  /\ bodies # <<>> /\ Len(chain) + Len(bodies) <= MaxRecords
        /\ chain' = chain \o Build(bodies, head, LastSeq(chain) + 1)
        /\ UNCHANGED <<ledger, used, schema, anchors, tampers, truth, trusted>>

\* `audit anchor`: the head as it stands, on a line of its own; an empty log has none.
PublishAnchor ==
  /\ chain # <<>> /\ Len(anchors) < MaxAnchors
  /\ anchors' = Append(anchors, [seq |-> LastSeq(chain), head |-> Last(chain).hash])
  /\ trusted' = IF tampers = 0 THEN LastSeq(chain) ELSE trusted
  /\ UNCHANGED <<ledger, used, schema, chain, tampers, truth>>

-----------------------------------------------------------------------------
(* The corruptions of tamper.py: each gives the chain and the ledger it    *)
(* leaves, of a position i of the chain.                                   *)

Understate(row) == [row EXCEPT !.cost = 1 - @]

Bodies(records) == [k \in DOMAIN records |-> records[k].body]
UidAt(i) == chain[i].body.uid

\* _rewrite_from: every hash from a position recomputed, and the positions with it.
RewriteFrom(records, i) ==
  SubSeq(records, 1, i - 1)
    \o Build(Bodies(SubSeq(records, i, Len(records))),
             IF i > 1 THEN records[i - 1].hash ELSE Genesis, i)

Edited(i) == [chain EXCEPT ![i].body.cost = 1 - @]
RowEdited(u)  == [ledger EXCEPT ![u] = IF @ = None THEN None ELSE Understate(@)]
RowDropped(u) == [ledger EXCEPT ![u] = None]

Leaves(records, rows) == [chain |-> records, ledger |-> rows]

Kinds == {"ledger_edit", "ledger_delete", "edit", "edit_rehash", "delete", "edit_rewrite",
          "ledger_and_log", "delete_rewrite", "insert_rewrite", "swap_rewrite", "truncate", "replace"}

\* A call that never was: complete, at a cost, with the schema of the day.
Forged == [state |-> "complete", cost |-> 1, extra |-> {}]

Corruption(kind, i) ==
  CASE kind = "ledger_edit"    -> Leaves(chain, RowEdited(UidAt(i)))
    [] kind = "ledger_delete"  -> Leaves(chain, RowDropped(UidAt(i)))
    [] kind = "edit"           -> Leaves(Edited(i), ledger)
    [] kind = "edit_rehash"    -> Leaves([chain EXCEPT ![i] =
                                    Build(<<Edited(i)[i].body>>, @.prev, @.seq)[1]], ledger)
    [] kind = "delete"         -> Leaves(RemoveAt(chain, i), ledger)
    [] kind = "edit_rewrite"   -> Leaves(RewriteFrom(Edited(i), i), ledger)
    [] kind = "ledger_and_log" -> Leaves(RewriteFrom(Edited(i), i), RowEdited(UidAt(i)))
    [] kind = "delete_rewrite" -> Leaves(RewriteFrom(RemoveAt(chain, i), i), RowDropped(UidAt(i)))
    [] kind = "insert_rewrite" ->
         Leaves(RewriteFrom(InsertAt(chain, i,
                  [chain[i] EXCEPT !.body = SealedFields(used + 1, Forged, schema)]), i),
                [ledger EXCEPT ![used + 1] = Forged])
    [] kind = "swap_rewrite"   ->
         LET j == IF i < Len(chain) THEN i + 1 ELSE i - 1
             a == IF i < j THEN i ELSE j
         IN  Leaves(RewriteFrom([chain EXCEPT ![i] = chain[j], ![j] = chain[i]], a), ledger)
    [] kind = "truncate"       ->
         Leaves(SubSeq(chain, 1, i - 1),
                [u \in Calls |-> IF \E k \in i .. Len(chain) : UidAt(k) = u THEN None ELSE ledger[u]])
    [] kind = "replace"        -> Leaves(Build(Bodies(Edited(i)), Genesis, 1), RowEdited(UidAt(i)))

\* The operator owns every file but the anchors.
Corrupt(kind, i) ==
  /\ tampers < MaxTampers /\ i \in DOMAIN chain
  /\ kind = "insert_rewrite" => used < Cardinality(Calls) /\ Len(chain) < MaxRecords
  /\ kind = "swap_rewrite" => Len(chain) > 1
  /\ chain' = Corruption(kind, i).chain /\ ledger' = Corruption(kind, i).ledger
  /\ used' = IF kind = "insert_rewrite" THEN used + 1 ELSE used
  /\ tampers' = tampers + 1
  /\ UNCHANGED <<schema, anchors, truth, trusted>>

Init ==
  /\ ledger = [u \in Calls |-> None] /\ used = 0 /\ schema = 1
  /\ chain = <<>> /\ anchors = <<>> /\ tampers = 0
  /\ truth = [u \in Calls |-> None] /\ trusted = 0

Next ==
  \/ Begin \/ Upgrade \/ Seal \/ PublishAnchor
  \/ \E u \in Calls : Complete(u)
  \/ \E kind \in Kinds, i \in 1 .. MaxRecords : Corrupt(kind, i)

Spec == Init /\ [][Next]_vars

-----------------------------------------------------------------------------
TypeOK ==
  /\ ledger \in [Calls -> Row \cup {None}] /\ truth \in [Calls -> Row \cup {None}]
  /\ used \in 0 .. Cardinality(Calls) /\ schema \in 1 .. Schemas
  /\ Len(chain) <= MaxRecords /\ Len(anchors) <= MaxAnchors /\ tampers \in 0 .. MaxTampers
  /\ \A k \in DOMAIN chain : chain[k].body.uid \in 1 .. used /\ chain[k].body.schema \in 1 .. schema
  /\ trusted \in 0 .. MaxRecords

\* "An untouched chain" does not fail verification (tamper.py:373), whatever was in flight when
\* it was sealed, completed since, or sealed by an older version than the one that verifies.
HonestIsClean == tampers = 0 => Verified

\* "It proves the records up to the last anchor are the ones that were anchored"
\* (chain.py:244), after any corruptions, honest seals and anchors in any order.
AnchoredIsFixed ==
  ChainIntact => \A a \in ToSet(anchors) :
    Len(chain) >= a.seq /\ Bodies(SubSeq(chain, 1, a.seq)) = a.head

\* Two records of one call, one above the other: each tells something the one before did not,
\* so that sealing an unchanged ledger again appends nothing (log.py:168).
NothingSealedTwice ==
  tampers = 0 => \A j \in DOMAIN chain : \A i \in 1 .. j - 1 :
    LET old == chain[i].body  new == chain[j].body
    IN  old.uid = new.uid /\ (\A k \in i + 1 .. j - 1 : chain[k].body.uid # old.uid) =>
          \/ old.state # new.state \/ old.cost # new.cost
          \/ new.extra \ old.extra # {}

\* A completed call that was anchored before anything was corrupted is, in a ledger that
\* verifies, what the gateway wrote; or the chain shows that it was changed, in a later
\* record of the same call.
EditIsOnRecord ==
  Verified => \A i \in 1 .. trusted :
    LET body == chain[i].body  u == body.uid
    IN  body.state = "complete" =>
          \/ ledger[u] # None /\ ledger[u].cost = truth[u].cost
          \/ \E j \in i + 1 .. Len(chain) : chain[j].body.uid = u /\ chain[j].body # body

ChainIsTrue == HonestIsClean /\ AnchoredIsFixed /\ NothingSealedTwice /\ EditIsOnRecord

\* "Before the last anchor, every kind of corruption should be detected" (tamper.py:7): each
\* of the twelve, on a chain untouched until then, is a break at once.  A row completed since
\* it was sealed in flight is the one that no record yet vouches for.
CorruptionShows ==
  \A kind \in Kinds, i \in 1 .. trusted :
    /\ tampers = 0 /\ Corrupt(kind, i)
    /\ kind = "ledger_edit" => ~MayDiffer(Latest(chain, UidAt(i)), ledger[UidAt(i)])
    => ~Verified'
BeforeTheAnchorDetected == [][CorruptionShows]_vars
=============================================================================
