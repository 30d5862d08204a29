------------------------------ MODULE CacheIndex ------------------------------
(***************************************************************************)
(* The index of the prefix cache, crates/tr-cache/src/cache.rs, as a value: *)
(* every operation of `Cache` that runs under the index lock is an operator *)
(* from an index to the next one.                                          *)
(*                                                                         *)
(* A prefix key is the hash of everything before a position, so here it is  *)
(* the text before that position.  An object is                            *)
(*   kind   "rows" or "snapshot"                                           *)
(*   text   the prefix at its end (its key, with kind its name)             *)
(*   start  where its rows begin (a snapshot: its end)                      *)
(*   role   whose policy it follows                                        *)
(* and an index is                                                         *)
(*   order  the objects, least recently used first (index, lru and seq)     *)
(*   used   the bytes they are counted with                                *)
(***************************************************************************)
EXTENDS Integers, SequencesExt, FiniteSetsExt

CONSTANTS Token,     \* vocabulary
          RoleOf,    \* token -> its role
          Tier,      \* role -> eviction priority
          Expiring,  \* roles with a ttl
          Persisted, \* roles whose chunks are stored
          Snapped,   \* roles whose spans end in a snapshot
          ChunkLen,  \* tokens of a chunk, at most
          MinTokens, \* tokens of a span that gets a snapshot, at least
          SnapBytes, \* size of a snapshot; a row has size 1
          Budget     \* bytes of the store

Role == {RoleOf[t] : t \in Token}

\* The elements of q that are in T, in their order.
Only(q, T) ==
  LET f[n \in 0 .. Len(q)] ==
        IF n = 0 THEN << >> ELSE IF q[n] \in T THEN Append(f[n - 1], q[n]) ELSE f[n - 1]
  IN  f[Len(q)]

ASSUME ChunkAssumption == ChunkLen \in Nat \ {0}
ASSUME SizesAssumption == SnapBytes \in Nat \ {0} /\ Budget \in Nat
ASSUME TierAssumption == \A r \in Role : Tier[r] \in 0 .. 9

Rows(text, start, role) ==
  [kind |-> "rows", text |-> text, start |-> start, role |-> role]
Snapshot(text, role) ==
  [kind |-> "snapshot", text |-> text, start |-> Len(text), role |-> role]

Name(o)  == <<o.kind, o.text>>
Bytes(o) == IF o.kind = "rows" THEN Len(o.text) - o.start ELSE SnapBytes
Footprint(o) == 1 + Bytes(o)   \* the header page and the body

-----------------------------------------------------------------------------
\* Spans are <<start, end, role>>; they are sorted and do not overlap.
\* chunk_spans: the spans cut into chunks.
ChunkSpans(spans) ==
  UNION {{<<x, IF x + ChunkLen < s[2] THEN x + ChunkLen ELSE s[2], s[3]>> :
            x \in {y \in s[1] .. s[2] - 1 : (y - s[1]) % ChunkLen = 0}} : s \in spans}

\* persist_cut: nothing is stored from the first span on whose role is not
\* persisted.
PersistCut(spans, n) ==
  Min({n} \cup {s[1] : s \in {x \in spans : x[3] \notin Persisted}})

\* snapshot_points (policy "message") in the part of the prompt after from.
SnapshotPoints(spans, from, len) ==
  {<<s[2], s[3]>> : s \in {x \in spans : /\ x[2] - x[1] >= MinTokens
                                        /\ from < x[2] /\ x[2] <= len
                                        /\ x[2] <= PersistCut(spans, len)
                                        /\ x[3] \in Snapped}}

InOrder(S) == Only([i \in 1 .. Max({0} \cup S) |-> i], S)

Prefix(text, p) == SubSeq(text, 1, p)

\* The chunks of a text up to the cut; the rows of the one that ends here.
Chunks(text, spans) ==
  {c \in ChunkSpans(spans) : c[2] <= Len(text) /\ c[2] <= PersistCut(spans, Len(text))}
ChunkRows(text, spans, end) ==
  LET c == CHOOSE x \in Chunks(text, spans) : x[2] = end IN Rows(Prefix(text, c[2]), c[1], c[3])
SavedRows(text, spans) ==
  LET ends == InOrder({c[2] : c \in Chunks(text, spans)})
  IN  [i \in DOMAIN ends |-> ChunkRows(text, spans, ends[i])]

\* The role at the end of a text of n tokens.
LastRole(spans, n) ==
  (CHOOSE s \in spans : s[1] < n /\ \A t \in spans : t[1] < n => t[1] <= s[1])[3]

\* What a save of text with these spans stores: the chunks, in order, and the
\* snapshot at its end unless a chunk before it is missing.
SavedObjects(text, spans) ==
  LET n == Len(text)
      rows == SavedRows(text, spans)
  IN  IF n > 0 /\ n <= PersistCut(spans, n) THEN Append(rows, Snapshot(text, LastRole(spans, n)))
      ELSE rows

-----------------------------------------------------------------------------
EmptyIndex == [order |-> << >>, used |-> 0]

Names(ix) == {Name(o) : o \in ToSet(ix.order)}
Has(ix, name) == name \in Names(ix)
Entry(ix, name) == CHOOSE o \in ToSet(ix.order) : Name(o) = name

Total(q) == FoldLeft(LAMBDA a, b : a + b, 0, q)
SizeOf(q) == Total([i \in DOMAIN q |-> Footprint(q[i])])

Named(ix, S) == {o \in ToSet(ix.order) : Name(o) \in S}
Others(ix, S) == Only(ix.order, ToSet(ix.order) \ S)

\* Mutant: the bytes stay counted.
DroppedUncounted(ix, S) == [order |-> Others(ix, Named(ix, S)), used |-> ix.used]

\* remove: the entries of these names leave the index.
Dropped(ix, S) ==
  [order |-> Others(ix, Named(ix, S)),
   used  |-> ix.used - SizeOf(Only(ix.order, Named(ix, S)))]

\* touch: the entry becomes the most recently used one.
Touched(ix, name) ==
  LET it == Named(ix, {name}) IN [ix EXCEPT !.order = Others(ix, it) \o Only(@, it)]

InsertEntry(ix, o) == [order |-> Append(ix.order, o), used |-> ix.used + Footprint(o)]

\* expire_idle: the names that are dropped, given the names that were idle for
\* too long.
Expired(ix, idle) ==
  {Name(o) : o \in {x \in ToSet(ix.order) : x.role \in Expiring /\ Name(x) \in idle}}

\* Mutant: the least recently used first, whatever its tier.
OldestFirst(ix) == ix.order

\* lru: the lowest tier first, the least recently used first.
EvictionOrder(ix) ==
  LET f[t \in 0 .. 10] ==
        IF t = 0 THEN << >>
        ELSE f[t - 1] \o Only(ix.order, {o \in ToSet(ix.order) : Tier[o.role] = t - 1})
  IN  f[10]

\* evict_to_budget: as many objects as it takes to fit the budget.
Evicted(ix) ==
  IF ix.used <= Budget THEN ix
  ELSE LET q == EvictionOrder(ix)
           first(k) == SubSeq(q, 1, k)
           n == Min({k \in 0 .. Len(q) : k = Len(q) \/ ix.used - SizeOf(first(k)) <= Budget})
       IN  Dropped(ix, {Name(q[i]) : i \in 1 .. n})

\* Mutant: an object that is there is inserted again.
InsertedTwice(ix, idle, o) ==
  LET x == InsertEntry(ix, o)
  IN  Evicted(Dropped(x, Expired(x, idle \ {Name(o)})))

\* insert: the index after an object was stored, to be compared with the one
\* before for the names to delete.
Inserted(ix, idle, o) ==
  IF Has(ix, Name(o)) THEN Touched(ix, Name(o))
  ELSE LET x == InsertEntry(ix, o)
       IN  Evicted(Dropped(x, Expired(x, idle \ {Name(o)})))

-----------------------------------------------------------------------------
(***************************************************************************)
(* best_restore                                                            *)
(***************************************************************************)
\* Mutant: a missing chunk ends the chain as position 0 does.
ChainGap(ix, text, p) ==
  LET f[n \in 0 .. p] ==
        IF n = 0 \/ ~Has(ix, <<"rows", Prefix(text, n)>>) THEN [ok |-> TRUE, rows |-> << >>]
        ELSE LET o == Entry(ix, <<"rows", Prefix(text, n)>>)
             IN  [f[o.start] EXCEPT !.rows = Append(@, o)]
  IN  f[p]

\* The chunks that lead from position p of text back to its start, if all of
\* them are there.
Chain(ix, text, p) ==
  LET f[n \in 0 .. p] ==
        IF n = 0 THEN [ok |-> TRUE, rows |-> << >>]
        ELSE IF ~Has(ix, <<"rows", Prefix(text, n)>>) THEN [ok |-> FALSE, rows |-> << >>]
        ELSE LET o == Entry(ix, <<"rows", Prefix(text, n)>>)
             IN  [f[o.start] EXCEPT !.rows = Append(@, o)]
  IN  f[p]

RestorePoints(ix, text) ==
  {p \in 1 .. Len(text) : /\ Has(ix, <<"snapshot", Prefix(text, p)>>)
                          /\ Chain(ix, text, p).ok}

\* The deepest restore point: its chunks and its snapshot; empty if there is
\* none.
Plan(ix, text) ==
  IF RestorePoints(ix, text) = {} THEN << >>
  ELSE LET p == Max(RestorePoints(ix, text))
       IN  Append(Chain(ix, text, p).rows, Entry(ix, <<"snapshot", Prefix(text, p)>>))

\* A hit touches every object of the plan, in order.
Hit(ix, plan) ==
  [ix EXCEPT !.order = Others(ix, ToSet(plan)) \o plan]

-----------------------------------------------------------------------------
\* open_with: the objects on disk, in the order of the stored index; those it
\* does not name come first.  (Among those, and within a second, last_used and
\* the name decide, which is any order here.)
Opened(files, stored, idle) ==
  LET Known(o) == Name(o) \in ToSet(stored)
      known == Only(stored, {Name(o) : o \in files})
      first == SetToSeq({o \in files : ~Known(o)})
      rest == [i \in DOMAIN known |-> CHOOSE o \in files : Name(o) = known[i]]
      ix == [order |-> first \o rest, used |-> SizeOf(first \o rest)]
  IN  Evicted(Dropped(ix, Expired(ix, idle)))
=============================================================================
