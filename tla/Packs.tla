-------------------------------- MODULE Packs ---------------------------------
(***************************************************************************)
(* How an object is found and read: packs and their entries                *)
(* (src/pack/file.rs, delta.rs), their indexes (src/pack/idx.rs), the      *)
(* cache before a pack (src/pack/store.rs), the loose store                *)
(* (src/odb/loose.rs) and the database over all of them (src/odb/mod.rs),  *)
(* with the index of many packs (src/midx.rs), `unpack-objects`,           *)
(* `pack-objects` and `verify-pack`.                                       *)
(*                                                                         *)
(* An id is the sequence of its hex digits, two to a byte.  An offset with *)
(* its top bit set (Wide stands for 2^31) is kept in a second table.       *)
(***************************************************************************)
EXTENDS Naturals, Sequences, FiniteSets, SequencesExt, FiniteSetsExt, Functions

CONSTANTS
  Objects,     \* id -> [kind, body]: every object there is
  Digit,       \* the number of hex digits
  Wide,        \* the first offset too large for the first table
  WideCopy,    \* what a copy of length zero stands for (0x10000)
  Offsets,     \* the offsets the entries of a pack have, in order
  Capacity,    \* of the cache
  FirstPacks,  \* sequences of packs there may be at first, in the order of their names
  Streams,     \* packs that come on the standard input
  Lists,       \* lists of ids given to pack-objects
  Sizes,       \* sizes and distances written as varints
  MaxPacks,    \* bounds the packs
  NoObject,    \* no object, no entry, no answer
  BadPack      \* a read that fails

VARIABLES
  packFiles,     \* the packs, as sequences of entries
  caches,        \* for every pack, what the process has read: least recently used first
  looseObjects,  \* the ids of the loose objects
  midx,          \* the index of many packs, or NoObject
  answer         \* of the last read: [id, val], or NoObject

packVars == <<packFiles, caches, looseObjects, midx, answer>>

-----------------------------------------------------------------------------
(* Numbers of many bytes.                                                  *)

RECURSIVE Groups(_)
Groups(n) == IF n < 128 THEN <<n>> ELSE <<128 + (n % 128)>> \o Groups(n \div 128)

\* encode_type_size_header: four bits beside the type, then seven at a time.
EncodeSize(type, n) == IF n < 16 THEN <<type * 16 + n>>
                       ELSE <<128 + type * 16 + (n % 16)>> \o Groups(n \div 16)

\* How many bytes a number takes, zero if it is cut short.
Length(b) == LET ends == {i \in DOMAIN b : b[i] < 128} IN IF ends = {} THEN 0 ELSE Min(ends)
LittleEndian(b) == FoldRight(LAMBDA x, n : n * 128 + (x % 128), b, 0)

ParseTypeSize(b) ==
  IF Length(b) = 0 THEN BadPack
  ELSE [type |-> (b[1] \div 16) % 8, used |-> Length(b),
        n |-> (b[1] % 16) + 16 * LittleEndian(SubSeq(b, 2, Length(b)))]

\* read_offset_varint: the high groups first, each but the last one short by one.
ReadOffset(b) ==
  IF Length(b) = 0 THEN BadPack
  ELSE [used |-> Length(b),
        n |-> FoldLeft(LAMBDA n, x : (n + 1) * 128 + (x % 128), b[1] % 128, SubSeq(b, 2, Length(b)))]

-----------------------------------------------------------------------------
(* Deltas and entries.  An entry: [id, at, type, base, data].              *)

\* What writes packs with deltas: the common start is copied, the rest inserted.
Delta(base, target) ==
  LET same == Max({n \in 0..Min({Len(base), Len(target)}) : SubSeq(base, 1, n) = SubSeq(target, 1, n)})
      size == IF same = WideCopy THEN 0 ELSE same
      copy == IF same = 0 THEN <<>> ELSE <<[op |-> "copy", at |-> 0, n |-> size]>>
      rest == SubSeq(target, same + 1, Len(target))
  IN  [source |-> Len(base), target |-> Len(target),
       ops |-> copy \o (IF rest = <<>> THEN <<>> ELSE <<[op |-> "insert", data |-> rest]>>)]

ApplyDelta(base, d) ==
  LET length(o) == IF o.n = 0 THEN WideCopy ELSE o.n
      step(out, o) == IF out = BadPack THEN out
                      ELSE IF o.op = "insert" THEN out \o o.data
                      ELSE IF o.at + length(o) > Len(base) THEN BadPack
                      ELSE out \o SubSeq(base, o.at + 1, o.at + length(o))
      out == FoldLeft(step, <<>>, d.ops)
  IN  IF d.source # Len(base) \/ out = BadPack THEN BadPack
      ELSE IF Len(out) # d.target THEN BadPack ELSE out

Direct(id, i)       == [id |-> id, at |-> Offsets[i], type |-> "direct", base |-> NoObject, data |-> Objects[id]]
OfsDelta(id, i, p, j) == [id |-> id, at |-> Offsets[i], type |-> "ofs", base |-> p[j].at,
                          data |-> Delta(Objects[p[j].id].body, Objects[id].body)]
RefDelta(id, i, b)  == [id |-> id, at |-> Offsets[i], type |-> "ref", base |-> b,
                        data |-> Delta(Objects[b].body, Objects[id].body)]

EntryAt(p, at) == p[CHOOSE i \in DOMAIN p : p[i].at = at]

-----------------------------------------------------------------------------
(* Indexes.                                                                *)

FirstByte(id) == id[1] * Digit + id[2]
Before(x, y) == \E i \in DOMAIN x : x[i] < y[i] /\ SubSeq(x, 1, i - 1) = SubSeq(y, 1, i - 1)

\* The table of an index over rows [id, pack, at], in the order of their ids.
TableOf(rows) ==
  LET s    == SortSeq(rows, LAMBDA x, y : Before(x.id, y.id))
      wide == SelectSeq(s, LAMBDA r : r.at >= Wide)
      small(i) == IF s[i].at < Wide THEN s[i].at
                  ELSE Wide + Cardinality({j \in 1..i - 1 : s[j].at >= Wide})
  IN  [fanout |-> [b \in 0..Digit * Digit - 1 |-> Cardinality({i \in DOMAIN s : FirstByte(s[i].id) <= b})],
       ids |-> [i \in DOMAIN s |-> s[i].id], pack |-> [i \in DOMAIN s |-> s[i].pack],
       small |-> [i \in DOMAIN s |-> small(i)], large |-> [i \in DOMAIN wide |-> wide[i].at]]

IdxOf(p) == TableOf([i \in DOMAIN p |-> [id |-> p[i].id, pack |-> 1, at |-> p[i].at]])

\* The rows of the ids that begin with a byte, and a binary search among them.
Bucket(t, byte) == <<IF byte = 0 THEN 0 ELSE t.fanout[byte - 1], t.fanout[byte]>>
RECURSIVE Search(_, _, _, _)
Search(t, id, left, right) ==
  LET mid == left + (right - left) \div 2 IN
  IF left >= right THEN NoObject
  ELSE IF t.ids[mid + 1] = id THEN mid + 1
  ELSE IF Before(t.ids[mid + 1], id) THEN Search(t, id, mid + 1, right)
  ELSE Search(t, id, left, mid)
FindIndex(t, id) == LET b == Bucket(t, FirstByte(id)) IN Search(t, id, b[1], b[2])

OffsetAtIndex(t, i) == IF t.small[i] < Wide THEN t.small[i] ELSE t.large[t.small[i] - Wide + 1]
Lookup(t, id) == LET i == FindIndex(t, id) IN IF i = NoObject THEN NoObject ELSE OffsetAtIndex(t, i)

\* The ids that begin with digits: the first byte finds the rows to look at.
IdxPrefix(t, digits) ==
  LET byte == digits[1] * Digit + (IF Len(digits) = 1 THEN 0 ELSE digits[2])
      b    == Bucket(t, byte)
  IN  {t.ids[i] : i \in {j \in b[1] + 1..b[2] : IsPrefix(digits, t.ids[j])}}
LoosePrefix(digits) == IF Len(digits) < 2 THEN {} ELSE {id \in looseObjects : IsPrefix(digits, id)}
ResolvePrefix(digits) ==
  LoosePrefix(digits) \cup UNION {IdxPrefix(IdxOf(packFiles[k]), digits) : k \in DOMAIN packFiles}

-----------------------------------------------------------------------------
(* The cache, and an entry with the deltas it rests on.                    *)

Cached(c, at)    == \E i \in DOMAIN c : c[i].at = at
CacheGet(c, at)  == LET hit == CHOOSE i \in DOMAIN c : c[i].at = at IN Append(RemoveAt(c, hit), c[hit])
CacheInsert(c, at, val) ==
  LET kept == IF ~Cached(c, at) /\ Len(c) >= Capacity THEN Tail(c) ELSE SelectSeq(c, LAMBDA x : x.at # at)
  IN  Append(kept, [at |-> at, val |-> val])

\* Seeded fault: what is patched is kept under the offset of its base.
CachePatchAtBase(c, at, base, val) == CacheInsert(c, base, val)
CachePatch(c, at, base, val) == CacheInsert(c, at, val)

BaseAt(p, e) == IF e.type = "ofs" THEN e.base ELSE Lookup(IdxOf(p), e.base)

RECURSIVE ResolveAt(_, _, _)
ResolveAt(p, c, at) ==
  LET e    == EntryAt(p, at)
      base == BaseAt(p, e)
  IN  IF Cached(c, at) THEN [val |-> Last(CacheGet(c, at)).val, cache |-> CacheGet(c, at)]
      ELSE IF e.type = "direct" THEN [val |-> e.data, cache |-> CacheInsert(c, at, e.data)]
      ELSE IF base = NoObject THEN [val |-> BadPack, cache |-> c]
      ELSE LET r    == ResolveAt(p, c, base)
               body == ApplyDelta(r.val.body, e.data)
               val  == [kind |-> r.val.kind, body |-> body]
           IN  IF r.val = BadPack THEN r
               ELSE IF body = BadPack THEN [val |-> BadPack, cache |-> r.cache]
               ELSE [val |-> val, cache |-> CachePatch(r.cache, at, base, val)]

\* PackStore::read, with what it leaves in the cache.
PackRead(k, id) ==
  LET at == Lookup(IdxOf(packFiles[k]), id)
  IN  IF at = NoObject THEN [val |-> NoObject, cache |-> caches[k]] ELSE ResolveAt(packFiles[k], caches[k], at)

\* ObjectDb::read: the loose objects, then pack by pack; a failure ends it.
Holders(id) == {k \in DOMAIN packFiles : Lookup(IdxOf(packFiles[k]), id) # NoObject}
DbRead(id) == IF id \in looseObjects THEN Objects[id]
              ELSE IF Holders(id) = {} THEN BadPack ELSE PackRead(Min(Holders(id)), id).val

-----------------------------------------------------------------------------
(* The commands.                                                           *)

Read ==
  \E id \in DOMAIN Objects :
    /\ answer' = [id |-> id, val |-> DbRead(id)]
    /\ caches' = IF id \in looseObjects \/ Holders(id) = {} THEN caches
                 ELSE [caches EXCEPT ![Min(Holders(id))] = PackRead(Min(Holders(id)), id).cache]
    /\ UNCHANGED <<packFiles, looseObjects, midx>>

IdsOf(val) == {id \in DOMAIN Objects : Objects[id] = val}

\* unpack-objects: entry by entry; the base of a ref delta is sought in the
\* database alone, where the entries before it are by then.
OfKind(kind, body) == IF body = BadPack THEN BadPack ELSE [kind |-> kind, body |-> body]
OnBase(base, d) == IF base = BadPack THEN BadPack ELSE OfKind(base.kind, ApplyDelta(base.body, d))
RECURSIVE ResolveEntry(_, _, _)
ResolveEntry(p, e, written) ==
  IF e.type = "direct" THEN e.data
  ELSE IF e.type = "ofs" THEN OnBase(ResolveEntry(p, EntryAt(p, e.base), written), e.data)
  ELSE OnBase(IF e.base \in written THEN Objects[e.base] ELSE DbRead(e.base), e.data)

RECURSIVE UnpackFrom(_, _, _, _)
UnpackFrom(p, i, written, dry) ==
  IF i > Len(p) THEN [written |-> written, ok |-> TRUE]
  ELSE \* the entry as an object: what was written before it is there by then
       LET Then(val) == IF val = BadPack THEN [written |-> written, ok |-> FALSE]
                        ELSE UnpackFrom(p, i + 1, IF dry THEN written ELSE written \cup IdsOf(val), dry)
       IN  Then(ResolveEntry(p, p[i], written))

UnpackObjects ==
  \E p \in Streams, dry \in BOOLEAN :
    /\ looseObjects' = looseObjects \cup UnpackFrom(p, 1, {}, dry).written
    /\ UNCHANGED <<packFiles, caches, midx, answer>>

\* pack-objects: whole objects in the order given, one given twice too; the name
\* of the pack is a hash, so it comes before or after the others.
PackObjects ==
  \E ids \in Lists, first \in BOOLEAN :
    LET p == [i \in DOMAIN ids |-> Direct(ids[i], i)] IN
    /\ Len(packFiles) < MaxPacks /\ \A i \in DOMAIN ids : DbRead(ids[i]) # BadPack
    /\ packFiles' = IF first THEN <<p>> \o packFiles ELSE Append(packFiles, p)
    /\ caches' = [k \in DOMAIN packFiles' |-> <<>>]
    /\ answer' = NoObject /\ UNCHANGED <<looseObjects, midx>>

\* multi-pack-index write: of an object in several packs, the first pack's row.
MidxRows ==
  LET row(k, i) == [id |-> packFiles[k][i].id, pack |-> k, at |-> Lookup(IdxOf(packFiles[k]), packFiles[k][i].id)]
      all == {row(k, i) : <<k, i>> \in {<<x, y>> \in (DOMAIN packFiles) \X DOMAIN Offsets : y <= Len(packFiles[x])}}
  IN  {r \in all : \A s \in all : s.id = r.id => r.pack <= s.pack}
WriteMidx == /\ packFiles # <<>> /\ midx' = [table |-> TableOf(SetToSeq(MidxRows)), names |-> packFiles]
             /\ UNCHANGED <<packFiles, caches, looseObjects, answer>>
MidxLookup(m, id) ==
  LET i == FindIndex(m.table, id)
  IN  IF i = NoObject THEN NoObject ELSE [pack |-> m.names[m.table.pack[i]], at |-> OffsetAtIndex(m.table, i)]

\* The file of that index: names ended by zeros and padded to fours, then chunks
\* one after the other behind a table of where they start and where the last ends.
ZeroPadded(b) == b \o [i \in 1..((4 - (Len(b) % 4)) % 4) |-> 0]
NameChunk(names) == ZeroPadded(FoldLeft(LAMBDA b, n : b \o Append(n, 0), <<>>, names))
ReadNames(b, count) ==
  LET ends == SetToSortSeq({i \in DOMAIN b : b[i] = 0}, <)
  IN  IF Len(ends) < count THEN BadPack
      ELSE [k \in 1..count |-> SubSeq(b, (IF k = 1 THEN 0 ELSE ends[k - 1]) + 1, ends[k] - 1)]

ChunkSizes(names, n, wide) ==
  <<<<"PNAM", Len(NameChunk(names))>>, <<"OIDF", 1024>>, <<"OIDL", 20 * n>>, <<"OOFF", 8 * n>>>>
    \o (IF wide = 0 THEN <<>> ELSE <<<<"LOFF", 8 * wide>>>>)
Toc(sizes) ==
  LET first == 12 + 12 * (Len(sizes) + 1)
      before(i) == FoldLeft(LAMBDA x, c : x + c[2], first, SubSeq(sizes, 1, i - 1))
  IN  [i \in 1..Len(sizes) + 1 |-> <<IF i > Len(sizes) THEN "" ELSE sizes[i][1], before(i)>>]
\* MultiPackIndex::open: a chunk ends where the next entry of the table starts.
Extents(toc) == [id \in {toc[i][1] : i \in 1..Len(toc) - 1} |->
                   LET i == CHOOSE j \in DOMAIN toc : toc[j][1] = id IN <<toc[i][2], toc[i + 1][2]>>]

\* multi-pack-index verify.
Verify(t, n) ==
  /\ \A b \in DOMAIN t.fanout \ {0} : t.fanout[b - 1] <= t.fanout[b]
  /\ t.fanout[Digit * Digit - 1] = Len(t.ids)
  /\ \A i \in 2..Len(t.ids) : Before(t.ids[i - 1], t.ids[i])
  /\ \A i \in DOMAIN t.ids : t.pack[i] <= n

\* verify-pack: the kind at the end of a chain of deltas, and how long the chain is.
RECURSIVE KindAt(_, _)
KindAt(p, at) == LET e == EntryAt(p, at) IN
                 IF e.type = "direct" THEN e.data.kind
                 ELSE IF BaseAt(p, e) = NoObject THEN BadPack ELSE KindAt(p, BaseAt(p, e))
RECURSIVE Depth(_, _)
Depth(p, at) == LET e == EntryAt(p, at) IN IF e.type = "direct" THEN 0 ELSE 1 + Depth(p, BaseAt(p, e))

PackInit ==
  /\ packFiles \in FirstPacks /\ caches = [k \in DOMAIN packFiles |-> <<>>]
  /\ looseObjects \in {{}, {CHOOSE id \in DOMAIN Objects : TRUE}} /\ midx = NoObject /\ answer = NoObject

PackNext == Read \/ UnpackObjects \/ PackObjects \/ WriteMidx

-----------------------------------------------------------------------------
\* A chain of deltas that ends in the pack it began in.
Whole(p, at) == KindAt(p, at) # BadPack

\* What is read under an id is that object; a read fails only if no store has the
\* object or the first pack that has it rests on a base in another store.
ReadTruthful ==
  answer # NoObject =>
    LET id == answer.id IN
    IF answer.val # BadPack THEN answer.val = Objects[id]
    ELSE \/ id \in looseObjects \/ Holders(id) = {}
         \/ LET p == packFiles[Min(Holders(id))] IN ~Whole(p, Lookup(IdxOf(p), id))

\* The cache holds what the pack holds, every offset once, and never too much.
CacheTruthful ==
  \A k \in DOMAIN caches :
    /\ Len(caches[k]) <= Capacity /\ IsInjective([i \in DOMAIN caches[k] |-> caches[k][i].at])
    /\ \A i \in DOMAIN caches[k] : caches[k][i].val = Objects[EntryAt(packFiles[k], caches[k][i].at).id]

\* An index finds the objects of its pack and no others, by id and by the digits an
\* id begins with; verify-pack says of a chain what reading it shows.
IndexTruthful ==
  \A k \in DOMAIN packFiles :
    LET p == packFiles[k] IN
    \A id \in DOMAIN Objects :
      LET at == Lookup(IdxOf(p), id) IN
      /\ (at # NoObject) = (\E i \in DOMAIN p : p[i].id = id)
      /\ at # NoObject => /\ EntryAt(p, at).id = id
                          /\ Whole(p, at) => /\ KindAt(p, at) = Objects[id].kind /\ Depth(p, at) < Len(p)
                                             /\ ResolveAt(p, <<>>, at).val = Objects[id]
PrefixTruthful ==
  \A id \in DOMAIN Objects : \A n \in 2..Len(id) :
    ResolvePrefix(SubSeq(id, 1, n)) =
      {x \in DOMAIN Objects : IsPrefix(SubSeq(id, 1, n), x) /\ (x \in looseObjects \/ Holders(x) # {})}

\* The index of many packs names, for the packs it was written over, the first pack
\* with the object and where it is, and passes its own check.
MidxTruthful ==
  midx # NoObject =>
    /\ Verify(midx.table, Len(midx.names))
    /\ \A id \in DOMAIN Objects :
         LET m    == MidxLookup(midx, id)
             with == SelectSeq(midx.names, LAMBDA p : Lookup(IdxOf(p), id) # NoObject)
         IN  IF with = <<>> THEN m = NoObject ELSE m = [pack |-> with[1], at |-> Lookup(IdxOf(with[1]), id)]

\* Numbers come back as they were written, whatever stands behind them, and no two
\* ways of writing a distance stand for one distance, with none left out.
Codes == [1..1 -> 0..127] \cup {<<x, y>> : x \in {128, 129, 255}, y \in {0, 1, 127}}
NumbersTruthful ==
  /\ \A n \in Sizes, type \in 1..7, rest \in {<<>>, <<0>>, <<200>>} :
       ParseTypeSize(EncodeSize(type, n) \o rest) = [type |-> type, n |-> n, used |-> Len(EncodeSize(type, n))]
  /\ \A x \in Codes, y \in Codes : ReadOffset(x).n = ReadOffset(y).n => x = y
  /\ ReadOffset(<<128, 0>>).n = ReadOffset(<<127>>).n + 1

\* The parts of the file of many packs are found where they were put.
FileTruthful ==
  \A names \in SeqOf({<<1>>, <<1, 2, 3>>, <<2, 2, 2, 2>>}, 2) : \A n \in 0..2 : \A wide \in 0..n :
    LET sizes == ChunkSizes(names, n, wide)
        found == Extents(Toc(sizes))
    IN  /\ ReadNames(NameChunk(names), Len(names)) = names
        /\ \A i \in DOMAIN sizes : LET x == found[sizes[i][1]] IN
             /\ x[2] - x[1] = sizes[i][2] /\ x[1] >= 12 + 12 * (Len(sizes) + 1)
             /\ \A j \in DOMAIN sizes \ {i} : LET y == found[sizes[j][1]] IN x[2] <= y[1] \/ y[2] <= x[1]

\* What unpack-objects leaves are objects, all of a stream when it ends well.
UnpackTruthful ==
  \A p \in Streams :
    LET u == UnpackFrom(p, 1, {}, FALSE) IN u.ok => u.written = {p[i].id : i \in DOMAIN p}

\* src/pack/store.rs:1-6: what is read is what was written, by whichever way it is
\* found.  (There is no database when packFiles is NoObject.)
\* What does not depend on the caches is looked at before anything is read.
PacksTruthful == packFiles # NoObject =>
  /\ ReadTruthful /\ CacheTruthful
  /\ answer = NoObject => IndexTruthful /\ PrefixTruthful /\ MidxTruthful /\ UnpackTruthful
  /\ packFiles = <<>> => NumbersTruthful /\ FileTruthful
=============================================================================
