----------------------------- MODULE BinaryFiles -----------------------------
(***************************************************************************)
(* The bytes of the two binary files that are rewritten most: the index    *)
(* (src/index/mod.rs, src/index/cache_tree.rs) and the tables of the       *)
(* reftable stack (src/refs/reftable/format.rs, writer.rs, reader.rs).     *)
(* One process edits an index in memory, writes it and reads it back, or   *)
(* reads what git wrote; another adds tables to a stack, git adds its own, *)
(* compressed and in several blocks, and a power failure may cut the last  *)
(* table, which is renamed into place without being synced.                *)
(*                                                                         *)
(* A file is a sequence of bytes.  Positions count from zero, as the code  *)
(* counts them.  Hashes and zlib are external: all that is used of them is *)
(* that other bytes have another hash, and that a deflated stream says     *)
(* where it ends.  Numbers take the width the format gives them; the ones  *)
(* met here fit in four bytes, and texts are ASCII.                        *)
(***************************************************************************)
EXTENDS Integers, Sequences, FiniteSetsExt, SequencesExt, Functions

CONSTANTS
  NameCap,        \* the largest length of a path that an entry of the index can tell (0xFFF)
  OidLen,         \* the bytes of an id
  BlockSize,      \* of the tables the program writes (4096)
  Digest(_),      \* the hash of bytes
  Crc(_),         \* the checksum of bytes, in four bytes
  Damaged,        \* what is read from a file that cannot be read
  Indexes,        \* indexes that git left, each with the chunks after its entries
  Entries,        \* entries put into an index
  Removals,       \* paths taken out of one
  Batches,        \* the tables the program writes: [version, updates]
  GitTables,      \* the tables git writes: [version, block, refs, logs]
  Sector,         \* what a disk writes at a time
  MaxEdits,       \* bounds the edits of the index
  MaxTables       \* bounds the stack

VARIABLES
  held,        \* the index in memory
  indexFile,   \* its bytes, <<>> if there is no file
  stored,      \* the index last written to the file (history)
  edits,       \* how often the index was edited
  tables,      \* the bytes of the tables, the oldest first
  pushed,      \* what each was written from (history): [refs, logs]
  lost         \* has a power failure cut the last of them?

indexVars == <<held, indexFile, stored, edits>>
tableVars == <<tables, pushed, lost>>

-----------------------------------------------------------------------------
(* Bytes, and reading on from a position: a piece that is read is its value *)
(* and the position after it.                                               *)

Zeros(n)    == [i \in 1..n |-> 0]
Word(w, x)  == [i \in 1..w |-> IF w - i > 3 THEN 0 ELSE (x \div 256 ^ (w - i)) % 256]
Number(b)   == LET f[i \in 0..Len(b)] == IF i = 0 THEN 0 ELSE 256 * f[i - 1] + b[i] IN f[Len(b)]
Piece(b, at, len) == SubSeq(b, at + 1, at + len)
Aligned(n, to)    == (to - (n % to)) % to

Then(x, Go(_)) == IF x = Damaged THEN Damaged ELSE Go(x)
Got(val, at)   == [val |-> val, at |-> at]

Block(b, at, len) == IF at + len > Len(b) THEN Damaged ELSE Got(Piece(b, at, len), at + len)
\* Up to the next byte x, which is passed over.
Until(b, at, x) ==
  LET ends == {i \in at + 1..Len(b) : b[i] = x}
  IN  IF ends = {} THEN Damaged ELSE Got(SubSeq(b, at + 1, Min(ends) - 1), Min(ends))
\* One after the other, k times.
Times(k, at, Parse(_)) ==
  LET f[i \in 0..k] ==
        IF i = 0 THEN Got(<<>>, at)
        ELSE Then(f[i - 1], LAMBDA xs : Then(Parse(xs.at), LAMBDA x : Got(Append(xs.val, x.val), x.at)))
  IN  f[k]

\* write_varint, read_varint: seven bits to a byte, all but the last byte marked
\* and one short.
RECURSIVE VarintFrom(_, _)
VarintFrom(n, mark) ==
  (IF n < 128 THEN <<>> ELSE VarintFrom(n \div 128 - 1, 128)) \o <<mark + (n % 128)>>
Varint(n) == VarintFrom(n, 0)
ReadVarint(b, at) ==
  LET ends == {i \in at + 1..Len(b) : b[i] < 128} IN
  IF ends = {} THEN Damaged
  ELSE LET f[i \in at..Min(ends)] == IF i = at THEN -1 ELSE (f[i - 1] + 1) * 128 + (b[i] % 128)
       IN  Got(f[Min(ends)], Min(ends))

\* A length and as many bytes.
Text(s)        == Varint(Len(s)) \o s
ReadText(b, at) == Then(ReadVarint(b, at), LAMBDA n : Block(b, n.at, n.val))

\* The order of names: byte by byte, a prefix first.
Precedes(x, y) ==
  \/ \E i \in DOMAIN x \cap DOMAIN y : x[i] < y[i] /\ SubSeq(x, 1, i - 1) = SubSeq(y, 1, i - 1)
  \/ x # y /\ IsPrefix(x, y)
-----------------------------------------------------------------------------
(* The index: [version, entries, tree].  An entry: [stat, oid, path, stage, *)
(* valid, extended, more], where stat are the ten words before the id.  The *)
(* tree, if any, is what the extension TREE says: [name, count, oid,        *)
(* children], count -1 and no id where it is not valid.                     *)

Dirc == <<68, 73, 82, 67>>
TreeSig == <<84, 82, 69, 69>>
NoCache == [count |-> -2]
EmptyIndex == [version |-> 2, entries |-> <<>>, tree |-> NoCache]

RECURSIVE Digits(_)
Digits(n) == IF n < 0 THEN <<45, 49>>
             ELSE (IF n < 10 THEN <<>> ELSE Digits(n \div 10)) \o <<48 + (n % 10)>>
Decimal(b) == IF b[1] = 45 THEN -1
              ELSE LET f[i \in 0..Len(b)] == IF i = 0 THEN 0 ELSE 10 * f[i - 1] + b[i] - 48 IN f[Len(b)]
Numeric(b) == b # <<>> /\ \A i \in DOMAIN b : b[i] \in 48..57 \/ (i = 1 /\ b[i] = 45 /\ Len(b) > 1)

RECURSIVE WriteTree(_)
WriteTree(t) ==
  t.name \o <<0>> \o Digits(t.count) \o <<32>> \o Digits(Len(t.children)) \o <<10>> \o t.oid
    \o FlattenSeq([i \in DOMAIN t.children |-> WriteTree(t.children[i])])

RECURSIVE ParseTree(_, _)
ParseTree(b, at) ==
  Then(Until(b, at, 0), LAMBDA name :
  Then(Until(b, name.at, 32), LAMBDA count :
  Then(Until(b, count.at, 10), LAMBDA kids :
    IF ~Numeric(count.val) \/ ~Numeric(kids.val) THEN Damaged
    ELSE
    Then(Block(b, kids.at, IF Decimal(count.val) < 0 THEN 0 ELSE OidLen), LAMBDA oid :
    Then(Times(Decimal(kids.val), oid.at, LAMBDA x : ParseTree(b, x)), LAMBDA children :
      Got([name |-> name.val, count |-> Decimal(count.val), oid |-> oid.val, children |-> children.val],
          children.at))))))
ParseCacheTree(body) ==
  Then(ParseTree(body, 0), LAMBDA t : IF t.at # Len(body) THEN Damaged ELSE t.val)

Bit(x)   == IF x THEN 1 ELSE 0
Flags(e) ==
  Min({Len(e.path), NameCap}) + (NameCap + 1) * (e.stage + 4 * Bit(e.extended) + 8 * Bit(e.valid))

WriteEntry(e) ==
  LET b == FlattenSeq([i \in DOMAIN e.stat |-> Word(4, e.stat[i])]) \o e.oid \o Word(2, Flags(e))
             \o (IF e.extended THEN Word(2, e.more) ELSE <<>>) \o e.path \o <<0>>
  IN  b \o Zeros(Aligned(Len(b), 8))

ParseEntry(b, from, version) ==
  LET head     == 42 + OidLen
      flags    == Number(Piece(b, from + 40 + OidLen, 2))
      length   == flags % (NameCap + 1)
      bits     == flags \div (NameCap + 1)
      extended == (bits \div 4) % 2 = 1
      start    == from + head + (IF extended THEN 2 ELSE 0)
      path     == IF length < NameCap THEN Block(b, start, length) ELSE Until(b, start, 0)
      \* Where the terminator of the path has been passed over.
      after    == start + Len(path.val) + 1
      end      == after + Aligned(after - from, 8)
  IN  IF \/ from + head > Len(b)
         \/ extended /\ (version < 3 \/ start > Len(b))
         \/ path = Damaged
         \/ end > Len(b)
      THEN Damaged
      ELSE Got([stat |-> [i \in 1..10 |-> Number(Piece(b, from + 4 * (i - 1), 4))],
                oid |-> Piece(b, from + 40, OidLen), path |-> path.val, stage |-> bits % 4,
                valid |-> (bits \div 8) % 2 = 1, extended |-> extended,
                more |-> IF extended THEN Number(Piece(b, start - 2, 2)) ELSE 0], end)

\* Extended entries need version 3.
VersionOf(ix) == IF \E i \in DOMAIN ix.entries : ix.entries[i].extended THEN Max({3, ix.version}) ELSE ix.version
Chunk(sig, body) == sig \o Word(4, Len(body)) \o body
\* An index with the chunks given after its entries.
IndexWith(ix, chunks) ==
  LET b == Dirc \o Word(4, VersionOf(ix)) \o Word(4, Len(ix.entries))
             \o FlattenSeq([i \in DOMAIN ix.entries |-> WriteEntry(ix.entries[i])]) \o chunks
  IN  b \o Digest(b)
Serialize(ix) == IndexWith(ix, IF ix.tree = NoCache THEN <<>> ELSE Chunk(TreeSig, WriteTree(ix.tree)))

\* The chunks up to the trailer: TREE is kept, any other passed over.
RECURSIVE Extensions(_, _, _, _)
Extensions(b, at, end, tree) ==
  LET len  == Number(Piece(b, at + 4, 4))
      body == Piece(b, at + 8, len)
      next == at + 8 + len
  IN  IF at + 8 > end THEN Got(tree, at)
      ELSE IF next > end THEN Damaged
      ELSE IF Piece(b, at, 4) = TreeSig /\ body # <<>>
      THEN Then(ParseCacheTree(body), LAMBDA t : Extensions(b, next, end, t))
      ELSE Extensions(b, next, end, tree)

ParseIndex(b) ==
  LET end     == Len(b) - OidLen
      version == Number(Piece(b, 4, 4))
  IN  IF \/ Len(b) < 12 + OidLen
         \/ Piece(b, 0, 4) # Dirc
         \/ version \notin {2, 3}
         \/ Digest(Piece(b, 0, end)) # Piece(b, end, OidLen)
      THEN Damaged
      ELSE Then(Times(Number(Piece(b, 8, 4)), 12, LAMBDA at : ParseEntry(b, at, version)), LAMBDA es :
           Then(Extensions(b, es.at, end, NoCache), LAMBDA x :
             IF x.at # end THEN Damaged ELSE [version |-> version, entries |-> es.val, tree |-> x.val]))

Sorted(es) ==
  SortSeq(es, LAMBDA x, y : Precedes(x.path, y.path) \/ (x.path = y.path /\ x.stage < y.stage))
\* In the place of the entry of that path and stage, or else at the end; then sorted.
Upsert(ix, e) ==
  LET same == {i \in DOMAIN ix.entries : ix.entries[i].path = e.path /\ ix.entries[i].stage = e.stage}
  IN  [ix EXCEPT !.entries = Sorted(IF same = {} THEN Append(@, e) ELSE [@ EXCEPT ![Min(same)] = e])]
RemovePath(ix, path) == [ix EXCEPT !.entries = SelectSeq(@, LAMBDA e : e.path # path)]

-----------------------------------------------------------------------------
(* Tables: a header, blocks of refs, blocks of log records, a footer.  A ref *)
(* record: [name, index, type, data], the type 0 (deleted), 1 (an id), 2 (an *)
(* id and the one it peels to) or 3 (the name of another ref).  A log record: *)
(* [name, index, type, old, new, who, email, time, zone, message], the type  *)
(* 0 (deleted) or 1.                                                         *)

Reft == <<82, 69, 70, 84>>
RefByte == 114
LogByte == 103
HeaderLen(version) == IF version = 2 THEN 28 ELSE 24
FooterLen(version) == HeaderLen(version) + 44

WriteHeader(h) ==
  Reft \o <<h.version>> \o Word(3, h.block) \o Word(8, h.min) \o Word(8, h.max)
    \o (IF h.version = 2 THEN <<115, 50, 53, 54>> ELSE <<>>)
ParseHeader(b) ==
  IF Len(b) < 24 \/ Piece(b, 0, 4) # Reft \/ b[5] \notin {1, 2} \/ Len(b) < HeaderLen(b[5]) THEN Damaged
  ELSE [version |-> b[5], block |-> Number(Piece(b, 5, 3)),
        min |-> Number(Piece(b, 8, 8)), max |-> Number(Piece(b, 16, 8))]

\* After the header again: the positions of the index of refs, of the objects, of
\* their index, of the log and of its index, zero where there is none.
WriteFooter(h, logAt) ==
  LET b == WriteHeader(h) \o Zeros(24) \o Word(8, logAt) \o Zeros(8) IN b \o Crc(b)
ParseFooter(b) ==
  Then(ParseHeader(b), LAMBDA h :
    LET foot == Piece(b, Len(b) - FooterLen(h.version), FooterLen(h.version))
        crc  == Len(foot) - 4
    IN  IF Len(b) < FooterLen(h.version) \/ Crc(Piece(foot, 0, crc)) # Piece(foot, crc, 4) THEN Damaged
        ELSE [header |-> h, log |-> Number(Piece(foot, crc - 16, 8)),
              logIndex |-> Number(Piece(foot, crc - 8, 8)), end |-> Len(b) - Len(foot)])

\* External: a stream that says where it ends.
Deflate(b)     == Word(2, Len(b)) \o b
Inflate(b, at) == Block(b, at + 2, Number(Piece(b, at, 2)))

\* reverse_u64: the later the index, the earlier the key.
Reverse64(b)        == [i \in DOMAIN b |-> 255 - b[i]]
LogKey(name, index) == name \o <<0>> \o Reverse64(Word(8, index))

\* A record of which the key has its first bytes in common with the one before it.
Keyed(prefix, key, type) ==
  Varint(prefix) \o Varint(8 * (Len(key) - prefix) + type) \o SubSeq(key, prefix + 1, Len(key))
RefRecord(prefix, r, delta) ==
  Keyed(prefix, r.name, r.type) \o Varint(delta) \o (IF r.type = 3 THEN Text(r.data) ELSE r.data)
LogRecord(prefix, l) ==
  Keyed(prefix, LogKey(l.name, l.index), l.type)
    \o (IF l.type = 0 THEN <<>>
        ELSE l.old \o l.new \o Text(l.who) \o Text(l.email) \o Varint(l.time)
               \o Word(2, (l.zone + 65536) % 65536) \o Text(l.message))

\* Records, the positions at which a reader may start, and how many there are.
WithRestarts(records, from, restarts) ==
  FlattenSeq(records)
    \o FlattenSeq([i \in 1..restarts |-> Word(3, from + Len(FlattenSeq(SubSeq(records, 1, i - 1))))])
    \o Word(2, restarts)

LogBlock(payload) == <<LogByte>> \o Word(3, Len(payload) + 4) \o Deflate(payload)
\* The first block of refs, whose length counts the header before it; padded.
FirstBlock(h, body) ==
  LET b == WriteHeader(h) \o <<RefByte>> \o Word(3, HeaderLen(h.version) + 4 + Len(body)) \o body
  IN  b \o IF h.block = 0 THEN <<>> ELSE Zeros(Aligned(Len(b), h.block))

\* write_table_file: one block of refs however long it is, every record a restart
\* and none compressed; one block of log records, if an update has one.
WriteTable(version, index, updates) ==
  LET h    == [version |-> version, block |-> BlockSize, min |-> index, max |-> index]
      ups  == SortSeq(updates, LAMBDA x, y : Precedes(x.ref.name, y.ref.name))
      refs == [i \in DOMAIN ups |-> RefRecord(0, ups[i].ref, 0)]
      logged == SelectSeq(ups, LAMBDA u : u.log # <<>>)
      logs == [i \in DOMAIN logged |-> LogRecord(0, logged[i].log[1])]
      body == FirstBlock(h, WithRestarts(refs, HeaderLen(version) + 4, Len(refs)))
      log  == IF logs = <<>> THEN <<>> ELSE LogBlock(WithRestarts(logs, 4, Len(logs)))
  IN  body \o log \o WriteFooter(h, IF logs = <<>> THEN 0 ELSE Len(body))

-----------------------------------------------------------------------------
(* Reading a table.                                                         *)

\* Whole blocks of refs from a position on: an aligned table has them at the
\* multiples of its block size, any other one after the other.
RECURSIVE RefBlocks(_, _, _, _)
RefBlocks(b, f, at, isFirst) ==
  LET len  == Number(Piece(b, at + 1, 3)) - (IF isFirst THEN HeaderLen(f.header.version) ELSE 0)
      size == f.header.block
      next == IF size = 0 THEN at + len ELSE IF isFirst THEN size ELSE size * (at \div size + 1)
  IN  IF at >= f.end \/ b[at + 1] # RefByte THEN <<>>
      ELSE IF at + len > Len(b) THEN Damaged
      ELSE Then(RefBlocks(b, f, next, FALSE), LAMBDA rest : <<Piece(b, at, len)>> \o rest)

\* Whole blocks of log records, inflated behind their four bytes.
RECURSIVE LogBlocks(_, _, _)
LogBlocks(b, f, at) ==
  LET end == IF f.logIndex # 0 THEN Min({f.logIndex, f.end}) ELSE f.end IN
  IF at >= end \/ b[at + 1] # LogByte THEN <<>>
  ELSE Then(Inflate(b, at + 4), LAMBDA p :
       Then(LogBlocks(b, f, p.at), LAMBDA rest : <<Piece(b, at, 4) \o p.val>> \o rest))

\* The records of a block up to its restarts: Value reads what follows the key.
DecodeBlock(b, Value(_, _, _)) ==
  LET restarts == Number(Piece(b, Len(b) - 2, 2))
      end      == Len(b) - 3 * restarts - 2
      RECURSIVE From(_, _)
      From(at, prior) ==
        IF at >= end THEN <<>>
        ELSE Then(ReadVarint(b, at), LAMBDA prefix :
             Then(ReadVarint(b, prefix.at), LAMBDA combo :
             Then(Block(b, combo.at, combo.val \div 8), LAMBDA suffix :
               LET key == SubSeq(prior, 1, prefix.val) \o suffix.val IN
               IF prefix.val > Len(prior) THEN Damaged
               ELSE Then(Value(key, combo.val % 8, suffix.at), LAMBDA v :
                    Then(From(v.at, key), LAMBDA rest : <<v.val>> \o rest)))))
  IN  IF Len(b) < 4 THEN Damaged
      ELSE IF restarts = 0 THEN <<>>
      ELSE IF end < 4 THEN Damaged
      ELSE From(4, <<>>)

DecodeRefBlock(b, min) ==
  DecodeBlock(b, LAMBDA key, type, at :
    Then(ReadVarint(b, at), LAMBDA delta :
    Then(CASE type \in {0, 1, 2} -> Block(b, delta.at, type * OidLen)
           [] type = 3 -> ReadText(b, delta.at)
           [] OTHER -> Damaged, LAMBDA v :
      Got([name |-> key, index |-> min + delta.val, type |-> type, data |-> v.val], v.at))))

DecodeLogBlock(b) ==
  DecodeBlock(b, LAMBDA key, type, at :
    Then(Until(key, 0, 0), LAMBDA name :
    Then(Block(key, name.at, 8), LAMBDA reversed :
      LET l == [name |-> name.val, index |-> Number(Reverse64(reversed.val)), type |-> type] IN
      CASE type = 0 -> Got(l, at)
        [] type = 1 ->
             Then(Block(b, at, OidLen), LAMBDA old :
             Then(Block(b, old.at, OidLen), LAMBDA new :
             Then(ReadText(b, new.at), LAMBDA who :
             Then(ReadText(b, who.at), LAMBDA email :
             Then(ReadVarint(b, email.at), LAMBDA time :
             Then(Block(b, time.at, 2), LAMBDA zone :
             Then(ReadText(b, zone.at), LAMBDA message :
               LET z == Number(zone.val) IN
               Got([old |-> old.val, new |-> new.val, who |-> who.val, email |-> email.val,
                    time |-> time.val, zone |-> IF z < 32768 THEN z ELSE z - 65536,
                    message |-> message.val] @@ l, message.at))))))))
        [] OTHER -> Damaged)))

Concat(blocks, Decode(_)) ==
  LET f[i \in 0..Len(blocks)] ==
        IF i = 0 THEN <<>>
        ELSE Then(f[i - 1], LAMBDA rs : Then(Decode(blocks[i]), LAMBDA r : rs \o r))
  IN  f[Len(blocks)]
TableRefs(b) ==
  Then(ParseFooter(b), LAMBDA f :
  Then(RefBlocks(b, f, HeaderLen(f.header.version), TRUE), LAMBDA blocks :
    Concat(blocks, LAMBDA x : DecodeRefBlock(x, f.header.min))))
TableLogs(b) ==
  Then(ParseFooter(b), LAMBDA f :
    IF f.log = 0 THEN <<>>
    ELSE Then(LogBlocks(b, f, f.log), LAMBDA blocks : Concat(blocks, DecodeLogBlock)))

\* iter: the value each name has in the last table that names it, in the order of
\* the names; and read_reflog: the records of a name, the latest table first, up to
\* one that says deleted.
StackRefs(ts) ==
  Then(Concat(ts, TableRefs), LAMBDA all :
    LET last == {i \in DOMAIN all : \A j \in i + 1..Len(all) : all[j].name # all[i].name}
        kept == {all[i] : i \in {k \in last : all[k].type # 0}}
    IN  SetToSortSeq(kept, LAMBDA x, y : Precedes(x.name, y.name)))
StackLog(ts, name) ==
  LET f[k \in 0..Len(ts)] ==
        IF k = 0 THEN <<>>
        ELSE Then(TableLogs(ts[k]), LAMBDA ls :
             LET mine == SelectSeq(ls, LAMBDA l : l.name = name)
                 gone == {i \in DOMAIN mine : mine[i].type = 0}
             IN  IF gone # {} THEN SubSeq(mine, 1, Min(gone) - 1)
                 ELSE Then(f[k - 1], LAMBDA older : mine \o older))
  IN  f[Len(ts)]

-----------------------------------------------------------------------------
(* What git writes, and the machine.                                        *)

\* External: blocks of refs and of log records, each record compressed against the
\* one before it, with one restart; the blocks of refs padded if there is a size.
GitTable(g, index) ==
  LET h == [version |-> g.version, block |-> g.block, min |-> 1, max |-> index]
      shared(blk, i) == IF i = 1 THEN 0 ELSE Len(LongestCommonPrefix({blk[i - 1].name, blk[i].name}))
      refs(blk) == WithRestarts([i \in DOMAIN blk |-> RefRecord(shared(blk, i), blk[i], blk[i].index - 1)],
                                HeaderLen(g.version) + 4, 1)
      later(blk) == LET b == <<RefByte>> \o Word(3, Len(refs(blk)) + 4) \o refs(blk)
                    IN  b \o IF h.block = 0 THEN <<>> ELSE Zeros(Aligned(Len(b), h.block))
      body == FlattenSeq([k \in DOMAIN g.refs |-> IF k = 1 THEN FirstBlock(h, refs(g.refs[1])) ELSE later(g.refs[k])])
      logs(blk) == LogBlock(WithRestarts([i \in DOMAIN blk |-> LogRecord(shared(blk, i), blk[i])], 4, 1))
  IN  body \o FlattenSeq([k \in DOMAIN g.logs |-> logs(g.logs[k])])
        \o WriteFooter(h, IF g.logs = <<>> THEN 0 ELSE Len(body))

IndexInit ==
  /\ \E i \in Indexes : held = i.index /\ stored = i.index /\ indexFile = IndexWith(i.index, i.chunks)
  /\ edits = 0
TablesInit == tables = <<>> /\ pushed = <<>> /\ lost = FALSE

Edited ==
  /\ edits < MaxEdits /\ edits' = edits + 1
  /\ \/ \E e \in Entries : held' = Upsert(held, e)
     \/ \E path \in Removals : held' = RemovePath(held, path)
  /\ UNCHANGED <<indexFile, stored>>
IndexWritten ==
  /\ indexFile' = Serialize(held) /\ stored' = held
  /\ UNCHANGED <<held, edits>>
\* Without a file the index is empty; a damaged one is not used.
ReadBack == IF indexFile = <<>> THEN EmptyIndex ELSE ParseIndex(indexFile)
IndexRead ==
  /\ ReadBack # Damaged /\ held' = ReadBack
  /\ UNCHANGED <<indexFile, stored, edits>>

NextIndex == Len(tables) + 1
Pushes(file, refs, logs) ==
  /\ ~lost /\ Len(tables) < MaxTables
  /\ tables' = Append(tables, file) /\ pushed' = Append(pushed, [refs |-> refs, logs |-> logs])
  /\ UNCHANGED lost
Indexed(index, r) == [r EXCEPT !.index = index]
TableWritten ==
  \E batch \in Batches :
    LET now(u) == [ref |-> Indexed(NextIndex, u.ref), log |-> [k \in DOMAIN u.log |-> Indexed(NextIndex, u.log[k])]]
        ups    == [i \in DOMAIN batch.updates |-> now(batch.updates[i])]
        byName == SetToSortSeq(Range(ups), LAMBDA x, y : Precedes(x.ref.name, y.ref.name))
    IN  Pushes(WriteTable(batch.version, NextIndex, ups), [i \in DOMAIN byName |-> byName[i].ref],
               FlattenSeq([i \in DOMAIN byName |-> byName[i].log]))
GitTableWritten ==
  \E g \in GitTables :
    LET now(blocks) == [k \in DOMAIN blocks |-> [i \in DOMAIN blocks[k] |-> Indexed(NextIndex, blocks[k][i])]]
    IN  Pushes(GitTable([g EXCEPT !.refs = now(@), !.logs = now(@)], NextIndex),
               FlattenSeq(now(g.refs)), FlattenSeq(now(g.logs)))
\* The power fails before the end of the last table has reached the disk.
EndLost ==
  /\ ~lost /\ tables # <<>> /\ lost' = TRUE
  /\ \E n \in 0..(Len(Last(tables)) - 1) \div Sector :
       tables' = [tables EXCEPT ![Len(tables)] = SubSeq(@, 1, n * Sector)]
  /\ UNCHANGED pushed

IndexNext  == Edited \/ IndexWritten \/ IndexRead
TablesNext == TableWritten \/ GitTableWritten \/ EndLost

-----------------------------------------------------------------------------
(* Properties.                                                              *)

\* What was in memory when the index was written is what is read: every field of
\* every entry, whether its path is too long for its flags or not, and the tree; only
\* the version rises, to the one that extended entries need (Index::parse of
\* Index::serialize, and of what git leaves, whose other chunks are passed over).
IndexKept == ReadBack = [stored EXCEPT !.version = VersionOf(stored)]
\* Entries are in the order of their paths and stages, none of them twice, whatever
\* was put in and taken out (Index::upsert, Index::remove).
EntriesOrdered ==
  \A i \in 2..Len(held.entries) :
    LET x == held.entries[i - 1]
        y == held.entries[i]
    IN  Precedes(x.path, y.path) \/ (x.path = y.path /\ x.stage < y.stage)

\* A table of the program whose one block of refs is longer than a block, and has at
\* the place of the next the letter that begins one.
Overrun(k) ==
  LET f == ParseFooter(tables[k]) IN
  /\ f # Damaged /\ f.header.min = f.header.max /\ f.header.block = BlockSize
  /\ Number(Piece(tables[k], HeaderLen(f.header.version) + 1, 3)) > BlockSize
  /\ tables[k][BlockSize + 1] = RefByte
\* A table gives back every record that was written to it, in order, by the program or
\* by git; one that lost its end is refused (TableReader of write_table_file).
TablesKept ==
  \A k \in DOMAIN tables :
    IF lost /\ k = Len(tables) THEN TableRefs(tables[k]) = Damaged /\ TableLogs(tables[k]) = Damaged
    ELSE ~Overrun(k) => TableRefs(tables[k]) = pushed[k].refs /\ TableLogs(tables[k]) = pushed[k].logs

\* read: the first table from the latest on that names a ref decides.
StackRead(name) ==
  LET ks == {k \in DOMAIN pushed : \E i \in DOMAIN pushed[k].refs : pushed[k].refs[i].name = name}
      rs == pushed[Max(ks)].refs
  IN  IF ks = {} THEN {} ELSE {rs[i] : i \in {j \in DOMAIN rs : rs[j].name = name /\ rs[j].type # 0}}
\* Iterating over a stack gives, for every name, what reading that name gives; and a
\* reflog of which nothing was deleted is whole, the latest record first
\* (StackReader::iter, read, read_reflog).
StackKept ==
  (~lost /\ \A k \in DOMAIN tables : ~Overrun(k)) =>
    LET refs  == StackRefs(tables)
        logs  == FlattenSeq([k \in DOMAIN pushed |-> pushed[Len(pushed) + 1 - k].logs])
        names == UNION {{pushed[k].refs[i].name : i \in DOMAIN pushed[k].refs} : k \in DOMAIN pushed}
    IN  /\ \A name \in names : {r \in Range(refs) : r.name = name} = StackRead(name)
        /\ \A name \in names :
             LET mine == SelectSeq(logs, LAMBDA l : l.name = name)
             IN  (\A i \in DOMAIN mine : mine[i].type = 1) => StackLog(tables, name) = mine

\* What is put into a binary file comes back out of it.
BinaryTruthful == IndexKept /\ EntriesOrdered /\ TablesKept /\ StackKept
=============================================================================
