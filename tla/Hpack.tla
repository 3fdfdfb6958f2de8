-------------------------------- MODULE Hpack --------------------------------
(***************************************************************************)
(* HPACK (extensions/http2/src/hpack): HpackEncoder::encodeResponse() on   *)
(* the server, a decoder in step with it on the client, both with a        *)
(* HpackTable, and the blocks between them.  A second decoder reads blocks *)
(* of a foreign encoder, which also resizes its table.                     *)
(*                                                                         *)
(* A block is a sequence of field representations; strings, the Huffman    *)
(* code and the static table's length are abstracted away.                 *)
(***************************************************************************)
EXTENDS Naturals, Sequences, SequencesExt, FiniteSetsExt

CONSTANTS Static,     \* the static table, a sequence of entries
          Responses,  \* responses: [status, headers: a sequence of entries, extras: likewise]
          Fields,     \* entries a foreign encoder sends
          EntrySize(_),
          MaxTable,   \* HpackTable::kDefaultMaxSize
          MaxBlocks   \* bound: blocks encoded

VARIABLES enc, dec, foreign,   \* three tables: [dyn, size, max]
          wire,                \* blocks sent and not yet decoded, with the headers they stand for
          wrong,               \* history: a block was decoded to other headers
          encoded              \* blocks encoded

vars == <<enc, dec, foreign, wire, wrong, encoded>>

-----------------------------------------------------------------------------
\* HpackTable

Size(dyn) == FoldSeq(LAMBDA e, n : EntrySize(e) + n, 0, dyn)

\* evict(): the oldest entries go until the rest fits.
\* Bug: one entry is evicted at most.
Evict_Once(t) == IF t.size <= t.max THEN t
                 ELSE [t EXCEPT !.dyn = Front(@), !.size = @ - EntrySize(Last(t.dyn))]
Evict(t) ==
    LET Without(n) == t.size - Size(SubSeq(t.dyn, n + 1, Len(t.dyn)))
        keep == Max({0} \cup {n \in 1..Len(t.dyn) : Without(n) <= t.max})
    IN  [t EXCEPT !.dyn = SubSeq(@, 1, keep), !.size = Without(keep)]

\* insert(): an entry larger than the table empties it.
Insert(t, e) ==
    IF EntrySize(e) > t.max THEN [t EXCEPT !.dyn = <<>>, !.size = 0]
    ELSE Evict([t EXCEPT !.dyn = <<e>> \o @, !.size = @ + EntrySize(e)])

SetMaxSize(t, n) == Evict([t EXCEPT !.max = n])

Get(t, i) == IF i <= Len(Static) THEN Static[i] ELSE t.dyn[i - Len(Static)]
InTable(t, i) == i \in 1..(Len(Static) + Len(t.dyn))

\* find(): the first entry with this name and value, else the first with this name, else 0.
Find(t, e) ==
    LET all   == Static \o t.dyn
        exact == SelectInSeq(all, LAMBDA x : x = e)
    IN  IF exact > 0 THEN [exact |-> exact, name |-> 0]
        ELSE [exact |-> 0, name |-> SelectInSeq(all, LAMBDA x : x.name = e.name)]

-----------------------------------------------------------------------------
\* HpackEncoder::encodeResponse()

Indexed(i)    == [rep |-> "indexed", index |-> i]
Literal(i, e) == [rep |-> "literal", index |-> i, name |-> e.name, value |-> e.value]

\* One header: an index, or a literal with incremental indexing.
\* Bug: a header whose name is known is sent as an indexed literal but not inserted.
EncodeHeader_Forgets(st, e) ==
    LET f == Find(st.table, e)
    IN  [table |-> IF f.exact + f.name > 0 THEN st.table ELSE Insert(st.table, e),
         out |-> Append(st.out, IF f.exact > 0 THEN Indexed(f.exact) ELSE Literal(f.name, e))]
EncodeHeader(st, e) ==
    LET f == Find(st.table, e)
    IN  IF f.exact > 0 THEN [st EXCEPT !.out = Append(@, Indexed(f.exact))]
        ELSE [table |-> Insert(st.table, e), out |-> Append(st.out, Literal(f.name, e))]

\* content-length and the cookies: the same representation, but the table is not touched.
EncodeExtra(e) == Literal(0, e)

EncodeResponse(r) ==
    /\ encoded < MaxBlocks
    /\ LET fields == <<r.status>> \o r.headers
           st == FoldLeft(EncodeHeader, [table |-> enc, out |-> <<>>], fields)
       IN  /\ enc' = st.table
           /\ wire' = Append(wire, [reps |-> st.out \o [j \in DOMAIN r.extras |-> EncodeExtra(r.extras[j])],
                                    means |-> fields \o r.extras])
    /\ encoded' = encoded + 1
    /\ UNCHANGED <<dec, foreign, wrong>>

-----------------------------------------------------------------------------
\* HpackDecoder::decode()

\* One representation; an index outside of the table throws, which fails the block.
DecodeRep(st, rep) ==
    IF st.ok = "no" \/ (rep.rep = "indexed" /\ ~InTable(st.table, rep.index))
                    \/ (rep.rep = "literal" /\ rep.index > 0 /\ ~InTable(st.table, rep.index))
    THEN [st EXCEPT !.ok = "no"]
    ELSE CASE rep.rep = "indexed" -> [st EXCEPT !.out = Append(@, Get(st.table, rep.index))]
           [] rep.rep = "literal" ->
                LET e == [name |-> IF rep.index = 0 THEN rep.name ELSE Get(st.table, rep.index).name,
                          value |-> rep.value]
                IN  [st EXCEPT !.table = Insert(@, e), !.out = Append(@, e)]
           [] rep.rep = "plain"   ->    \* literal without indexing
                [st EXCEPT !.out = Append(@, [name |-> rep.name, value |-> rep.value])]
           [] rep.rep = "resize"  ->
                IF st.out /= <<>> \/ rep.index > st.table.max THEN [st EXCEPT !.ok = "no"]
                ELSE [st EXCEPT !.table = SetMaxSize(@, rep.index)]

Decode(table, reps) == FoldLeft(DecodeRep, [table |-> table, out |-> <<>>, ok |-> "yes"], reps)

DecodeBlock ==
    /\ wire /= <<>>
    /\ LET d == Decode(dec, Head(wire).reps)
       IN  /\ dec' = d.table
           /\ wrong' = IF d.ok = "yes" /\ d.out = Head(wire).means THEN wrong ELSE "yes"
    /\ wire' = Tail(wire)
    /\ UNCHANGED <<enc, foreign, encoded>>

\* A foreign encoder's block: any one representation, perhaps after a resize.
ForeignReps ==
    [rep : {"indexed"}, index : 1..(Len(Static) + MaxTable)]
      \cup {[rep |-> r, index |-> 0, name |-> e.name, value |-> e.value] : r \in {"literal", "plain"}, e \in Fields}

ForeignBlock ==
    /\ \E n \in 0..MaxTable, rep \in ForeignReps, resized \in BOOLEAN :
         foreign' = Decode(foreign, IF resized THEN <<[rep |-> "resize", index |-> n], rep>> ELSE <<rep>>).table
    /\ UNCHANGED <<enc, dec, wire, wrong, encoded>>

-----------------------------------------------------------------------------
Empty == [dyn |-> <<>>, size |-> 0, max |-> MaxTable]

Init == enc = Empty /\ dec = Empty /\ foreign = Empty /\ wire = <<>> /\ wrong = "no" /\ encoded = 0

Next == (\E r \in Responses : EncodeResponse(r)) \/ DecodeBlock \/ ForeignBlock

\* Every table counts exactly its entries and holds no more than its maximum, through
\* insertions, evictions and resizes.
SizeIsExact == \A t \in {enc, dec, foreign} : t.size = Size(t.dyn) /\ t.size <= t.max

\* A block decodes to the headers it was made from: encoder and decoder evict and insert alike,
\* though the decoder is any number of blocks behind.  (With content-length or cookies among
\* the headers this is not so: extensions/http2/tests/http2_client_test.cc:217 expects it.)
DecodedAsEncoded == wrong = "no"
=============================================================================
