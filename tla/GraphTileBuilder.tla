---------------------------- MODULE GraphTileBuilder ----------------------------
(***************************************************************************)
(* Rewriting a finished graph tile: src/src/mjolnir/graphtilebuilder.cc,   *)
(* edgeinfobuilder.cc, and the elevation pass of elevationbuilder.cc.      *)
(*                                                                         *)
(* Jobs that annotate a tile (environment scores, landmarks, elevation)    *)
(* read it into a builder, let its edge infos grow, and write it back.     *)
(* Directed edges refer to edge infos, and edge infos to names, by byte    *)
(* offset, so growth in one place moves what lies behind it.               *)
(*                                                                         *)
(* Abstractions.  The records of fixed size in front of the edge bins      *)
(* (nodes, edges, signs, admins...) have sizes that are multiples of 8 and *)
(* are left out: offsets count from the edge bins.  A name is a model      *)
(* value with a width in bytes, terminator included.  An edge info is its  *)
(* size without names and elevation, its elevation bytes and its names.    *)
(* The lists of complex restrictions and lane connections are empty.       *)
(***************************************************************************)
EXTENDS Integers, FiniteSets, Sequences, SequencesExt, FiniteSetsExt

CONSTANTS
  Edges,             \* directed edges of the tile
  Values,            \* tagged values that jobs offer
  Width,             \* bytes of each tagged value, with tag and terminator
  kMaxNamesPerEdge,
  BaseSizes,         \* sizes an edge info may have without names and elevation
  NameWidths,        \* widths of the one street name of the fresh tile
  BinSizes,          \* edge ids in the bins of the fresh tile
  ElevationSizes,    \* bytes of encoded elevation, by edge length
  Owner,             \* the edge info of each edge; twins share one
  MaxBatch           \* bound on the values of one AddTaggedValues() call

ASSUME TileAssumption ==
  /\ Edges # {}
  /\ Width \in [Values -> Nat \ {0}]
  /\ kMaxNamesPerEdge \in Nat
  /\ BaseSizes \subseteq Nat /\ NameWidths \subseteq Nat \ {0} /\ BinSizes \subseteq Nat
  /\ ElevationSizes \subseteq Nat
  /\ Owner \in [Edges -> 1 .. Cardinality(Edges)]
  /\ {Owner[e] : e \in Edges} = 1 .. Max({Owner[e] : e \in Edges})
  /\ MaxBatch \in Nat

VARIABLES
  disk,       \* the tile file
  builder,    \* the GraphTileBuilder
  phase,      \* "closed", "open", "sealed" (offsets renumbered) or "threw"
  offered     \* history: values offered per edge info, and whether there was room

vars == <<disk, builder, phase, offered>>

NInfos == Max({Owner[e] : e \in Edges})
Infos  == 1 .. NInfos
Batches == UNION {[1 .. n -> Edges \X Values] : n \in 1 .. MaxBatch}

SizeOfNameInfo == 4
SizeOfGraphId  == 8
RoundUp(n, k)  == ((n + k - 1) \div k) * k
Total(f)       == FoldLeft(LAMBDA a, b : a + b, 0, f)

\* EdgeInfoBuilder::SizeOf()
SizeOf(ei) == RoundUp(ei.base + SizeOfNameInfo * Len(ei.names) + ei.elevation, 4)

\* Where edge info i of the list lies once the list is written.
Start(infos, i) == Total([j \in 1 .. i - 1 |-> SizeOf(infos[j])])

\* The bytes of a text list, kept as a function from offset to name and width.
TextBytes(text) == FoldSet(LAMBDA o, sum : sum + text[o].width, 0, DOMAIN text)

----------------------------------------------------------------------------
\* Faulty variant: the bins that are written are not counted in the header.
WrittenWithoutBins(b) ==
  LET edge_info_size  == Start(b.infos, Len(b.infos) + 1)
      position        == SizeOfGraphId * b.bins + edge_info_size + TextBytes(b.text)
      padding         == RoundUp(position, 8) - position
  IN [infos |-> b.infos, edges |-> b.edges, text |-> b.text, bins |-> b.bins,
      edgeinfo_offset |-> 0,
      textlist_offset |-> edge_info_size,
      end_offset      |-> edge_info_size + b.text_list_offset + padding,
      size            |-> position + padding]

\* StoreTileData(): what the builder writes.  Header offsets are computed from the
\* builder's counters, the bytes come from its lists.
Written(b) ==
  LET bins_size       == SizeOfGraphId * b.bins
      edge_info_size  == Start(b.infos, Len(b.infos) + 1)
      position        == bins_size + edge_info_size + TextBytes(b.text)
      padding         == RoundUp(position, 8) - position
  IN [infos |-> b.infos, edges |-> b.edges, text |-> b.text, bins |-> b.bins,
      edgeinfo_offset |-> bins_size,
      textlist_offset |-> bins_size + edge_info_size,
      end_offset      |-> bins_size + edge_info_size + b.text_list_offset + padding,
      size            |-> position + padding]

\* A freshly built tile: the empty text, then a street name that edge info 1 may use.
Fresh(bases, named, w, bins) ==
  LET infos == [i \in Infos |-> [base |-> bases[i], elevation |-> 0,
                                 names |-> IF i = 1 /\ named THEN <<1>> ELSE <<>>]]
  IN Written([infos |-> infos,
              edges |-> [e \in Edges |-> Start(infos, Owner[e])],
              text |-> 0 :> [val |-> "", width |-> 1] @@ 1 :> [val |-> "street", width |-> w],
              text_list_offset |-> 1 + w, bins |-> bins])

Closed == [infos |-> <<>>]

Init ==
  /\ \E bases \in [Infos -> BaseSizes], named \in BOOLEAN, w \in NameWidths, n \in BinSizes :
       disk = Fresh(bases, named, w, n)
  /\ builder = Closed
  /\ phase = "closed"
  /\ offered = [i \in Infos |-> [values |-> {}, due |-> {}]]

----------------------------------------------------------------------------
\* The offsets that something in tile d refers to: the empty text, the street name
\* (which an admin or a sign also uses) and the names of the edge infos.
Referenced(d) == {0, 1} \cup UNION {Range(d.infos[i].names) : i \in 1 .. Len(d.infos)}

\* The text list as deserialized: an entry reaches to the next offset in use, the last
\* one to the end of the text list, padding included.
TextList(d) ==
  LET refs == Referenced(d)
      size == d.end_offset - d.textlist_offset
      End(o) == IF \E p \in refs : p > o THEN Min({p \in refs : p > o}) ELSE size
  IN [o \in refs |-> [val |-> d.text[o].val, width |-> End(o) - o]]

\* The deserializing constructor.  Edge infos are taken in the order of the offsets that
\* edges hold, and each must begin where the one before it ended.
Deserialize ==
  /\ phase = "closed"
  /\ LET offsets == {disk.edges[e] : e \in Edges}
         n       == Cardinality(offsets)
         text    == TextList(disk)
     IN IF offsets = {Start(disk.infos, i) : i \in 1 .. n}
        THEN /\ builder' =
                  [infos |-> SubSeq(disk.infos, 1, n),
                   edges |-> disk.edges,
                   map   |-> [o \in offsets |-> CHOOSE i \in 1 .. n : Start(disk.infos, i) = o],
                   edge_info_offset |-> Start(disk.infos, n + 1),
                   text  |-> text,
                   text_list_offset |-> TextBytes(text),
                   bins  |-> disk.bins]
             /\ phase' = "open"
        ELSE /\ phase' = "threw"
             /\ UNCHANGED builder
  /\ UNCHANGED <<disk, offered>>

\* AddName(): the text is looked up with its exact bytes, so an entry that carries
\* padding is not found.
Known(b, v) == {o \in DOMAIN b.text : b.text[o] = [val |-> v, width |-> Width[v]]}

\* Faulty variant: the terminator is not counted.
AddNameUnterminated(b, v) ==
  IF Known(b, v) # {} THEN b
  ELSE [b EXCEPT !.text = (b.text_list_offset :> [val |-> v, width |-> Width[v]]) @@ @,
                 !.text_list_offset = @ + Width[v] - 1]

AddName(b, v) ==
  IF Known(b, v) # {} THEN b
  ELSE [b EXCEPT !.text = (b.text_list_offset :> [val |-> v, width |-> Width[v]]) @@ @,
                 !.text_list_offset = @ + Width[v]]

NameOffset(b, v) == Min(Known(b, v))

\* Faulty variant: the cap on names is not looked at.
AppendValueUncapped(acc, pair) ==
  LET at   == acc.b.edges[pair[1]]
      i    == acc.b.map[at]
      v    == pair[2]
      with == AddName(acc.b, v)
  IN IF NameOffset(with, v) \in Range(with.infos[i].names) THEN [acc EXCEPT !.b = with]
     ELSE [b |-> [with EXCEPT !.infos[i].names = Append(@, NameOffset(with, v))],
           growth |-> [acc.growth EXCEPT ![at] = @ + SizeOfNameInfo]]

\* Faulty variant: the cap is off by one.
AppendValueCappedEarly(acc, pair) ==
  LET at   == acc.b.edges[pair[1]]
      i    == acc.b.map[at]
      v    == pair[2]
      with == AddName(acc.b, v)
  IN IF Len(acc.b.infos[i].names) >= kMaxNamesPerEdge - 1 THEN acc
     ELSE IF NameOffset(with, v) \in Range(with.infos[i].names) THEN [acc EXCEPT !.b = with]
     ELSE [b |-> [with EXCEPT !.infos[i].names = Append(@, NameOffset(with, v))],
           growth |-> [acc.growth EXCEPT ![at] = @ + SizeOfNameInfo]]

\* One value of AddTaggedValues(): the names of its edge info grow, unless they are
\* full or hold the value already.
AppendValue(acc, pair) ==
  LET at   == acc.b.edges[pair[1]]
      i    == acc.b.map[at]
      v    == pair[2]
      with == AddName(acc.b, v)
  IN IF Len(acc.b.infos[i].names) >= kMaxNamesPerEdge THEN acc
     ELSE IF NameOffset(with, v) \in Range(with.infos[i].names) THEN [acc EXCEPT !.b = with]
     ELSE [b |-> [with EXCEPT !.infos[i].names = Append(@, NameOffset(with, v))],
           growth |-> [acc.growth EXCEPT ![at] = @ + SizeOfNameInfo]]

\* Faulty variant: an edge info is moved by its own growth too.
ShiftForInclusive(growth, o) ==
  FoldSet(LAMBDA p, sum : sum + growth[p], 0, {p \in DOMAIN growth : p <= o})

\* shift_for: the bytes added before offset o.
ShiftFor(growth, o) ==
  FoldSet(LAMBDA p, sum : sum + growth[p], 0, {p \in DOMAIN growth : p < o})

\* Faulty variant: the map keeps the old offsets.
ShiftedEdgesOnly(b, growth) ==
  [b EXCEPT
     !.edges = [e \in Edges |-> @[e] + ShiftFor(growth, @[e])],
     !.edge_info_offset = @ + FoldSet(LAMBDA p, sum : sum + growth[p], 0, DOMAIN growth)]

\* The offset fix-up at the end of AddTaggedValues().
Shifted(b, growth) ==
  [b EXCEPT
     !.edges = [e \in Edges |-> @[e] + ShiftFor(growth, @[e])],
     !.map = [o \in {p + ShiftFor(growth, p) : p \in DOMAIN @} |->
                @[CHOOSE p \in DOMAIN @ : p + ShiftFor(growth, p) = o]],
     !.edge_info_offset = @ + FoldSet(LAMBDA p, sum : sum + growth[p], 0, DOMAIN growth)]

\* AddTaggedValues(tag, batch); AddTaggedValue() and AddLandmark() are batches of one.
\* Edges are those of this tile, so the checks of the tile and of the edge id pass.
AddTaggedValues(batch) ==
  /\ phase = "open"
  /\ IF \E k \in DOMAIN batch : builder.edges[batch[k][1]] \notin DOMAIN builder.map
     THEN /\ phase' = "threw"
          /\ UNCHANGED <<builder, offered>>
     ELSE LET none == [b |-> builder, growth |-> [o \in DOMAIN builder.map |-> 0]]
              acc  == FoldLeft(AppendValue, none, batch)
          IN /\ builder' = Shifted(acc.b, acc.growth)
             /\ offered' =
                  [i \in Infos |->
                     LET vs == {batch[k][2] : k \in {j \in DOMAIN batch : Owner[batch[j][1]] = i}}
                     IN [values |-> offered[i].values \cup vs,
                         due |-> IF Len(builder.infos[i].names) + Cardinality(vs)
                                      <= kMaxNamesPerEdge
                                 THEN offered[i].due \cup vs ELSE offered[i].due]]
             /\ UNCHANGED phase
  /\ UNCHANGED disk

\* Faulty variant: the running sum takes the sizes from before the elevations were set.
RenumberedBefore(b, infos, o) ==
  FoldSet(LAMBDA p, sum : sum + SizeOf(b.infos[b.map[p]]), 0, {p \in Range(b.edges) : p < o})

\* new_offsets: the running sum, in the order of the old offsets that edges hold, of what
\* set_elevation() returns, the size of the edge info with its elevation.
Renumbered(b, infos, o) ==
  FoldSet(LAMBDA p, sum : sum + SizeOf(infos[b.map[p]]), 0, {p \in Range(b.edges) : p < o})

\* add_elevations_to_single_tile(): every edge info gets its elevation bytes (none leaves
\* those it has), and the edges get their new offsets.  The bytes follow from the length
\* of the edge in the code and are any of the bound here, each time.  The builder's own
\* map is not renumbered, so nothing but storing may follow.
AddElevations ==
  /\ phase = "open"
  /\ \E bytes \in [Infos -> ElevationSizes] :
       LET infos == [i \in Infos |-> [builder.infos[i] EXCEPT
                                        !.elevation = IF bytes[i] = 0 THEN @ ELSE bytes[i]]]
       IN builder' = [builder EXCEPT
                        !.infos = infos,
                        !.edges = [e \in Edges |-> Renumbered(builder, infos, @[e])]]
  /\ phase' = "sealed"
  /\ UNCHANGED <<disk, offered>>

\* Faulty variant of the next action.
StoreTileDataWithoutBins ==
  /\ phase \in {"open", "sealed"}
  /\ disk' = WrittenWithoutBins(builder)
  /\ builder' = Closed
  /\ phase' = "closed"
  /\ UNCHANGED offered

\* StoreTileData()
StoreTileData ==
  /\ phase \in {"open", "sealed"}
  /\ disk' = Written(builder)
  /\ builder' = Closed
  /\ phase' = "closed"
  /\ UNCHANGED offered

Next ==
  \/ Deserialize
  \/ \E batch \in Batches : AddTaggedValues(batch)
  \/ AddElevations
  \/ StoreTileData

Spec == Init /\ [][Next]_vars

----------------------------------------------------------------------------
\* The name count of a stored edge info has four bits.
IsEdgeInfo(ei) ==
  /\ ei.base \in Nat /\ ei.elevation \in Nat
  /\ ei.names \in Seq(Nat) /\ Len(ei.names) <= kMaxNamesPerEdge

TypeOK ==
  /\ Len(disk.infos) = NInfos /\ \A i \in Infos : IsEdgeInfo(disk.infos[i])
  /\ disk.edges \in [Edges -> Nat]
  /\ phase \in {"closed", "open", "sealed", "threw"}
  /\ phase \in {"open", "sealed"} =>
       /\ Len(builder.infos) = NInfos /\ \A i \in Infos : IsEdgeInfo(builder.infos[i])
       /\ builder.edges \in [Edges -> Nat]
       /\ builder.text_list_offset \in Nat
  /\ offered \in [Infos -> [values : SUBSET Values, due : SUBSET Values]]

\* After any number of rewrites every edge still leads to its own edge info, and twins
\* to the one they share: growth moves exactly what lies behind it.
EdgesKeepTheirInfo ==
  /\ \A e \in Edges : disk.edges[e] = Start(disk.infos, Owner[e])
  /\ phase \in {"open", "sealed"} =>
       \A e \in Edges : builder.edges[e] = Start(builder.infos, Owner[e])

\* The builder's map from offsets to edge infos and its running offset agree with its
\* list of edge infos, so that another AddTaggedValues() finds the right ones.
MapFollowsList ==
  phase = "open" =>
    /\ builder.map = [o \in {Start(builder.infos, i) : i \in Infos} |->
                        CHOOSE i \in Infos : Start(builder.infos, i) = o]
    /\ builder.edge_info_offset = Start(builder.infos, NInfos + 1)

\* A tile that was stored can be read again: the constructor's check of the offsets and
\* the file size check of the reader (size = end_offset) never fail.
Reopens ==
  /\ phase # "threw"
  /\ disk.end_offset = disk.size
  /\ disk.edgeinfo_offset = SizeOfGraphId * disk.bins

\* The tile and the builder that rewrites it stay consistent through any sequence of
\* openings, taggings, growths and stores.
TileConsistent == EdgesKeepTheirInfo /\ MapFollowsList /\ Reopens

\* The values a reader finds on an edge info, tagged names in order.
Tags(d, i) == SelectSeq([k \in 1 .. Len(d.infos[i].names) |-> d.text[d.infos[i].names[k]].val],
                        LAMBDA v : v \in Values)

Current == IF phase \in {"open", "sealed"} THEN builder ELSE disk

\* A reader finds on each edge info what was offered for it or for its twins: all of it
\* as long as there was room for it, and never anything else.
ValuesKept ==
  phase # "threw" =>
    \A i \in Infos :
      /\ offered[i].due \subseteq Range(Tags(Current, i))
      /\ Range(Tags(Current, i)) \subseteq offered[i].values

\* Offsets of texts never move under the names that hold them, and texts never overlap,
\* although padding is taken into the last text at every rewrite.
TextsInPlace ==
  phase # "threw" =>
    LET text == Current.text
    IN /\ \A o, p \in DOMAIN text : o < p => o + text[o].width <= p
       /\ \A i \in Infos : Range(Current.infos[i].names) \subseteq DOMAIN text

\* No text offered is lost, misread or overwritten.
TextsKept == ValuesKept /\ TextsInPlace

\* What a comment in AddTaggedValues() promises: no edge info gets the same value twice.
NoValueTwice == \A i \in Infos : IsInjective(Tags(Current, i))

====
