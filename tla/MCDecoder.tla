----------------------------- MODULE MCDecoder -----------------------------
(***************************************************************************)
(* Decoder on small bodies, Catalog on short lists, and Inputs: raw ticks  *)
(* and scalars, stream files and configurations.                           *)
(***************************************************************************)
EXTENDS Decoder, Inputs, Catalog

Classes == TickClasses \cup SnapshotClasses
Longest(c) == FixedBytes[c] + (IF c \in TickClasses THEN 4 ELSE 92)
MCBodies ==
  [c \in Classes |-> {FixedBytes[c] - 1, FixedBytes[c] + 2, Longest(c)}]

\* In the fixed bytes, at their end, at and beyond the end of the body.
MCStarts ==
  [c \in Classes |->
    LET first == FixedBytes[c]
    IN  [text |-> {0, first - 1, first, first + 1, first + 2, first + 3, Longest(c) + 1},
         list |-> {first + 2, first + 4, first + 32, Longest(c) + 1},
         queue |-> {first + 4, first + 60, first + 68, first + 76, Longest(c) - 7}]]

-----------------------------------------------------------------------------
(* Stream files, headers, configurations. *)

Line(kind, key) == [kind |-> kind, key |-> key]
\* Two supported keys, an unsupported one, and numbers that are too wide.
Lines == {Line("comment", <<0, 0, 0>>), Line("other", <<0, 0, 0>>)} \cup
  {Line("tuple", key) : key \in {<<4, 101, 24>>, <<6, 101, 28>>, <<5, 101, 4>>,
                                 <<4 + 2^8, 101, 4>>, <<6, 101 + 2^16, 28>>}}
AllStreams == [i \in DOMAIN kSupportedMessageKeys |-> Line("tuple", kSupportedMessageKeys[i])]
Files == {<<>>} \cup {<<a>> : a \in Lines} \cup {<<a, b>> : a, b \in Lines}

MCHeaders ==
  [bytes : {22, 23}, head_size : {23}, message_size : {22, 23, 92, 93, 94, 271, 272}, binary : {TRUE},
   key : {<<4, 101, 4>>, <<4, 101, 24>>, <<6, 101, 28>>, <<5, 101, 4>>},
   body : {0, 69, 70, 71, 248, 249}, routable : {TRUE}]
  \cup
  [bytes : {23}, head_size : {22, 23}, message_size : {93}, binary : BOOLEAN,
   key : {<<4, 101, 24>>}, body : {70}, routable : BOOLEAN]

Base ==
  [trade_date_valid |-> TRUE, catalog_size |-> 1, enabled_streams |-> {},
   tick_decoder_lanes |-> 1, snapshot_decoder_lanes |-> 1, instrument_workers |-> 1,
   tick_slots_per_lane |-> 2, snapshot_slots_per_lane |-> 2,
   maximum_tick_body_bytes |-> 70, maximum_snapshot_body_bytes |-> 248,
   dispatch_queue_capacity |-> 2, diagnostic_queue_capacity |-> 2,
   late_recovery_queue_capacity |-> 2, maximum_channels_per_tick_lane |-> 1,
   reorder_entries_per_channel |-> 2, maximum_reorder_span |-> 2,
   maximum_text_bytes |-> 32, maximum_depth_items |-> 1, maximum_queue_items |-> 1,
   recovery_timer_scan_ns |-> 1, first_decoder_cpu |-> -1]
Numbers == DOMAIN Base \ {"trade_date_valid", "enabled_streams"}
\* The base with one or two numbers at a boundary.
Configurations ==
  {Base, [Base EXCEPT !.trade_date_valid = FALSE]} \cup
  {[Base EXCEPT ![f] = v, ![g] = w] :
     f, g \in {"tick_slots_per_lane", "maximum_tick_body_bytes", "tick_decoder_lanes",
               "instrument_workers", "maximum_channels_per_tick_lane"},
     v, w \in {14, 15, 70, 71, 512}} \cup
  {[Base EXCEPT ![f] = v] : f \in Numbers, v \in {0, 1, 3, 4, 5, 33, 247, 249}}
Setup(lines, configuration) == [file |-> lines, configuration |-> configuration]
MCSetups == {Setup(f, Base) : f \in Files} \cup {Setup(AllStreams, c) : c \in Configurations}

-----------------------------------------------------------------------------
(* Fields: 2^31 - 1 and 2^63 - 1 are scaled down to values TLC's integers hold *)
(* together with their products.                                               *)

MCMax32 == 100
MCMax64 == 2500000
Ids == {-1, 0, 1}
WireTicks(c, whole, channel, sequence, type, flag, price, amount, quantity, ids, time) ==
  [class : {c}, whole : whole, channel : channel, sequence : sequence, type : type,
   flag : flag, price : price, amount : amount, quantity : quantity, buy : ids, sell : ids,
   time : time, local : {0}]
OnTime ==
  WireTicks("ShanghaiTick", {TRUE}, {1}, {1}, {"A", "D", "T", "S", "?"},
          {"B", "S", "N", "OCALL", "?"}, {kNullI32, -1, 0, 5},
          {kNullI64, -1000, 0, 1, 2000, 2500, 2501}, {-1, 0}, Ids,
          {93000500, 246000000, kNullTime})
  \cup WireTicks("ShanghaiTick", BOOLEAN, Ids, Ids, {"A"}, {"B"}, {5}, {0}, {0}, {1}, {0})
  \cup WireTicks("ShenzhenOrder", BOOLEAN, {0, 1}, Ids, {"49", "50", "85", "?"},
               {"49", "50", "71", "70", "?"}, {kNullI64, 0, 5, 25000, 25001}, {0}, {-1, 0}, {0}, {0})
  \cup WireTicks("ShenzhenTransaction", BOOLEAN, {0, 1}, {0, 1}, {"70", "52", "?"}, {"?"},
               {kNullI64, 0, 5, 25000, 25001}, {0}, {-1, 0}, Ids, {0})
MCRawTicks == OnTime \cup {[r EXCEPT !.local = kNullTime] : r \in
  WireTicks("ShanghaiTick", {TRUE}, {1}, {1}, {"A"}, {"B"}, {5}, {0}, {0}, {1}, {0})}
MCRawValues ==
  {kNullI32, kNullI64, kNullI64 + 1, -250001, -250000, -25001, -25000, -2500, -1, 0, 1,
   2500, 2501, 25000, 25001, 250000, 250001, MCMax64}

-----------------------------------------------------------------------------
(* Catalogs of up to three definitions; tables of 2, 4 and 8 cells. *)

Printable(content, n) == [content |-> content, size |-> n, printable |-> TRUE]
NoText == Printable("", 0)
Identities ==
  {<<"SH", NoText, Printable(s, 1)>> : s \in {"1", "2"}} \cup
  {<<"SZ", Printable("102", 3), Printable(s, 1)>> : s \in {"1", "2"}} \cup
  {<<"SZ", Printable("9", 1), NoText>>, <<"SZ", NoText, Printable("1", 1)>>}
CsvRow(columns, id, i) ==
  [columns |-> columns, number |-> TRUE, id |-> id, market |-> i[1], source |-> i[2],
   security |-> i[3]]
Good == {i \in Identities : i[3].size > 0 /\ (i[1] = "SH") = (i[2].size = 0)}
Malformed ==
  {CsvRow(4, 0, <<"SH", NoText, Printable("1", 1)>>),
   CsvRow(4, 3, <<"XX", NoText, Printable("1", 1)>>),
   CsvRow(4, 3, <<"SH", Printable("9", 1), Printable("1", 1)>>),
   CsvRow(4, 3, <<"SH", NoText, Printable("long", 4)>>),
   CsvRow(4, 3, <<"SH", NoText, [content |-> "x", size |-> 1, printable |-> FALSE]>>)}
  \cup {CsvRow(4, 3, i) : i \in Identities \ Good}
  \cup {CsvRow(c, 3, i) : c \in {3, 5}, i \in Good} \cup {[CsvRow(4, 3, i) EXCEPT !.number = FALSE] : i \in Good}
MCDefinitionLists ==
  {<<>>} \cup {<<d>> : d \in Malformed \cup {CsvRow(4, 1, i) : i \in Good}}
  \cup {<<CsvRow(4, a, i), CsvRow(4, b, j)>> : a, b \in {1, 2}, i, j \in Good}
  \cup {<<CsvRow(4, 1, i), CsvRow(4, 2, j), CsvRow(4, 3, k)>> : i, j, k \in Good}
  \cup {<<CsvRow(4, 1, i), d>> : i \in Good, d \in Malformed}
\* All at the last cell; spread by security; spread by source.
MCHashes ==
  {[i \in Identities |-> 7], [i \in Identities |-> IF i[3].content = "1" THEN 7 ELSE 0],
   [i \in Identities |-> i[2].size + 3 * i[3].size]}

-----------------------------------------------------------------------------
(* The state machines, one at a time: while an input is examined or a catalog *)
(* is built the decoding thread has not begun.                                *)

MCInit == Init /\ InputInit /\ CatalogInit

NotBegun == task = "tick" /\ class = "none"

DecodingThread == input = NoInput /\ Unused /\ Next /\ UNCHANGED <<input, catalogVars>>
Examination == NotBegun /\ Unused /\ InputNext /\ UNCHANGED <<vars, catalogVars>>
Catalogs == NotBegun /\ input = NoInput /\ CatalogNext /\ UNCHANGED <<vars, input>>

MCNext == DecodingThread \/ Examination \/ Catalogs

MCSpec == MCInit /\ [][MCNext]_<<vars, input, catalogVars>>
=============================================================================
