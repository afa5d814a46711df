------------------------------ MODULE Decoder ------------------------------
(***************************************************************************)
(* A thread that decodes one message after another, seen as the dynamic    *)
(* parts of the bodies it walks (src/decoder.cpp): texts and lists are     *)
(* found through descriptors (length or count, and an offset relative to   *)
(* the descriptor) that come from the wire, every part must lie in the     *)
(* body behind its fixed fields and away from the other parts, and what is *)
(* remembered for that, g_protected_ranges, belongs to the thread and      *)
(* outlives the message.                                                   *)
(*                                                                         *)
(* A tick lane and a snapshot lane decode; the SDK's thread reads the      *)
(* identity of snapshots for their route, without a scope.  What the       *)
(* fields mean is in CanonicalFields.                                      *)
(***************************************************************************)
EXTENDS Messages

CONSTANTS
  MaximumTextBytes, MaximumDepthItems, MaximumQueueItems,   \* DecoderLimits
  Bodies,             \* sizes of bodies, for every class
  Lengths, Counts,    \* lengths of texts and counts of lists found in descriptors
  Starts,             \* places, for every class and kind of part, descriptors point to
  OrderCounts         \* source_order_count of a level

ASSUME DecoderAssumption ==
  /\ MaximumTextBytes \in Nat \ {0} /\ MaximumQueueItems \in Nat \ {0}
  /\ MaximumDepthItems \in Nat \ {0}
  /\ Lengths \subseteq Nat /\ Counts \subseteq Nat /\ OrderCounts \subseteq Nat
  /\ \A c \in TickClasses \cup SnapshotClasses :
       /\ Bodies[c] \subseteq 0..SizeMax
       /\ \A kind \in {"text", "list", "queue"} : Starts[c][kind] \subseteq Int

Text(at, required) == [kind |-> "text", at |-> at, item |-> 1, required |-> required]
List(at) == [kind |-> "list", at |-> at, item |-> 28, required |-> FALSE]
Queue(at, item) == [kind |-> "queue", at |-> at, item |-> item, required |-> FALSE]
Fields(errors) == [kind |-> "fields", errors |-> errors]

\* ReadIdentity: the stream, if there is one, the security and the source, if any.
ReadIdentity(offsets) == [i \in DOMAIN offsets |-> Text(offsets[i], TRUE)]

\* The parts of every class in the order they are read, and the errors of the fixed
\* fields between them.
ShanghaiTickParts ==
  ReadIdentity(<<12>>) \o
  <<Fields({"InvalidNativeSequence"}), Text(22, TRUE), Text(64, TRUE), Fields({"FixedPointOverflow"})>>
ShenzhenOrderParts ==
  ReadIdentity(<<12, 18, 24>>) \o <<Fields({"InvalidNativeSequence", "FixedPointOverflow"})>>
ShenzhenTransactionParts ==
  ReadIdentity(<<12, 34, 40>>) \o <<Fields({"InvalidNativeSequence", "FixedPointOverflow"})>>
ShanghaiSnapshotParts ==
  ReadIdentity(<<4>>) \o <<Text(38, FALSE), Fields({"FixedPointOverflow"}), List(228), List(236)>>
ShenzhenSnapshotParts ==
  ReadIdentity(<<8, 14, 20>>) \o
  <<Text(26, TRUE), Fields({"FixedPointOverflow"}), List(208), List(216)>>

Layout ==
  [ShanghaiTick |-> ShanghaiTickParts, ShenzhenOrder |-> ShenzhenOrderParts,
   ShenzhenTransaction |-> ShenzhenTransactionParts,
   ShanghaiSnapshot |-> ShanghaiSnapshotParts, ShenzhenSnapshot |-> ShenzhenSnapshotParts]
RouteLayout ==
  [ShanghaiSnapshot |-> ReadIdentity(<<4>>), ShenzhenSnapshot |-> ReadIdentity(<<14, 20>>)]
QueueItem == [ShanghaiSnapshot |-> 16, ShenzhenSnapshot |-> 8]

\* The classes a thread sees, by its task.
ClassesOf ==
  [tick |-> TickClasses, snapshot |-> SnapshotClasses, route |-> SnapshotClasses]

VARIABLES
  task,        \* of the thread: "tick", "snapshot" or "route"
  class, size, \* of the message
  todo,        \* parts of the message still to be read, in order
  error,       \* "None" or the DecodeError returned
  ranges,      \* g_protected_ranges
  protect,     \* g_protect_dynamic_ranges
  capacity,    \* of g_protected_ranges
  total,       \* total_queue_items
  parts,       \* history: dynamic parts of this message that were handed out
  refused      \* history: the part for which RangeOverlap was returned

vars == <<task, class, size, todo, error, ranges, protect, capacity, total, parts, refused>>

Init ==
  /\ task \in DOMAIN ClassesOf /\ class = "none" /\ size = 0
  /\ todo = <<>> /\ error = "None"
  /\ ranges = {} /\ protect = FALSE /\ capacity = 0
  /\ total = 0 /\ parts = {} /\ refused = {}

-----------------------------------------------------------------------------
(* One part of a body. *)

\* Arithmetic of size_t.
Wrap(n) == n % (SizeMax + 1)
Overlap(a, b) == a.begin < b.end /\ b.begin < a.end

\* Mutant: only the end of the part is compared with the body.
OutOfBodyByEnd(begin, bytes, fixed) ==
  begin < fixed \/ bytes > Wrap(size - begin)

\* A part of so many bytes does not fit between the fixed bytes and the end.
OutOfBody(begin, bytes, fixed) ==
  begin < fixed \/ begin > size \/ bytes > Wrap(size - begin)

\* The descriptor is 6 bytes long for a text and 8 for a list.
HeaderBytes(part) == IF part.kind = "text" THEN 6 ELSE 8
Limit(part) ==
  CASE part.kind = "text" -> IF task = "route" THEN kMaximumIdentityBytes ELSE MaximumTextBytes
    [] part.kind = "list" -> MaximumDepthItems
    [] part.kind = "queue" -> MaximumQueueItems

\* ReadText and ReadList up to the protection: a descriptor with a count and a
\* relative offset; printable is what the text turns out to be.
Locate(part, n, relative, printable) ==
  LET fixed == FixedBytes[class]
      far == relative > SizeMax - part.at
      begin == Wrap(part.at + relative)
  IN  CASE n > Limit(part) -> "CountExceeded"
        [] n = 0 /\ n <= Limit(part) ->
             IF relative # 0 /\ (far \/ begin > size) THEN "InvalidOffset"
             ELSE IF part.required THEN "InvalidText" ELSE "None"
        [] OTHER ->
             IF \/ relative < HeaderBytes(part) \/ n > SizeMax \div part.item \/ far
                \/ OutOfBody(begin, n * part.item, fixed) THEN "InvalidOffset"
             ELSE IF part.kind = "text" /\ ~printable THEN "InvalidText" ELSE "None"

\* The bytes a part with at least one item occupies.
RangeOf(part, n, relative) ==
  [begin |-> Wrap(part.at + relative), end |-> Wrap(part.at + relative + n * part.item)]

Return(e) == error' = e /\ todo' = <<>>

\* Mutant: ranges of the last message are compared too, for want of a clear.
BeginScopeStale(maximum) ==
  /\ ranges' = ranges
  /\ \/ protect' = TRUE /\ capacity' = IF capacity < maximum THEN maximum ELSE capacity
     \/ capacity < maximum /\ protect' = FALSE /\ UNCHANGED capacity

\* DynamicRangeScope: the ranges are cleared, and room is reserved, which may fail.
BeginScope(maximum) ==
  /\ ranges' = {}
  /\ \/ protect' = TRUE /\ capacity' = IF capacity < maximum THEN maximum ELSE capacity
     \/ capacity < maximum /\ protect' = FALSE /\ UNCHANGED capacity

-----------------------------------------------------------------------------
(* A message. *)

Idle == todo = <<>> /\ ~protect

Begin(c, bytes) ==
  /\ Idle
  /\ class' = c /\ size' = bytes
  /\ total' = 0 /\ parts' = {} /\ refused' = {}
  /\ UNCHANGED task

Open(layout, c, bytes) ==
  IF bytes < FixedBytes[c] THEN Return("Truncated") ELSE error' = "None" /\ todo' = layout[c]

\* DecodeTick, DecodeSnapshot: the scope, then the class's decoder.
Decode(c, bytes) ==
  /\ task \in {"tick", "snapshot"} /\ Begin(c, bytes)
  /\ IF task = "snapshot" /\ MaximumDepthItems > (SizeMax - 8) \div 2
       THEN Return("ResourceExhausted") /\ UNCHANGED <<ranges, protect, capacity>>
       ELSE /\ BeginScope(IF task = "tick" THEN 8 ELSE 2 * MaximumDepthItems + 8)
            /\ IF protect' THEN Open(Layout, c, bytes) ELSE Return("ResourceExhausted")

\* ExtractAdmissionRoute of a snapshot.
ExtractSnapshotRoute(c, bytes) ==
  /\ task = "route" /\ Begin(c, bytes)
  /\ Open(RouteLayout, c, bytes)
  /\ UNCHANGED <<ranges, protect, capacity>>

\* The levels of a list, each with the list of its queue.
Levels(begin, n) ==
  [i \in 1..n |-> Queue(begin + (i - 1) * 28 + 20, QueueItem[class])]

\* ProtectDynamicRange and what follows it: the view is handed out.
Accept(part, n, range) ==
  /\ ranges' = IF protect THEN ranges \cup {range} ELSE ranges
  /\ parts' = parts \cup {range}
  /\ error' = "None"
  /\ todo' = Tail(todo) \o (IF part.kind = "list" THEN Levels(range.begin, n) ELSE <<>>)
  /\ UNCHANGED <<total, refused>>

\* A queue longer than its level's order count, or than what is left of the limit.
AcceptQueue(part, n, range, orders) ==
  /\ ranges' = IF protect THEN ranges \cup {range} ELSE ranges
  /\ CASE n > orders -> Return("CountMismatch") /\ UNCHANGED <<total, parts>>
       [] n <= orders /\ n > MaximumQueueItems - total ->
            Return("CountExceeded") /\ UNCHANGED <<total, parts>>
       [] OTHER -> /\ total' = total + n
                   /\ parts' = parts \cup {range}
                   /\ error' = "None" /\ todo' = Tail(todo)
  /\ UNCHANGED refused

\* The part's descriptor says n items that begin there.
ReadPart(part, n, begin, printable, orders) ==
  /\ LET relative == Wrap(begin - part.at)
         located == Locate(part, n, relative, printable)
         range == RangeOf(part, n, relative)
     IN  \/ /\ located # "None" /\ Return(located)
            /\ UNCHANGED <<ranges, total, parts, refused>>
         \/ /\ located = "None" /\ n = 0
            /\ error' = "None" /\ todo' = Tail(todo)
            /\ UNCHANGED <<ranges, total, parts, refused>>
         \/ /\ located = "None" /\ n > 0
            /\ IF protect /\ \E r \in ranges : Overlap(r, range)
                 THEN /\ Return("RangeOverlap") /\ refused' = {range}
                      /\ UNCHANGED <<ranges, total, parts>>
                 ELSE IF part.kind = "queue" THEN AcceptQueue(part, n, range, orders)
                 ELSE Accept(part, n, range)
  /\ UNCHANGED <<task, class, size, protect, capacity>>

\* The fixed fields between two parts: no error, or one of theirs.
ReadFields ==
  /\ todo # <<>> /\ Head(todo).kind = "fields"
  /\ \/ error' = "None" /\ todo' = Tail(todo)
     \/ \E e \in Head(todo).errors : Return(e)
  /\ UNCHANGED <<task, class, size, ranges, protect, capacity, total, parts, refused>>

\* ~DynamicRangeScope: the ranges stay, the thread goes on to its next message.
EndScope ==
  /\ todo = <<>> /\ protect /\ protect' = FALSE
  /\ UNCHANGED <<task, class, size, todo, error, ranges, capacity, total, parts, refused>>

Next ==
  \/ \E c \in ClassesOf[task] : \E bytes \in Bodies[c] :
       Decode(c, bytes) \/ ExtractSnapshotRoute(c, bytes)
  \/ /\ todo # <<>> /\ Head(todo).kind # "fields"
     /\ \E n \in (IF Head(todo).kind = "text" THEN Lengths ELSE Counts),
           begin \in Starts[class][Head(todo).kind], printable \in BOOLEAN, orders \in OrderCounts :
          ReadPart(Head(todo), n, begin, printable, orders)
  \/ ReadFields
  \/ EndScope

Spec == Init /\ [][Next]_vars

-----------------------------------------------------------------------------
(* Properties. *)

\* Whatever the descriptors say, every dynamic part handed to the decoder lies in
\* the body behind the fixed bytes, a decoding thread's parts are disjoint, the room
\* reserved beforehand is enough, so that nothing is allocated while a message is
\* decoded, and a snapshot's queues stay within their common limit.
RangesSound ==
  /\ \A p \in parts : FixedBytes[class] <= p.begin /\ p.begin < p.end /\ p.end <= size
  /\ task # "route" => \A p, q \in parts : p # q => ~Overlap(p, q)
  /\ Cardinality(ranges) <= capacity
  /\ total <= MaximumQueueItems

\* A message is refused for overlapping parts only if two parts of its own overlap:
\* the ranges a lane's thread remembers never come from another message.
OverlapIsOwn ==
  error = "RangeOverlap" => \E p \in parts, q \in refused : Overlap(p, q)
=============================================================================
