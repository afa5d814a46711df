------------------------------ MODULE Messages ------------------------------
(***************************************************************************)
(* The message families and what a process is told about them: the stream  *)
(* selection (src/stream_config.cpp, message.h), the checks of an engine   *)
(* configuration (ValidateConfig) and the checks of an arriving message    *)
(* (EngineImpl::Admit, up to its lane), all in src/engine.cpp.             *)
(*                                                                         *)
(* A stream mask is the set of its bit positions, from 1.  Reading a file  *)
(* is left out: a file is the sequence of its lines.                       *)
(***************************************************************************)
EXTENDS Integers, Sequences, FiniteSetsExt

CONSTANTS
  SizeMax,          \* largest size_t
  U32Max            \* largest 32-bit unsigned value

ASSUME MessagesAssumption == SizeMax \in Nat /\ U32Max \in Nat

kMdlHeaderBytes == 23
kMaximumIdentityBytes == 32

kSupportedMessageKeys ==
  <<<<4, 101, 4>>, <<4, 101, 24>>, <<6, 101, 28>>, <<6, 101, 33>>, <<6, 101, 36>>>>

ClassifyMessage(key) ==
  CASE key = <<4, 101, 4>> -> "ShanghaiSnapshot"
    [] key = <<4, 101, 24>> -> "ShanghaiTick"
    [] key = <<6, 101, 28>> -> "ShenzhenSnapshot"
    [] key = <<6, 101, 33>> -> "ShenzhenOrder"
    [] key = <<6, 101, 36>> -> "ShenzhenTransaction"
    [] OTHER -> "Unsupported"

TickClasses == {"ShanghaiTick", "ShenzhenOrder", "ShenzhenTransaction"}
SnapshotClasses == {"ShanghaiSnapshot", "ShenzhenSnapshot"}

\* The fixed bytes of a body.
FixedBytes ==
  [ShanghaiTick |-> 70, ShenzhenOrder |-> 58, ShenzhenTransaction |-> 70,
   ShanghaiSnapshot |-> 248, ShenzhenSnapshot |-> 224, Unsupported |-> 0]

StreamBit(key) == {i \in DOMAIN kSupportedMessageKeys : kSupportedMessageKeys[i] = key}
StreamEnabled(mask, key) == StreamBit(key) \cap mask # {}

-----------------------------------------------------------------------------
(* The stream selection.  A line is a comment (or blank), three numbers, or *)
(* something else.                                                          *)

\* Mutant: the numbers are narrowed to the widths of a MessageKey.
ParseTupleNarrowed(key) == {<<key[1] % 2^8, key[2] % 2^16, key[3] % 2^16>>}

\* The MessageKey of three numbers; empty if one does not fit its width.
ParseTuple(key) == IF key[1] < 2^8 /\ key[2] < 2^16 /\ key[3] < 2^16 THEN {key} ELSE {}

\* The mask selected by a file; empty if the file is refused: a line that is no
\* tuple, is not supported or is there twice, or nothing selected.
LoadStreamConfig(file) ==
  LET lines == {i \in DOMAIN file : file[i].kind # "comment"}
      bit == [i \in lines |-> IF file[i].kind = "tuple"
                                THEN UNION {StreamBit(key) : key \in ParseTuple(file[i].key)}
                                ELSE {}]
  IN  IF \A i \in lines : bit[i] # {} /\ \A j \in lines \ {i} : bit[i] # bit[j]
        THEN UNION {bit[i] : i \in lines} ELSE {}

-----------------------------------------------------------------------------
(* The configuration of an engine. *)

\* value & (value - 1) is zero: no odd divisor but 1.
IsPowerOfTwo(n) == n > 0 /\ \A d \in 2..n : n % d = 0 => d % 2 = 0

\* The product of two sizes does not fit a size_t.
TooMany(count, each) == count > SizeMax \div each

ValidateConfig(c) ==
  /\ c.trade_date_valid /\ c.catalog_size > 0
  /\ c.enabled_streams # {} /\ c.enabled_streams \subseteq DOMAIN kSupportedMessageKeys
  /\ c.tick_decoder_lanes > 0 /\ c.snapshot_decoder_lanes > 0 /\ c.instrument_workers > 0
  /\ c.tick_slots_per_lane >= 2 /\ c.snapshot_slots_per_lane >= 2
  /\ c.maximum_tick_body_bytes >= 70 /\ c.maximum_snapshot_body_bytes >= 248
  /\ c.dispatch_queue_capacity >= 2 /\ c.diagnostic_queue_capacity >= 2
  /\ c.late_recovery_queue_capacity >= 2
  /\ c.maximum_channels_per_tick_lane > 0
  /\ c.tick_slots_per_lane <= U32Max /\ c.snapshot_slots_per_lane <= U32Max
  /\ ~TooMany(c.tick_slots_per_lane, c.maximum_tick_body_bytes)
  /\ ~TooMany(c.snapshot_slots_per_lane, c.maximum_snapshot_body_bytes)
  /\ ~TooMany(c.tick_decoder_lanes, c.instrument_workers)
  /\ ~TooMany(c.snapshot_decoder_lanes, c.instrument_workers)
  /\ ~TooMany(c.tick_decoder_lanes, c.maximum_channels_per_tick_lane)
  /\ c.maximum_channels_per_tick_lane <= U32Max - 1
  /\ c.maximum_channels_per_tick_lane <= SizeMax \div 2
  /\ IsPowerOfTwo(c.reorder_entries_per_channel) /\ c.reorder_entries_per_channel >= 2
  /\ c.maximum_reorder_span <= c.reorder_entries_per_channel
  /\ c.maximum_text_bytes \in 1..kMaximumIdentityBytes
  /\ c.maximum_depth_items > 0 /\ c.maximum_queue_items > 0 /\ c.recovery_timer_scan_ns > 0
  /\ c.first_decoder_cpu >= -1

-----------------------------------------------------------------------------
(* An arriving message: a header with the size of its own bytes, and the    *)
(* size of the body; routable is whether ExtractAdmissionRoute likes a body *)
(* that has its fixed bytes.                                                *)

SlotBytes(c, class) ==
  IF class \in TickClasses THEN c.maximum_tick_body_bytes ELSE c.maximum_snapshot_body_bytes

\* The checks in their order, each with the AdmissionResult of its failure.
AdmissionChecks(c, h) ==
  LET class == ClassifyMessage(h.key)
  IN  <<[fails |-> h.bytes < kMdlHeaderBytes, result |-> "HeaderTruncated"],
        [fails |-> h.head_size # kMdlHeaderBytes \/ h.message_size < kMdlHeaderBytes,
         result |-> "HeaderInvalid"],
        [fails |-> h.body # h.message_size - kMdlHeaderBytes, result |-> "BodySizeMismatch"],
        [fails |-> ~h.binary, result |-> "NonBinaryEncoding"],
        [fails |-> class = "Unsupported", result |-> "UnsupportedMessage"],
        [fails |-> ~StreamEnabled(c.enabled_streams, h.key), result |-> "DisabledMessage"],
        [fails |-> h.body > SlotBytes(c, class), result |-> "BodyTooLarge"],
        [fails |-> h.body < FixedBytes[class], result |-> "BodyTruncated"],
        [fails |-> ~h.routable, result |-> "RouteInvalid"]>>

CheckMessage(c, h) ==
  LET checks == AdmissionChecks(c, h)
      failed == {i \in DOMAIN checks : checks[i].fails}
  IN  IF failed = {} THEN "Accepted" ELSE checks[Min(failed)].result

-----------------------------------------------------------------------------
(* Properties of a file, a configuration and the messages that may arrive. *)

\* With a selection and a configuration that are both accepted, a message goes to
\* a lane only if exactly one line of the file names its very numbers and its body
\* is whole and fits its slot; no family that was selected is fatal (BodyTooLarge)
\* at its smallest size; and no product of two sizes the constructors compute wraps.
AdmissionFits(file, base, headers) ==
  LET c == [base EXCEPT !.enabled_streams = LoadStreamConfig(file)]
      Selects(key) == {i \in DOMAIN file : file[i].kind = "tuple" /\ file[i].key = key}
  IN  ValidateConfig(c) =>
        /\ \A h \in headers : CheckMessage(c, h) = "Accepted" =>
             LET class == ClassifyMessage(h.key)
             IN  /\ Cardinality(Selects(h.key)) = 1
                 /\ FixedBytes[class] <= h.body /\ h.body <= SlotBytes(c, class)
        /\ \A h \in headers : CheckMessage(c, h) = "BodyTooLarge" =>
             h.body > FixedBytes[ClassifyMessage(h.key)]
        /\ c.tick_slots_per_lane * c.maximum_tick_body_bytes <= SizeMax
        /\ c.snapshot_slots_per_lane * c.maximum_snapshot_body_bytes <= SizeMax
        /\ \A lanes \in {c.tick_decoder_lanes, c.snapshot_decoder_lanes} :
             lanes * c.instrument_workers <= SizeMax
        /\ c.tick_decoder_lanes * c.maximum_channels_per_tick_lane <= SizeMax
        /\ 2 * c.maximum_channels_per_tick_lane <= SizeMax
=============================================================================
