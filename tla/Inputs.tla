------------------------------- MODULE Inputs -------------------------------
(***************************************************************************)
(* The decisions of the front of the engine that depend on one input only: *)
(* what a message's fields become (CanonicalFields), and which messages a  *)
(* stream file and a configuration let in (Messages).  One input after     *)
(* another is examined.                                                    *)
(***************************************************************************)
EXTENDS Messages, CanonicalFields

CONSTANTS
  RawTicks,     \* ticks as they are on the wire
  RawValues,    \* values of the scalars of a snapshot
  Setups,       \* a stream file and a configuration
  Headers       \* messages that may arrive

\* The wire fields of a tick; "?" is any flag or type the decoder does not know.
RawTick ==
  [class : TickClasses, whole : BOOLEAN, channel : Int, sequence : Int, type : STRING,
   flag : STRING, price : Int, amount : Int, quantity : Int, buy : Int, sell : Int,
   time : Nat, local : Nat]
KnownTexts(r) ==
  /\ r.class = "ShanghaiTick" => r.flag \in DOMAIN ShSide
  /\ r.class = "ShenzhenOrder" => r.flag \in DOMAIN SzSide /\ r.type \in DOMAIN SzOrderType

StreamLine == [kind : {"comment", "tuple", "other"}, key : Nat \X Nat \X Nat]
\* The sizes of a configuration; of the others ValidateConfig only asks a bound.
Sizes ==
  {"tick_decoder_lanes", "snapshot_decoder_lanes", "instrument_workers", "tick_slots_per_lane",
   "snapshot_slots_per_lane", "maximum_tick_body_bytes", "maximum_snapshot_body_bytes",
   "maximum_channels_per_tick_lane"}
Header ==
  [bytes : Nat, head_size : Nat, message_size : Nat, binary : BOOLEAN,
   key : Nat \X Nat \X Nat, body : Nat, routable : BOOLEAN]

ASSUME InputsAssumption ==
  /\ \A r \in RawTicks : r \in RawTick /\ KnownTexts(r)
  /\ RawValues \subseteq Int
  /\ \A s \in Setups :
       /\ s.file \in Seq(StreamLine)
       /\ Sizes \cup {"enabled_streams"} \subseteq DOMAIN s.configuration
       /\ \A size \in Sizes : s.configuration[size] \in Nat
  /\ Headers \subseteq Header

VARIABLE input

NoInput == [kind |-> "none"]

InputInit == input = NoInput

Examine ==
  /\ input = NoInput
  /\ \/ \E r \in RawTicks : input' = [kind |-> "tick", raw |-> r]
     \/ \E f \in ShanghaiScalars \cup ShenzhenScalars, v \in RawValues :
          input' = [kind |-> "scalar", field |-> f, raw |-> v]
     \/ \E s \in Setups :
          input' = [kind |-> "admission", file |-> s.file, configuration |-> s.configuration]

Examined == input # NoInput /\ input' = NoInput

InputNext == Examine \/ Examined

InputSpec == InputInit /\ [][InputNext]_input

-----------------------------------------------------------------------------
(* Properties. *)

\* No canonical tick or snapshot scalar says what its source did not, and what it
\* leaves out is flagged (DecodeTick, DecodeSnapshot).
NothingGuessed ==
  /\ input.kind = "tick" => TickGuessesNothing(input.raw)
  /\ input.kind = "scalar" => ScalarGuessesNothing(input.field, input.raw)

\* Admission route, decoder and failure descriptor place a tick alike
\* (ExtractAdmissionRoute, DecodeTick, ExtractTickNativeDescriptor).
PositionsAgree == input.kind = "tick" => PositionAgrees(input.raw)

\* Under accepted selections and configurations, only selected messages that are
\* whole and fit their slot are admitted, and no size computed at creation wraps.
AdmittedFits ==
  input.kind = "admission" => AdmissionFits(input.file, input.configuration, Headers)
=============================================================================
