-------------------------- MODULE CanonicalFields --------------------------
(***************************************************************************)
(* What the decoder makes of the fields of a message (src/decoder.cpp):    *)
(* DecodeShanghaiTick, DecodeShenzhenOrder, DecodeShenzhenTransaction, the *)
(* scalars of the two snapshots, and ExtractAdmissionRoute and             *)
(* ExtractTickNativeDescriptor, which read a tick's position on other      *)
(* occasions.                                                              *)
(*                                                                         *)
(* A raw tick is a record of the wire fields; texts and enumerations are   *)
(* strings, "?" standing for every unknown value.  A canonical tick has    *)
(* its validity bits and quality flags as sets, without the Quality and    *)
(* Valid of their names.  Decoder.tla walks the bytes of a body.           *)
(***************************************************************************)
EXTENDS Integers, FiniteSets

CONSTANTS Max32, Max64    \* the largest 32-bit and 64-bit signed values

ASSUME FieldsAssumption == Max32 \in Nat \ {0} /\ Max64 \in Nat \ {0}

\* The smallest value of a width stands for a missing one.
kNullI32 == -(Max32 + 1)
kNullI64 == -(Max64 + 1)
kNullTime == 1000000000

-----------------------------------------------------------------------------
(* Numbers and times. *)

Multiplier(scale) == 10 ^ (6 - scale)

\* NormalizeP6 overflows; C++ division truncates towards zero.
P6Overflows(raw, scale) ==
  \/ raw > 0 /\ raw > Max64 \div Multiplier(scale)
  \/ raw < 0 /\ raw < -((Max64 + 1) \div Multiplier(scale))

\* A decimal as wire and p6 value; a raw value in null leaves raw_valid unset.
Decimal(raw, null, scale) ==
  [raw_valid |-> raw \notin null, p6_valid |-> FALSE, overflow |-> FALSE, p6 |-> 0]
NormalizeP6(raw, null, scale) ==
  LET loaded == Decimal(raw, null, scale)
  IN  IF ~loaded.raw_valid THEN loaded
      ELSE IF P6Overflows(raw, scale) THEN [loaded EXCEPT !.overflow = TRUE]
      ELSE [loaded EXCEPT !.p6_valid = TRUE, !.p6 = raw * Multiplier(scale)]

\* A price is normalised if it is positive, an amount if it is not negative.
DecodePrice(raw, null, scale) ==
  IF raw > 0 THEN NormalizeP6(raw, null, scale) ELSE Decimal(raw, null, scale)
DecodeAmount(raw, null, scale) ==
  IF raw >= 0 THEN NormalizeP6(raw, null, scale) ELSE Decimal(raw, null, scale)

\* HHMMSSmmm; the result is in milliseconds here, -1 for no time.
DecodeTime(raw) ==
  LET hour == raw \div 10000000
      minute == (raw \div 100000) % 100
      second == (raw \div 1000) % 100
  IN  IF raw = kNullTime \/ hour >= 24 \/ minute >= 60 \/ second >= 60 THEN -1
      ELSE (hour * 3600 + minute * 60 + second) * 1000 + (raw % 1000)
TimeQuality(raw) ==
  {flag \in {"InvalidTime", "NullSourceValue"} :
     DecodeTime(raw) = -1 /\ (flag = "NullSourceValue" => raw = kNullTime)}

-----------------------------------------------------------------------------
(* Enumerations. *)

Phases == {"START", "OCALL", "TRADE", "SUSP", "CCALL", "CLOSE", "ENDTR"}
SzSide == [x \in {"49", "50", "71", "70", "?"} |->
             CASE x = "49" -> "Buy" [] x = "50" -> "Sell" [] x = "71" -> "Borrow"
               [] x = "70" -> "Lend" [] OTHER -> "Unknown"]
SzOrderType == [x \in {"49", "50", "85", "?"} |->
             CASE x = "49" -> "Market" [] x = "50" -> "Limit" [] x = "85" -> "SameSideBest"
               [] OTHER -> "Unknown"]
ShSide == [x \in {"B", "S", "N", "?"} \cup Phases |->
             CASE x = "B" -> "Buy" [] x = "S" -> "Sell" [] OTHER -> "Unknown"]
ShAggressor == [x \in {"B", "S", "N", "?"} \cup Phases |->
             CASE x = "B" -> "Buy" [] x = "S" -> "Sell" [] x = "N" -> "Neutral"
               [] OTHER -> "Unknown"]

-----------------------------------------------------------------------------
(* The three decoders.  A flag or bit is in its set if its condition holds. *)

Where(conditions) == {name \in DOMAIN conditions : conditions[name]}

\* Sequence and channel: positive in Shanghai, any channel in Shenzhen.
NativeError(r) ==
  r.sequence <= 0 \/ (r.class = "ShanghaiTick" /\ r.channel <= 0)

\* The vendor's local time in the header is decoded with every message.
InitializeCommon(r) == TimeQuality(r.local)

\* Quality of what a tick carries in its body: order ids, quantity, time.
CommonQuality(r) ==
  InitializeCommon(r) \cup TimeQuality(r.time) \cup
  Where([InvalidOrderReference |-> r.buy < 0 \/ r.sell < 0,
         InvalidQuantity |-> r.quantity < 0])

DecodeShanghaiTick(r) ==
  LET add == r.type = "A"
      cancel == r.type = "D"
      trade == r.type = "T"
      status == r.type = "S"
      side == IF add \/ cancel THEN ShSide[r.flag] ELSE "Unknown"
      aggressor == IF trade THEN ShAggressor[r.flag] ELSE "Unknown"
      primary == CASE side = "Buy" -> r.buy [] side = "Sell" -> r.sell [] OTHER -> 0
      price == IF add \/ trade THEN DecodePrice(r.price, {kNullI32}, 3)
                               ELSE Decimal(r.price, {kNullI32}, 3)
      amount == IF trade THEN DecodeAmount(r.amount, {kNullI64}, 3)
                         ELSE Decimal(r.amount, {kNullI64}, 3)
      whole == r.amount >= 0 /\ r.amount % 1000 = 0
      matched == add /\ amount.raw_valid /\ whole
  IN  [error |-> IF price.overflow \/ amount.overflow THEN "FixedPointOverflow" ELSE "None",
       action |-> CASE add -> "Add" [] cancel -> "Cancel" [] trade -> "Trade"
                    [] status -> "Status" [] OTHER -> "Unknown",
       side |-> side, aggressor |-> aggressor, primary |-> primary,
       price |-> price.p6, amount |-> amount.p6,
       matched |-> IF matched THEN r.amount \div 1000 ELSE 0,
       validity |-> Where(
         [ExchangeTime |-> DecodeTime(r.time) # -1,
          Price |-> price.p6_valid,
          Quantity |-> (add \/ cancel \/ trade) /\ r.quantity >= 0,
          Amount |-> amount.p6_valid,
          Side |-> side # "Unknown",
          PrimaryOrderId |-> side # "Unknown" /\ primary > 0,
          BuyOrderId |-> trade /\ r.buy > 0,
          SellOrderId |-> trade /\ r.sell > 0,
          Aggressor |-> aggressor # "Unknown",
          Phase |-> status /\ r.flag \in Phases,
          MatchedQuantity |-> matched]),
       quality |-> CommonQuality(r) \cup Where(
         [NullSourceValue |-> r.price = kNullI32 \/ r.amount = kNullI64,
          InvalidPrice |-> (add \/ trade) /\ price.raw_valid /\ r.price <= 0,
          InvalidQuantity |-> add /\ amount.raw_valid /\ r.amount < 0,
          InvalidAmount |-> trade /\ amount.raw_valid /\ r.amount < 0,
          NonIntegralMatchedQuantity |-> add /\ r.amount >= 0 /\ ~whole,
          UnknownEnum |-> \/ (add \/ cancel) /\ side = "Unknown"
                          \/ trade /\ aggressor = "Unknown"
                          \/ status /\ r.flag \notin Phases
                          \/ r.type \notin {"A", "D", "T", "S"}])]

\* The order's own sequence is its order id; only a limit order has a price.
DecodeShenzhenOrder(r) ==
  LET side == SzSide[r.flag]
      type == SzOrderType[r.type]
      price == IF type = "Limit" THEN DecodePrice(r.price, {kNullI64}, 4)
                                 ELSE Decimal(r.price, {kNullI64}, 4)
  IN  [error |-> IF price.overflow THEN "FixedPointOverflow" ELSE "None",
       action |-> "Add", side |-> side, aggressor |-> "Unknown", primary |-> r.sequence,
       price |-> price.p6, amount |-> 0, matched |-> 0,
       validity |-> Where(
         [ExchangeTime |-> DecodeTime(r.time) # -1,
          Price |-> price.p6_valid,
          Quantity |-> r.quantity >= 0,
          Side |-> side # "Unknown",
          OrderType |-> type # "Unknown",
          PrimaryOrderId |-> TRUE]),
       quality |-> InitializeCommon(r) \cup TimeQuality(r.time) \cup Where(
         [NullSourceValue |-> r.price = kNullI64,
          InvalidQuantity |-> r.quantity < 0,
          InvalidPrice |-> type = "Limit" /\ price.raw_valid /\ r.price <= 0,
          UnknownEnum |-> side = "Unknown" \/ type = "Unknown"])]

\* Mutant: the buy side wins an ambiguous cancellation.
CancelSideOfBuyFirst(r) ==
  IF r.buy > 0 THEN "Buy" ELSE IF r.sell > 0 THEN "Sell" ELSE "Unknown"

\* A cancellation names one order; with both or none it is ambiguous.
CancelSide(r) ==
  IF (r.buy > 0) = (r.sell > 0) THEN "Unknown" ELSE IF r.buy > 0 THEN "Buy" ELSE "Sell"

DecodeShenzhenTransaction(r) ==
  LET trade == r.type = "70"
      cancel == r.type = "52"
      side == IF cancel THEN CancelSide(r) ELSE "Unknown"
      price == IF trade THEN DecodePrice(r.price, {kNullI64}, 4)
                        ELSE Decimal(r.price, {kNullI64}, 4)
  IN  [error |-> IF price.overflow THEN "FixedPointOverflow" ELSE "None",
       action |-> CASE trade -> "Trade" [] cancel -> "Cancel" [] OTHER -> "Unknown",
       side |-> side, aggressor |-> "Unknown",
       primary |-> CASE side = "Buy" -> r.buy [] side = "Sell" -> r.sell [] OTHER -> 0,
       price |-> price.p6, amount |-> 0, matched |-> 0,
       validity |-> Where(
         [ExchangeTime |-> DecodeTime(r.time) # -1,
          Price |-> price.p6_valid,
          Quantity |-> (trade \/ cancel) /\ r.quantity >= 0,
          Side |-> side # "Unknown",
          PrimaryOrderId |-> side # "Unknown",
          BuyOrderId |-> (trade \/ cancel) /\ r.buy > 0,
          SellOrderId |-> (trade \/ cancel) /\ r.sell > 0]),
       quality |-> CommonQuality(r) \cup Where(
         [NullSourceValue |-> r.price = kNullI64,
          InvalidPrice |-> trade /\ price.raw_valid /\ r.price <= 0,
          AmbiguousOrderReference |-> cancel /\ side = "Unknown",
          UnknownEnum |-> ~trade /\ ~cancel])]

DecodeTick(r) ==
  CASE ~r.whole -> [error |-> "Truncated"]
    [] r.whole /\ NativeError(r) -> [error |-> "InvalidNativeSequence"]
    [] OTHER -> CASE r.class = "ShanghaiTick" -> DecodeShanghaiTick(r)
                  [] r.class = "ShenzhenOrder" -> DecodeShenzhenOrder(r)
                  [] r.class = "ShenzhenTransaction" -> DecodeShenzhenTransaction(r)

-----------------------------------------------------------------------------
(* Where a tick belongs, read at admission and after a decode failure. *)

Market(class) == IF class = "ShanghaiTick" THEN 4 ELSE 6

\* Mutant: the channel's sign is not looked at.
ExtractAdmissionRouteUnsigned(r) == IF ~r.whole THEN {} ELSE {<<Market(r.class), r.channel>>}

\* The market and channel that choose the lane; empty: the message is rejected.
ExtractAdmissionRoute(r) ==
  IF ~r.whole \/ (r.class = "ShanghaiTick" /\ r.channel <= 0) THEN {}
  ELSE {<<Market(r.class), r.channel>>}

\* Market, channel and sequence of a tick that did not decode.
ExtractTickNativeDescriptor(r) ==
  IF ~r.whole \/ NativeError(r) THEN {} ELSE {<<Market(r.class), r.channel, r.sequence>>}

-----------------------------------------------------------------------------
(* The scalars of a snapshot: a price, a quantity or a decimal of some scale. *)

Scalar(kind, null, scale) == [kind |-> kind, null |-> null, scale |-> scale]
ShanghaiScalars ==
  {Scalar("price", {kNullI32}, 3), Scalar("quantity", {kNullI64}, 3),
   Scalar("decimal", {kNullI64}, 5)}
ShenzhenScalars ==
  {Scalar("price", {kNullI64}, 4), Scalar("price", {kNullI64}, 6),
   Scalar("decimal", {kNullI64}, 4), Scalar("quantity", {}, 0)}

DecodeScalar(f, raw) ==
  LET decoded == CASE f.kind = "price" -> DecodePrice(raw, f.null, f.scale)
                   [] f.kind = "decimal" -> NormalizeP6(raw, f.null, f.scale)
                   [] f.kind = "quantity" -> Decimal(raw, f.null, f.scale)
  IN  [error |-> IF decoded.overflow THEN "FixedPointOverflow" ELSE "None",
       valid |-> IF f.kind = "quantity" THEN raw \notin f.null /\ raw >= 0 ELSE decoded.p6_valid,
       value |-> IF f.kind = "quantity" THEN raw ELSE decoded.p6,
       quality |-> Where([NullSourceValue |-> raw \in f.null,
                          InvalidPrice |-> f.kind = "price" /\ raw \notin f.null /\ raw <= 0,
                          InvalidQuantity |-> f.kind = "quantity" /\ raw \notin f.null /\ raw < 0])]

-----------------------------------------------------------------------------
(* Properties of a raw tick r, and of a raw value of a snapshot's scalar f. *)

\* What an action promises its reader, apart from order ids.
Promised(r, action) ==
  {"ExchangeTime"} \cup
  CASE action = "Status" -> {"Phase"}
    [] action = "Cancel" -> {"Quantity", "Side"}
    [] action = "Trade" -> {"Price", "Quantity"}
         \cup (IF r.class = "ShanghaiTick" THEN {"Amount", "Aggressor"} ELSE {})
    [] action = "Add" -> {"Quantity", "Side"}
         \cup (IF r.class = "ShanghaiTick" THEN {"Price", "MatchedQuantity"} ELSE {"OrderType"})
    [] OTHER -> {}

\* The exact p6 value, and that it is one in 64 bits.
Exactly(p6, raw, scale) == p6 = raw * 10 ^ (6 - scale) /\ p6 \in -(Max64 + 1)..Max64

\* A canonical tick says nothing its source did not: a price or amount is the exact
\* scaled wire value, and only of an action that has one; a side has its own order's
\* id, and a cancellation with two orders or none has no side; an unknown type
\* publishes nothing but its time; and a field missing from what the action promises
\* is flagged (docs/mdl-ingestd-design.md, section 4).
TickGuessesNothing(r) ==
  LET t == DecodeTick(r) IN t.error = "None" =>
    /\ "Price" \in t.validity =>
         t.action \in {"Add", "Trade"} /\ r.price > 0
         /\ Exactly(t.price, r.price, IF r.class = "ShanghaiTick" THEN 3 ELSE 4)
    /\ "Amount" \in t.validity =>
         t.action = "Trade" /\ r.amount >= 0 /\ Exactly(t.amount, r.amount, 3)
    /\ "MatchedQuantity" \in t.validity => t.action = "Add" /\ t.matched * 1000 = r.amount
    /\ "PrimaryOrderId" \in t.validity /\ r.class # "ShenzhenOrder" =>
         t.primary > 0 /\ t.primary = (IF t.side = "Buy" THEN r.buy ELSE r.sell)
    /\ t.action = "Cancel" /\ "Side" \in t.validity /\ r.class # "ShanghaiTick" =>
         Cardinality({x \in {"Buy", "Sell"} : (IF x = "Buy" THEN r.buy ELSE r.sell) > 0}) = 1
    /\ t.action = "Unknown" => t.validity \subseteq {"ExchangeTime"}
    /\ t.quality = {} => Promised(r, t.action) \subseteq t.validity

\* A valid scalar is the exact scaled wire value, and an invalid one is flagged.
ScalarGuessesNothing(f, raw) ==
  LET d == DecodeScalar(f, raw)
  IN  /\ d.valid /\ f.kind # "quantity" => Exactly(d.value, raw, f.scale)
      /\ d.valid \/ d.quality # {} \/ d.error # "None"

\* Admission, decoder and the descriptor of a failed decode place a tick alike: a
\* decoded tick has the channel its lane was chosen by, a failed one freezes that
\* channel, and only a bad sequence leaves an admitted tick without a position.
PositionAgrees(r) ==
  LET route == ExtractAdmissionRoute(r)
      position == ExtractTickNativeDescriptor(r)
  IN  /\ DecodeTick(r).error = "None" => position # {} /\ route # {}
      /\ position # {} => route = {<<p[1], p[2]>> : p \in position}
      /\ route # {} /\ position = {} => r.sequence <= 0
=============================================================================
