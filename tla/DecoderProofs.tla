--------------------------- MODULE DecoderProofs ---------------------------
(***************************************************************************)
(* The decoder's walk over the dynamic parts of a body, for every width of *)
(* size_t, every limit and every content of the descriptors: the parts     *)
(* handed out lie in the body and apart from each other, the room reserved *)
(* beforehand is enough, and a message is refused for overlap only on its  *)
(* own account. Then what the decoder makes of the fixed fields, what a    *)
(* configuration admits, and what the catalog finds, for every input.      *)
(***************************************************************************)
EXTENDS Decoder, Inputs, Catalog, FiniteSetTheorems, SequenceTheorems, NaturalsInduction,
        WellFoundedInduction, TLAPS

(***************************************************************************)
(* Arithmetic of size_t.                                                   *)
(***************************************************************************)
\* A number below the width is its own remainder.
LEMMA Remainder ==
  ASSUME NEW c \in Nat \ {0}, NEW n \in 0..(c - 1)
  PROVE  n % c = n
OBVIOUS

\* Wrapping ends in the range of size_t, and leaves what is there alone.
LEMMA WrapIs ==
  ASSUME NEW n \in Int
  PROVE  Wrap(n) \in 0..SizeMax /\ (n \in 0..SizeMax => Wrap(n) = n)
<1>1. SizeMax \in Nat
  BY MessagesAssumption
<1> PICK c \in Nat \ {0} : c = SizeMax + 1
  BY <1>1
<1>2. n % c \in 0..(c - 1)
  OBVIOUS
<1>3. n \in 0..(c - 1) => n % c = n
  BY Remainder, Zenon
<1>4. c - 1 = SizeMax
  BY <1>1
<1>5. QED
  BY <1>2, <1>3, <1>4, Zenon DEF Wrap

-----------------------------------------------------------------------------
(***************************************************************************)
(* The parts of a message.                                                 *)
(***************************************************************************)
DynamicPart ==
  [kind : {"text", "list", "queue"}, at : Nat, item : Nat \ {0}, required : BOOLEAN]
FieldsPart == [kind : {"fields"}, errors : SUBSET {"InvalidNativeSequence", "FixedPointOverflow"}]
Part == DynamicPart \cup FieldsPart

\* The lists of a sequence of parts are the k that come after the first a.
ListsAt(s, a, k) ==
  /\ a + k <= Len(s)
  /\ \A i \in 1..Len(s) : s[i].kind = "list" <=> (a < i /\ i <= a + k)

\* The parts are of the decoder's kinds.
LEMMA PartKinds ==
  /\ \A at \in Nat, required \in BOOLEAN : Text(at, required) \in Part
  /\ \A at \in Nat : List(at) \in Part
  /\ \A at \in Nat, item \in Nat \ {0} : Queue(at, item) \in Part
  /\ Fields({"InvalidNativeSequence"}) \in Part /\ Fields({"FixedPointOverflow"}) \in Part
  /\ Fields({"InvalidNativeSequence", "FixedPointOverflow"}) \in Part
BY DEF Text, List, Queue, Fields, Part, DynamicPart, FieldsPart

\* ReadIdentity reads texts.
LEMMA IdentityParts ==
  ASSUME NEW n \in Nat, NEW offsets \in [1..n -> Nat]
  PROVE  /\ ReadIdentity(offsets) \in Seq(Part) /\ Len(ReadIdentity(offsets)) = n
         /\ \A i \in 1..n : ReadIdentity(offsets)[i].kind = "text"
<1>1. ReadIdentity(offsets) = [i \in 1..n |-> Text(offsets[i], TRUE)]
  BY DEF ReadIdentity
<1>2. \A i \in 1..n : Text(offsets[i], TRUE) \in Part /\ Text(offsets[i], TRUE).kind = "text"
  BY PartKinds DEF Text
<1> PICK s : s = [i \in 1..n |-> Text(offsets[i], TRUE)]
  OBVIOUS
<1>3. s \in [1..n -> Part] /\ \A i \in 1..n : s[i].kind = "text"
  BY <1>2
<1>4. s \in Seq(Part)
  BY <1>3, SeqDef
<1>5. DOMAIN s = 1..n
  BY <1>3
<1>6. Len(s) = n
  BY <1>4, <1>5, LenProperties
<1>7. QED
  BY <1>1, <1>3, <1>4, <1>6

\* The items of two sequences joined.
LEMMA JoinedItems ==
  ASSUME NEW S, NEW s \in Seq(S), NEW t \in Seq(S)
  PROVE  /\ s \o t \in Seq(S) /\ Len(s \o t) = Len(s) + Len(t)
         /\ \A i \in 1..(Len(s) + Len(t)) :
              (s \o t)[i] = IF i <= Len(s) THEN s[i] ELSE t[i - Len(s)]
BY ConcatProperties

\* Parts that are no lists before or behind others do not change which are lists.
LEMMA Behind ==
  ASSUME NEW s \in Seq(Part), \A i \in 1..Len(s) : s[i].kind # "list",
         NEW t \in Seq(Part), NEW a \in Nat, NEW k \in 0..2, ListsAt(t, a, k)
  PROVE  /\ s \o t \in Seq(Part) /\ Len(s \o t) = Len(s) + Len(t)
         /\ ListsAt(s \o t, Len(s) + a, k)
<1> PICK u : u = s \o t
  OBVIOUS
<1> PICK n \in Nat, m \in Nat : n = Len(s) /\ m = Len(t)
  OBVIOUS
<1>1. /\ u \in Seq(Part) /\ Len(u) = n + m
      /\ \A i \in 1..(n + m) : u[i] = IF i <= n THEN s[i] ELSE t[i - n]
  BY JoinedItems
<1>2. a + k <= m /\ \A i \in 1..m : t[i].kind = "list" <=> (a < i /\ i <= a + k)
  BY DEF ListsAt
<1>3. ASSUME NEW i \in 1..(n + m)
      PROVE  u[i].kind = "list" <=> (n + a < i /\ i <= n + a + k)
  <2>1. CASE i <= n
    BY <1>1, <2>1
  <2>2. CASE ~(i <= n)
    <3>1. i - n \in 1..m /\ u[i] = t[i - n]
      BY <1>1, <2>2
    <3>2. QED
      BY <1>2, <2>2, <3>1
  <2>3. QED
    BY <2>1, <2>2
<1>4. QED
  BY <1>1, <1>2, <1>3 DEF ListsAt

LEMMA Before ==
  ASSUME NEW s \in Seq(Part), NEW a \in Nat, NEW k \in 0..2, ListsAt(s, a, k),
         NEW t \in Seq(Part), \A i \in 1..Len(t) : t[i].kind # "list"
  PROVE  /\ s \o t \in Seq(Part) /\ Len(s \o t) = Len(s) + Len(t)
         /\ ListsAt(s \o t, a, k)
<1> PICK u : u = s \o t
  OBVIOUS
<1> PICK n \in Nat, m \in Nat : n = Len(s) /\ m = Len(t)
  OBVIOUS
<1>1. /\ u \in Seq(Part) /\ Len(u) = n + m
      /\ \A i \in 1..(n + m) : u[i] = IF i <= n THEN s[i] ELSE t[i - n]
  BY JoinedItems
<1>2. a + k <= n /\ \A i \in 1..n : s[i].kind = "list" <=> (a < i /\ i <= a + k)
  BY DEF ListsAt
<1>3. ASSUME NEW i \in 1..(n + m)
      PROVE  u[i].kind = "list" <=> (a < i /\ i <= a + k)
  <2>1. CASE i <= n
    BY <1>1, <1>2, <2>1
  <2>2. CASE ~(i <= n)
    <3>1. i - n \in 1..m /\ u[i] = t[i - n]
      BY <1>1, <2>2
    <3>2. QED
      BY <1>2, <2>2, <3>1
  <2>3. QED
    BY <2>1, <2>2
<1>4. QED
  BY <1>1, <1>2, <1>3 DEF ListsAt

\* What is left after the first part: one list less if that was one.
LEMMA Rest ==
  ASSUME NEW s \in Seq(Part), s # <<>>, NEW a \in Nat, NEW k \in 0..2, ListsAt(s, a, k)
  PROVE  /\ Tail(s) \in Seq(Part) /\ Len(Tail(s)) = Len(s) - 1 /\ Len(s) >= 1
         /\ Head(s).kind # "list" => \E b \in Nat : ListsAt(Tail(s), b, k)
         /\ Head(s).kind = "list" => k >= 1 /\ \E b \in Nat : ListsAt(Tail(s), b, k - 1)
<1> PICK u : u = Tail(s)
  OBVIOUS
<1> PICK n \in Nat : n = Len(s)
  OBVIOUS
<1>1. /\ u \in Seq(Part) /\ Len(u) = n - 1 /\ n >= 1 /\ Head(s) = s[1]
      /\ \A i \in 1..(n - 1) : u[i] = s[i + 1]
  OBVIOUS
<1>2. a + k <= n /\ \A i \in 1..n : s[i].kind = "list" <=> (a < i /\ i <= a + k)
  BY DEF ListsAt
<1>3. \A i \in 1..(n - 1) : u[i].kind = "list" <=> (a < i + 1 /\ i + 1 <= a + k)
  BY <1>1, <1>2
<1>4. CASE a > 0
  <2>1. a - 1 \in Nat /\ Head(s).kind # "list" /\ ListsAt(u, a - 1, k)
    BY <1>1, <1>2, <1>3, <1>4 DEF ListsAt
  <2>2. QED
    BY <1>1, <2>1
<1>5. CASE a = 0 /\ k = 0
  <2>1. Head(s).kind # "list" /\ ListsAt(u, 0, k)
    BY <1>1, <1>2, <1>3, <1>5 DEF ListsAt
  <2>2. QED
    BY <1>1, <2>1
<1>6. CASE a = 0 /\ k > 0
  <2>1. Head(s).kind = "list" /\ ListsAt(u, 0, k - 1)
    BY <1>1, <1>2, <1>3, <1>6 DEF ListsAt
  <2>2. QED
    BY <1>1, <1>6, <2>1
<1>7. QED
  BY <1>4, <1>5, <1>6

\* Four parts, of which the last k are lists.
LEMMA FourParts ==
  ASSUME NEW p \in Part, NEW q \in Part, NEW r \in Part, NEW t \in Part, NEW k \in {0, 2},
         p.kind # "list", q.kind # "list",
         \/ k = 0 /\ r.kind # "list" /\ t.kind # "list"
         \/ k = 2 /\ r.kind = "list" /\ t.kind = "list"
  PROVE  /\ <<p, q, r, t>> \in Seq(Part) /\ Len(<<p, q, r, t>>) = 4
         /\ ListsAt(<<p, q, r, t>>, 2, k)
<1> PICK s : s = <<p, q, r, t>>
  OBVIOUS
<1>1. s \in Seq(Part)
  OBVIOUS
<1>2. Len(s) = 4 /\ s[1] = p /\ s[2] = q /\ s[3] = r /\ s[4] = t
  OBVIOUS
<1>3. \A i \in 1..4 : i = 1 \/ i = 2 \/ i = 3 \/ i = 4
  OBVIOUS
<1>4. ASSUME NEW i \in 1..4 PROVE s[i].kind = "list" <=> (2 < i /\ i <= 2 + k)
  <2>1. CASE i = 1 \/ i = 2
    BY <1>2, <2>1
  <2>2. CASE i = 3 \/ i = 4
    BY <1>2, <2>2
  <2>3. QED
    BY <1>3, <2>1, <2>2
<1>5. QED
  BY <1>1, <1>2, <1>4 DEF ListsAt

\* A message of eight parts at most, k of them lists.
Message(s, k) ==
  /\ s \in Seq(Part) /\ s # <<>> /\ Len(s) <= 8
  /\ \E a \in Nat : ListsAt(s, a, k)

\* An identity and what is read behind it.
LEMMA IdentityAndMore ==
  ASSUME NEW n \in 1..3, NEW offsets \in [1..n -> Nat], NEW s \in Seq(Part),
         NEW k \in 0..2, NEW a \in Nat, ListsAt(s, a, k), Len(s) <= 5
  PROVE  Message(ReadIdentity(offsets) \o s, k)
<1>1. /\ ReadIdentity(offsets) \in Seq(Part) /\ Len(ReadIdentity(offsets)) = n
      /\ \A i \in 1..n : ReadIdentity(offsets)[i].kind # "list"
  BY IdentityParts
<1> PICK r \in Seq(Part) : r = ReadIdentity(offsets)
  BY <1>1
<1>2. r \o s \in Seq(Part) /\ Len(r \o s) = n + Len(s) /\ ListsAt(r \o s, n + a, k)
  BY <1>1, Behind
<1>3. n + a \in Nat /\ Len(r \o s) <= 8 /\ Len(r \o s) # 0
  BY <1>2
<1>4. QED
  BY <1>2, <1>3 DEF Message

\* An identity and four parts behind it.
LEMMA IdentityAndFour ==
  ASSUME NEW n \in 1..3, NEW offsets \in [1..n -> Nat], NEW k \in {0, 2},
         NEW p \in Part, NEW q \in Part, NEW r \in Part, NEW t \in Part,
         p.kind # "list", q.kind # "list",
         \/ k = 0 /\ r.kind # "list" /\ t.kind # "list"
         \/ k = 2 /\ r.kind = "list" /\ t.kind = "list"
  PROVE  Message(ReadIdentity(offsets) \o <<p, q, r, t>>, k)
<1> PICK s : s = <<p, q, r, t>>
  OBVIOUS
<1>1. s \in Seq(Part) /\ Len(s) = 4 /\ ListsAt(s, 2, k)
  BY FourParts, Zenon
<1>2. Len(s) <= 5 /\ k \in 0..2 /\ 2 \in Nat
  BY <1>1
<1>3. QED
  BY <1>1, <1>2, IdentityAndMore, Zenon

LEMMA IdentityAndLists ==
  ASSUME NEW n \in 1..3, NEW offsets \in [1..n -> Nat], NEW p \in Part, NEW q \in Part,
         NEW r \in Part, NEW t \in Part,
         p.kind # "list", q.kind # "list", r.kind = "list", t.kind = "list"
  PROVE  Message(ReadIdentity(offsets) \o <<p, q, r, t>>, 2)
BY IdentityAndFour, 2 \in {0, 2}, Zenon

\* The parts of every class: eight at most, the lists of a snapshot among them.
LEMMA LayoutParts ==
  ASSUME NEW c \in TickClasses \cup SnapshotClasses
  PROVE  Message(Layout[c], IF c \in TickClasses THEN 0 ELSE 2)
<1>1. <<12>> \in [1..1 -> Nat] /\ <<4>> \in [1..1 -> Nat]
  OBVIOUS
<1>2. /\ <<12, 18, 24>> \in [1..3 -> Nat] /\ <<12, 34, 40>> \in [1..3 -> Nat]
      /\ <<8, 14, 20>> \in [1..3 -> Nat]
  OBVIOUS
<1>3. /\ \A e : Fields(e).kind # "list"
      /\ \A at, required : Text(at, required).kind # "list"
      /\ \A at : List(at).kind = "list"
  BY DEF Fields, Text, List
<1>4. Message(ShanghaiTickParts, 0)
  <2> PICK p \in Part, q \in Part, r \in Part, t \in Part :
             /\ p = Fields({"InvalidNativeSequence"}) /\ q = Text(22, TRUE)
             /\ r = Text(64, TRUE) /\ t = Fields({"FixedPointOverflow"})
    BY PartKinds
  <2>1. p.kind # "list" /\ q.kind # "list" /\ r.kind # "list" /\ t.kind # "list"
    BY <1>3
  <2> PICK offsets \in [1..1 -> Nat] : offsets = <<12>>
    BY <1>1
  <2>2. Message(ReadIdentity(offsets) \o <<p, q, r, t>>, 0)
    BY <2>1, IdentityAndFour, 0 \in {0, 2}, 1 \in 1..3, Zenon
  <2>3. QED
    BY <2>2 DEF ShanghaiTickParts
<1>5. Message(ShenzhenOrderParts, 0) /\ Message(ShenzhenTransactionParts, 0)
  <2> PICK s : s = <<Fields({"InvalidNativeSequence", "FixedPointOverflow"})>>
    OBVIOUS
  <2>1. s \in Seq(Part) /\ Len(s) = 1 /\ s[1].kind # "list"
    BY <1>3, PartKinds
  <2>2. ListsAt(s, 0, 0)
    BY <2>1 DEF ListsAt
  <2>3. ASSUME NEW offsets \in [1..3 -> Nat] PROVE Message(ReadIdentity(offsets) \o s, 0)
    <3>1. Len(s) <= 5
      BY <2>1
    <3>2. QED
      BY <2>1, <2>2, <3>1, IdentityAndMore, 3 \in 1..3, 0 \in 0..2, 0 \in Nat, Zenon
  <2>4. QED
    BY <1>2, <2>3 DEF ShenzhenOrderParts, ShenzhenTransactionParts
<1>6. Message(ShanghaiSnapshotParts, 2)
  <2>1. ASSUME NEW p \in Part, NEW q \in Part, NEW r \in Part, NEW t \in Part,
               p.kind # "list", q.kind # "list", r.kind = "list", t.kind = "list"
        PROVE  Message(ReadIdentity(<<4>>) \o <<p, q, r, t>>, 2)
    BY <1>1, <2>1, IdentityAndLists, 1 \in 1..3, Zenon
  <2>2. Text(38, FALSE) \in Part /\ Text(38, FALSE).kind # "list"
    BY <1>3, PartKinds
  <2>3. Fields({"FixedPointOverflow"}) \in Part /\ Fields({"FixedPointOverflow"}).kind # "list"
    BY <1>3, PartKinds
  <2>4. /\ List(228) \in Part /\ List(228).kind = "list"
        /\ List(236) \in Part /\ List(236).kind = "list"
    BY <1>3, PartKinds
  <2>5. QED
    BY <2>1, <2>2, <2>3, <2>4 DEF ShanghaiSnapshotParts
<1>7. Message(ShenzhenSnapshotParts, 2)
  <2>1. ASSUME NEW p \in Part, NEW q \in Part, NEW r \in Part, NEW t \in Part,
               p.kind # "list", q.kind # "list", r.kind = "list", t.kind = "list"
        PROVE  Message(ReadIdentity(<<8, 14, 20>>) \o <<p, q, r, t>>, 2)
    BY <1>2, <2>1, IdentityAndLists, 3 \in 1..3, Zenon
  <2>2. Text(26, TRUE) \in Part /\ Text(26, TRUE).kind # "list"
    BY <1>3, PartKinds
  <2>3. Fields({"FixedPointOverflow"}) \in Part /\ Fields({"FixedPointOverflow"}).kind # "list"
    BY <1>3, PartKinds
  <2>4. /\ List(208) \in Part /\ List(208).kind = "list"
        /\ List(216) \in Part /\ List(216).kind = "list"
    BY <1>3, PartKinds
  <2>5. QED
    BY <2>1, <2>2, <2>3, <2>4 DEF ShenzhenSnapshotParts
<1>8. QED
  BY <1>4, <1>5, <1>6, <1>7 DEF Layout, TickClasses, SnapshotClasses

\* The parts read for a route are texts.
LEMMA RouteParts ==
  ASSUME NEW c \in SnapshotClasses
  PROVE  RouteLayout[c] \in Seq(Part)
<1>1. <<4>> \in [1..1 -> Nat] /\ <<14, 20>> \in [1..2 -> Nat]
  OBVIOUS
<1>2. ReadIdentity(<<4>>) \in Seq(Part) /\ ReadIdentity(<<14, 20>>) \in Seq(Part)
  BY <1>1, IdentityParts
<1>3. QED
  BY <1>2 DEF RouteLayout, SnapshotClasses

-----------------------------------------------------------------------------
(***************************************************************************)
(* The room reserved by a scope.  A part needs one range; a list of levels *)
(* needs in addition one for each of its queues, MaximumDepthItems at most.*)
(***************************************************************************)
Room(k) ==
  IF k = 0 THEN 0 ELSE IF k = 1 THEN MaximumDepthItems ELSE MaximumDepthItems + MaximumDepthItems
RoomFor(s, r, c) ==
  \E a \in Nat, k \in 0..2 : ListsAt(s, a, k) /\ Cardinality(r) + Len(s) + Room(k) <= c

\* A message's room is enough for its parts.
LEMMA RoomAtFirst ==
  ASSUME NEW s, NEW k \in {0, 2}, Message(s, k), NEW c \in Nat, Room(k) + 8 <= c
  PROVE  RoomFor(s, {}, c)
<1>1. PICK a \in Nat : ListsAt(s, a, k)
  BY DEF Message
<1>2. Len(s) \in Nat /\ Len(s) <= 8
  BY DEF Message
<1>3. Cardinality({}) = 0
  BY FS_EmptySet
<1>4. Room(k) \in Nat
  BY DecoderAssumption DEF Room
<1>5. Cardinality({}) + Len(s) + Room(k) <= c
  BY <1>2, <1>3, <1>4
<1>6. k \in 0..2
  OBVIOUS
<1>7. QED
  BY <1>1, <1>5, <1>6 DEF RoomFor

LEMMA RoomForNext ==
  ASSUME NEW c \in Nat, NEW h \in Nat, NEW l \in Nat, NEW m \in Nat, NEW o \in Nat,
         m + l + o <= c, l >= 1, h <= m + 1
  PROVE  m + (l - 1) + o <= c /\ h + (l - 1) + o <= c
OBVIOUS

LEMMA RoomArithmetic ==
  ASSUME NEW c \in Nat, NEW d \in Nat, NEW h \in Nat, NEW l \in Nat, NEW m \in Nat,
         NEW o \in Nat, NEW w \in Nat, m + l + o <= c, l >= 1, h <= m + 1, o = w + d
  PROVE  /\ m + (l - 1) + w <= c
         /\ \A e \in Nat : e <= d => h + ((l - 1) + e) + w <= c
OBVIOUS

\* Reading a part leaves room for the rest, the queues of a list's levels included.
LEMMA RoomForRest ==
  ASSUME NEW s \in Seq(Part), s # <<>>, NEW r, IsFiniteSet(r), NEW c \in Nat,
         RoomFor(s, r, c), NEW x
  PROVE  /\ IsFiniteSet(r \cup {x}) /\ Cardinality(r \cup {x}) <= c
         /\ RoomFor(Tail(s), r, c)
         /\ Head(s).kind # "list" => RoomFor(Tail(s), r \cup {x}, c)
         /\ Head(s).kind = "list" =>
              \A t \in Seq(Part) :
                Len(t) <= MaximumDepthItems /\ (\A i \in 1..Len(t) : t[i].kind # "list")
                  => RoomFor(Tail(s) \o t, r \cup {x}, c)
<1> USE DecoderAssumption
<1>1. PICK a \in Nat, k \in 0..2 : ListsAt(s, a, k) /\ Cardinality(r) + Len(s) + Room(k) <= c
  BY DEF RoomFor
<1>2. /\ Tail(s) \in Seq(Part) /\ Len(Tail(s)) = Len(s) - 1 /\ Len(s) >= 1
      /\ Head(s).kind # "list" => \E b \in Nat : ListsAt(Tail(s), b, k)
      /\ Head(s).kind = "list" => k >= 1 /\ \E b \in Nat : ListsAt(Tail(s), b, k - 1)
  BY <1>1, Rest
<1>3. /\ Cardinality(r) \in Nat /\ IsFiniteSet(r \cup {x})
      /\ Cardinality(r \cup {x}) \in Nat /\ Cardinality(r \cup {x}) <= Cardinality(r) + 1
  <2>1. Cardinality(r) \in Nat
    BY FS_CardinalityType
  <2>2. IsFiniteSet(r \cup {x})
    BY FS_AddElement
  <2>3. Cardinality(r \cup {x}) = IF x \in r THEN Cardinality(r) ELSE Cardinality(r) + 1
    BY FS_AddElement
  <2>4. QED
    BY <2>1, <2>2, <2>3
<1> PICK m \in Nat, h \in Nat, l \in Nat, d \in Nat :
           /\ m = Cardinality(r) /\ h = Cardinality(r \cup {x}) /\ l = Len(s)
           /\ d = MaximumDepthItems
  BY <1>3
<1>4. /\ Room(k) \in Nat /\ Room(k) = (IF k = 0 THEN 0 ELSE IF k = 1 THEN d ELSE d + d)
      /\ k >= 1 => k - 1 \in 0..2 /\ Room(k - 1) \in Nat /\ Room(k) = Room(k - 1) + d
  BY DEF Room
<1> PICK o \in Nat : o = Room(k)
  BY <1>4
<1>5. m + l + o <= c /\ l >= 1 /\ h <= m + 1 /\ Len(Tail(s)) = l - 1
  BY <1>1, <1>2, <1>3
<1>6. Cardinality(r \cup {x}) <= c
  BY <1>4, <1>5
<1>7. ASSUME Head(s).kind # "list"
      PROVE  RoomFor(Tail(s), r, c) /\ RoomFor(Tail(s), r \cup {x}, c)
  <2>1. PICK b \in Nat : ListsAt(Tail(s), b, k)
    BY <1>2, <1>7
  <2>2. m + (l - 1) + o <= c /\ h + (l - 1) + o <= c
    BY <1>5, RoomForNext
  <2>3. QED
    BY <1>5, <2>1, <2>2 DEF RoomFor
<1>8. ASSUME Head(s).kind = "list"
      PROVE  /\ RoomFor(Tail(s), r, c)
             /\ \A t \in Seq(Part) :
                  Len(t) <= MaximumDepthItems /\ (\A i \in 1..Len(t) : t[i].kind # "list")
                    => RoomFor(Tail(s) \o t, r \cup {x}, c)
  <2>1. PICK b \in Nat : ListsAt(Tail(s), b, k - 1)
    BY <1>2, <1>8
  <2>2. k >= 1
    BY <1>2, <1>8
  <2> PICK j \in 0..2 : j = k - 1
    BY <2>2
  <2> PICK w \in Nat : w = Room(j)
    BY <1>4, <2>2
  <2>3. o = w + d
    BY <1>4, <2>2
  <2>4. m + (l - 1) + w <= c /\ \A e \in Nat : e <= d => h + ((l - 1) + e) + w <= c
    BY <1>5, <2>3, RoomArithmetic
  <2>5. RoomFor(Tail(s), r, c)
    BY <1>5, <2>1, <2>4 DEF RoomFor
  <2>6. ASSUME NEW t \in Seq(Part), Len(t) <= MaximumDepthItems,
               \A i \in 1..Len(t) : t[i].kind # "list"
        PROVE  RoomFor(Tail(s) \o t, r \cup {x}, c)
    <3> PICK u \in Seq(Part) : u = Tail(s)
      BY <1>2
    <3>1. Len(u \o t) = Len(u) + Len(t) /\ ListsAt(u \o t, b, j)
      BY <2>1, <2>6, Before
    <3> PICK e \in Nat : e = Len(t)
      OBVIOUS
    <3>2. Len(u \o t) = (l - 1) + e /\ e <= d
      BY <1>5, <2>6, <3>1
    <3>3. h + ((l - 1) + e) + w <= c
      BY <2>4, <3>2
    <3>4. QED
      BY <3>1, <3>2, <3>3 DEF RoomFor
  <2>7. QED
    BY <2>5, <2>6
<1>9. QED
  BY <1>3, <1>6, <1>7, <1>8

-----------------------------------------------------------------------------
(***************************************************************************)
(* A located part.                                                         *)
(***************************************************************************)

\* A part that is located lies in the body behind the fixed bytes: size_t does not
\* wrap on the way, whatever the descriptor says.
LEMMA LocatedInBody ==
  ASSUME class \in TickClasses \cup SnapshotClasses, size \in 0..SizeMax,
         NEW part \in DynamicPart, NEW n \in Nat \ {0}, NEW relative \in 0..SizeMax,
         NEW printable \in BOOLEAN, Locate(part, n, relative, printable) = "None"
  PROVE  /\ ~(n > Limit(part))
         /\ RangeOf(part, n, relative).begin \in Nat
         /\ FixedBytes[class] <= RangeOf(part, n, relative).begin
         /\ RangeOf(part, n, relative).begin < RangeOf(part, n, relative).end
         /\ RangeOf(part, n, relative).end <= size
<1>1. SizeMax \in Nat /\ FixedBytes[class] \in Nat
  BY MessagesAssumption DEF FixedBytes, TickClasses, SnapshotClasses
<1>2. part.at \in Nat /\ part.item \in Nat \ {0}
  BY DEF DynamicPart
<1> PICK at \in Nat, item \in Nat \ {0}, fixed \in Nat :
           at = part.at /\ item = part.item /\ fixed = FixedBytes[class]
  BY <1>1, <1>2
<1> PICK bytes \in Nat : bytes = n * item /\ bytes >= 1
  <2>1. n * item \in Nat /\ n * item >= 1
    OBVIOUS
  <2>2. QED
    BY <2>1
<1>3. /\ ~(n > Limit(part)) /\ ~(relative > SizeMax - at)
      /\ ~OutOfBody(Wrap(at + relative), bytes, fixed)
  BY DEF Locate
<1>4. at + relative \in 0..SizeMax
  BY <1>1, <1>3
<1> PICK begin \in 0..SizeMax : begin = at + relative
  BY <1>4
<1>5. Wrap(at + relative) = begin
  BY <1>4, WrapIs
<1>6. fixed <= begin /\ begin <= size /\ ~(bytes > Wrap(size - begin))
  BY <1>1, <1>3, <1>5 DEF OutOfBody
<1>7. size - begin \in 0..SizeMax
  BY <1>1, <1>6
<1>8. Wrap(size - begin) = size - begin
  BY <1>7, WrapIs
<1>9. bytes <= size - begin
  BY <1>1, <1>6, <1>7, <1>8
<1>10. begin + bytes \in 0..SizeMax /\ begin + bytes <= size
  BY <1>1, <1>9
<1>11. Wrap(begin + bytes) = begin + bytes
  BY <1>10, WrapIs
<1>12. RangeOf(part, n, relative) = [begin |-> begin, end |-> begin + bytes]
  BY <1>5, <1>11 DEF RangeOf
<1>13. QED
  BY <1>3, <1>6, <1>10, <1>12

\* No error of a descriptor is an overlap.
LEMMA LocateErrors ==
  ASSUME NEW part, NEW n, NEW relative, NEW printable
  PROVE  Locate(part, n, relative, printable) # "RangeOverlap"
BY DEF Locate

-----------------------------------------------------------------------------
(***************************************************************************)
(* The inductive invariant.                                                *)
(***************************************************************************)
DecTypes ==
  /\ task \in {"tick", "snapshot", "route"} /\ size \in 0..SizeMax
  /\ todo \in Seq(Part) /\ protect \in BOOLEAN
  /\ capacity \in Nat /\ total \in 0..MaximumQueueItems

\* While a message is read its class is known, and a snapshot's if there are lists;
\* a lane's thread reads inside a scope, the SDK's thread never opens one.
Scoped ==
  /\ todo # <<>> => class \in TickClasses \cup SnapshotClasses
  /\ \A i \in 1..Len(todo) : todo[i].kind = "list" => class \in SnapshotClasses
  /\ task = "route" => ~protect
  /\ task # "route" /\ todo # <<>> => protect

\* A lane's thread remembers at least what it handed out, and exactly that while it
\* reads on; nothing it remembers overlaps.
Remembered ==
  /\ \A p \in parts : FixedBytes[class] <= p.begin /\ p.begin < p.end /\ p.end <= size
  /\ \A p, q \in ranges : p # q => ~Overlap(p, q)
  /\ task # "route" => parts \subseteq ranges
  /\ protect /\ todo # <<>> => ranges = parts

Enough ==
  /\ IsFiniteSet(ranges) /\ Cardinality(ranges) <= capacity
  /\ protect /\ todo # <<>> => RoomFor(todo, ranges, capacity)

DecInv == DecTypes /\ Scoped /\ Remembered /\ Enough /\ OverlapIsOwn

LEMMA DecInvInit == Init => DecInv
<1> SUFFICES ASSUME Init PROVE DecInv
  OBVIOUS
<1>1. DecTypes
  <2>1. DOMAIN ClassesOf = {"tick", "snapshot", "route"}
    BY DEF ClassesOf
  <2>2. 0 \in 0..SizeMax /\ 0 \in 0..MaximumQueueItems /\ <<>> \in Seq(Part)
    BY MessagesAssumption, DecoderAssumption
  <2>3. QED
    BY <2>1, <2>2 DEF Init, DecTypes
<1>2. Scoped /\ Remembered /\ OverlapIsOwn
  BY DEF Init, Scoped, Remembered, OverlapIsOwn
<1>3. Enough
  BY FS_EmptySet DEF Init, Enough
<1>4. QED
  BY <1>1, <1>2, <1>3 DEF DecInv

\* A message begins.
LEMMA DecodeKeeps ==
  ASSUME DecInv, NEW c \in ClassesOf[task], NEW bytes \in Bodies[c], Decode(c, bytes)
  PROVE  DecInv'
<1> PICK d \in Nat : d = MaximumDepthItems
  BY DecoderAssumption
<1>1. /\ task \in {"tick", "snapshot"} /\ task' = task /\ todo = <<>> /\ protect = FALSE
      /\ class' = c /\ size' = bytes /\ total' = 0 /\ parts' = {} /\ refused' = {}
  BY DEF Decode, Begin, Idle, DecInv, DecTypes
<1>2. /\ task = "tick" => c \in TickClasses
      /\ task = "snapshot" => c \in SnapshotClasses
      /\ c \in TickClasses \cup SnapshotClasses
  BY <1>1 DEF ClassesOf
<1>3. bytes \in 0..SizeMax
  BY <1>2, DecoderAssumption
<1>4. capacity \in Nat /\ IsFiniteSet(ranges) /\ Cardinality(ranges) <= capacity
      /\ \A p, q \in ranges : p # q => ~Overlap(p, q)
  BY DEF DecInv, DecTypes, Enough, Remembered
<1>5. total' \in 0..MaximumQueueItems
  BY <1>1, DecoderAssumption
<1>6. CASE todo' = <<>> /\ error' # "RangeOverlap" /\ protect' \in BOOLEAN /\ capacity' \in Nat
           /\ (ranges' = {} \/ (ranges' = ranges /\ capacity' = capacity))
  <2>1. DecTypes'
    BY <1>1, <1>3, <1>5, <1>6 DEF DecTypes
  <2>2. Scoped' /\ OverlapIsOwn'
    BY <1>1, <1>6 DEF Scoped, OverlapIsOwn
  <2>3. Remembered'
    BY <1>1, <1>4, <1>6 DEF Remembered
  <2>4. CASE ranges' = {}
    <3>1. IsFiniteSet(ranges') /\ Cardinality(ranges') = 0
      BY <2>4, FS_EmptySet
    <3>2. Enough'
      BY <1>6, <3>1 DEF Enough
    <3>3. QED
      BY <2>1, <2>2, <2>3, <3>2 DEF DecInv
  <2>5. CASE ranges' = ranges /\ capacity' = capacity
    <3>1. Enough'
      BY <1>4, <1>6, <2>5 DEF Enough
    <3>2. QED
      BY <2>1, <2>2, <2>3, <3>1 DEF DecInv
  <2>6. QED
    BY <1>6, <2>4, <2>5
<1>7. CASE /\ ranges' = {} /\ protect' = TRUE /\ capacity' \in Nat
           /\ error' = "None" /\ todo' = Layout[c]
           /\ Room(IF c \in TickClasses THEN 0 ELSE 2) + 8 <= capacity'
  <2> PICK k \in {0, 2} : k = IF c \in TickClasses THEN 0 ELSE 2
    OBVIOUS
  <2>1. Message(Layout[c], k)
    BY <1>2, LayoutParts
  <2>2. Layout[c] \in Seq(Part)
    BY <2>1 DEF Message
  <2>3. RoomFor(Layout[c], {}, capacity')
    BY <1>7, <2>1, RoomAtFirst
  <2>4. DecTypes'
    BY <1>1, <1>3, <1>5, <1>7, <2>2 DEF DecTypes
  <2>5. \A i \in 1..Len(Layout[c]) : Layout[c][i].kind = "list" => c \in SnapshotClasses
    <3>1. CASE c \in SnapshotClasses
      BY <3>1
    <3>2. CASE c \in TickClasses
      <4>1. PICK a \in Nat : ListsAt(Layout[c], a, 0)
        BY <2>1, <3>2 DEF Message
      <4>2. QED
        BY <4>1 DEF ListsAt
    <3>3. QED
      BY <1>2, <3>1, <3>2
  <2>6. Scoped'
    BY <1>1, <1>2, <1>7, <2>5 DEF Scoped
  <2>7. Remembered' /\ OverlapIsOwn'
    BY <1>1, <1>7 DEF Remembered, OverlapIsOwn
  <2>8. Enough'
    BY <1>7, <2>3, FS_EmptySet DEF Enough
  <2>9. QED
    BY <2>4, <2>6, <2>7, <2>8 DEF DecInv
<1>8. CASE task = "snapshot" /\ MaximumDepthItems > (SizeMax - 8) \div 2
  <2>1. todo' = <<>> /\ error' = "ResourceExhausted" /\ UNCHANGED <<ranges, protect, capacity>>
    BY <1>8 DEF Decode, Return
  <2>2. QED
    BY <1>1, <1>4, <1>6, <2>1
<1>9. CASE ~(task = "snapshot" /\ MaximumDepthItems > (SizeMax - 8) \div 2)
  <2> PICK m \in Nat : m = (IF task = "tick" THEN 8 ELSE 2 * d + 8)
    OBVIOUS
  <2>1. /\ BeginScope(m)
        /\ IF protect' THEN Open(Layout, c, bytes) ELSE Return("ResourceExhausted")
    BY <1>9 DEF Decode
  <2>2. /\ ranges' = {} /\ protect' \in BOOLEAN /\ capacity' \in Nat
        /\ protect' = TRUE => m <= capacity'
    <3>1. CASE protect' = TRUE /\ capacity' = IF capacity < m THEN m ELSE capacity
      BY <1>4, <2>1, <3>1 DEF BeginScope
    <3>2. CASE protect' = FALSE /\ capacity' = capacity
      BY <1>4, <2>1, <3>2 DEF BeginScope
    <3>3. QED
      BY <2>1, <3>1, <3>2 DEF BeginScope
  <2>3. CASE protect' = FALSE
    <3>1. todo' = <<>> /\ error' = "ResourceExhausted"
      BY <2>1, <2>3 DEF Return
    <3>2. QED
      BY <1>6, <2>2, <3>1
  <2>4. CASE protect' = TRUE /\ bytes < FixedBytes[c]
    <3>1. todo' = <<>> /\ error' = "Truncated"
      BY <2>1, <2>4 DEF Open, Return
    <3>2. QED
      BY <1>6, <2>2, <3>1
  <2>5. CASE protect' = TRUE /\ ~(bytes < FixedBytes[c])
    <3>1. todo' = Layout[c] /\ error' = "None"
      BY <2>1, <2>5 DEF Open
    <3>2. Room(IF c \in TickClasses THEN 0 ELSE 2) + 8 <= m
      <4>1. CASE task = "tick"
        BY <1>2, <4>1 DEF Room
      <4>2. CASE task = "snapshot"
        <5>1. c \notin TickClasses
          BY <1>2, <4>2 DEF TickClasses, SnapshotClasses
        <5>2. m = d + d + 8 /\ Room(2) = d + d
          BY <4>2 DEF Room
        <5>3. QED
          BY <5>1, <5>2
      <4>3. QED
        BY <1>1, <4>1, <4>2
    <3>3. Room(IF c \in TickClasses THEN 0 ELSE 2) \in Nat
      BY DEF Room
    <3>4. QED
      BY <1>7, <2>2, <2>5, <3>1, <3>2, <3>3
  <2>6. QED
    BY <2>2, <2>3, <2>4, <2>5
<1>10. QED
  BY <1>8, <1>9

LEMMA RouteKeeps ==
  ASSUME DecInv, NEW c \in ClassesOf[task], NEW bytes \in Bodies[c],
         ExtractSnapshotRoute(c, bytes)
  PROVE  DecInv'
<1>1. /\ task = "route" /\ task' = task /\ todo = <<>> /\ protect = FALSE
      /\ class' = c /\ size' = bytes /\ total' = 0 /\ parts' = {} /\ refused' = {}
      /\ UNCHANGED <<ranges, protect, capacity>>
  BY DEF ExtractSnapshotRoute, Begin, Idle, DecInv, DecTypes
<1>2. c \in SnapshotClasses
  BY <1>1 DEF ClassesOf
<1>3. bytes \in 0..SizeMax
  BY <1>2, DecoderAssumption
<1>4. total' \in 0..MaximumQueueItems
  BY <1>1, DecoderAssumption
<1>5. todo' \in Seq(Part) /\ error' # "RangeOverlap"
  <2>1. CASE bytes < FixedBytes[c]
    BY <2>1 DEF ExtractSnapshotRoute, Open, Return
  <2>2. CASE ~(bytes < FixedBytes[c])
    BY <1>2, <2>2, RouteParts DEF ExtractSnapshotRoute, Open
  <2>3. QED
    BY <2>1, <2>2
<1>6. DecTypes'
  BY <1>1, <1>3, <1>4, <1>5 DEF DecInv, DecTypes
<1>7. Scoped' /\ OverlapIsOwn'
  BY <1>1, <1>2, <1>5 DEF Scoped, OverlapIsOwn
<1>8. Remembered'
  BY <1>1 DEF DecInv, Remembered
<1>9. Enough'
  BY <1>1 DEF DecInv, Enough
<1>10. QED
  BY <1>6, <1>7, <1>8, <1>9 DEF DecInv

\* The levels of a list are queues.
LEMMA LevelQueues ==
  ASSUME class \in SnapshotClasses, NEW begin \in Nat, NEW n \in Nat
  PROVE  /\ Levels(begin, n) \in Seq(Part) /\ Len(Levels(begin, n)) = n
         /\ \A i \in 1..n : Levels(begin, n)[i].kind # "list"
<1>1. QueueItem[class] \in Nat \ {0}
  BY DEF QueueItem, SnapshotClasses
<1> PICK item \in Nat \ {0} : item = QueueItem[class]
  BY <1>1
<1>2. \A i \in 1..n : begin + (i - 1) * 28 + 20 \in Nat
  OBVIOUS
<1>3. \A at \in Nat : Queue(at, item) \in Part /\ Queue(at, item).kind # "list"
  BY PartKinds DEF Queue
<1>4. Levels(begin, n) = [i \in 1..n |-> Queue(begin + (i - 1) * 28 + 20, item)]
  BY DEF Levels
<1> PICK s : s = [i \in 1..n |-> Queue(begin + (i - 1) * 28 + 20, item)]
  OBVIOUS
<1>5. s \in [1..n -> Part] /\ \A i \in 1..n : s[i].kind # "list"
  BY <1>2, <1>3
<1>6. s \in Seq(Part)
  BY <1>5, SeqDef
<1>7. DOMAIN s = 1..n
  BY <1>5
<1>8. Len(s) = n
  BY <1>6, <1>7, LenProperties
<1>9. QED
  BY <1>4, <1>5, <1>6, <1>8

\* What reading leaves alone.
Reading == todo # <<>> /\ UNCHANGED <<task, class, size, protect, capacity>>

\* The message is refused; the last range may have been remembered.
LEMMA RefusedKeeps ==
  ASSUME DecInv, Reading, todo' = <<>>, UNCHANGED <<total, parts>>,
         OverlapIsOwn', NEW x,
         \/ ranges' = ranges
         \/ ranges' = ranges \cup {x} /\ protect /\ \A r \in ranges : ~Overlap(r, x)
  PROVE  DecInv'
<1>1. DecTypes' /\ Scoped'
  BY DEF DecInv, DecTypes, Scoped, Reading
<1>2. CASE ranges' = ranges
  <2>1. Remembered' /\ Enough'
    BY <1>2 DEF DecInv, Remembered, Enough, Reading
  <2>2. QED
    BY <1>1, <2>1 DEF DecInv
<1>3. CASE ranges' = ranges \cup {x} /\ protect /\ \A r \in ranges : ~Overlap(r, x)
  <2>1. IsFiniteSet(ranges \cup {x}) /\ Cardinality(ranges \cup {x}) <= capacity
    BY <1>3, RoomForRest DEF DecInv, DecTypes, Enough, Reading
  <2>2. Enough'
    BY <1>3, <2>1 DEF Enough, Reading
  <2>3. \A p, q \in ranges' : p # q => ~Overlap(p, q)
    <3>1. \A r \in ranges : ~Overlap(x, r)
      BY <1>3 DEF Overlap
    <3>2. QED
      BY <1>3, <3>1 DEF DecInv, Remembered
  <2>4. Remembered'
    BY <1>3, <2>3 DEF DecInv, Remembered, Reading
  <2>5. QED
    BY <1>1, <2>2, <2>4 DEF DecInv
<1>4. QED
  BY <1>2, <1>3

LEMMA RestItems ==
  ASSUME NEW s \in Seq(Part), s # <<>>
  PROVE  /\ Tail(s) \in Seq(Part) /\ Len(Tail(s)) = Len(s) - 1 /\ Len(s) \in Nat
         /\ \A i \in 1..Len(Tail(s)) : Tail(s)[i] = s[i + 1]
BY HeadTailProperties, LenProperties

\* A part is passed over: it is empty or no part of the body.
LEMMA PassedKeeps ==
  ASSUME DecInv, Reading, todo' = Tail(todo), error' = "None",
         UNCHANGED <<ranges, total, parts, refused>>
  PROVE  DecInv'
<1>1. /\ Tail(todo) \in Seq(Part) /\ Len(Tail(todo)) = Len(todo) - 1 /\ Len(todo) \in Nat
      /\ \A i \in 1..Len(Tail(todo)) : Tail(todo)[i] = todo[i + 1]
  <2>1. todo \in Seq(Part) /\ todo # <<>>
    BY DEF DecInv, DecTypes, Reading
  <2>2. QED
    BY <2>1, RestItems, Zenon
<1>2. DecTypes' /\ OverlapIsOwn'
  BY <1>1 DEF DecInv, DecTypes, OverlapIsOwn, Reading
<1>3. Scoped'
  <2>1. \A i \in 1..Len(Tail(todo)) : Tail(todo)[i].kind = "list" => class \in SnapshotClasses
    BY <1>1 DEF DecInv, Scoped
  <2>2. QED
    BY <2>1 DEF DecInv, Scoped, Reading
<1>4. Remembered'
  BY DEF DecInv, Remembered, Reading
<1>5. Enough'
  <2>1. protect => RoomFor(Tail(todo), ranges, capacity)
    BY RoomForRest DEF DecInv, DecTypes, Enough, Reading
  <2>2. QED
    BY <2>1 DEF DecInv, Enough, Reading
<1>6. QED
  BY <1>2, <1>3, <1>4, <1>5 DEF DecInv

\* A part of the body is handed out.
LEMMA HandedOutKeeps ==
  ASSUME DecInv, Reading, NEW x, NEW more \in Seq(Part),
         FixedBytes[class] <= x.begin, x.begin < x.end, x.end <= size,
         protect => \A r \in ranges : ~Overlap(r, x),
         \A i \in 1..Len(more) : more[i].kind # "list",
         more = <<>> \/ (Head(todo).kind = "list" /\ Len(more) <= MaximumDepthItems),
         ranges' = IF protect THEN ranges \cup {x} ELSE ranges,
         parts' = parts \cup {x}, error' = "None",
         todo' = Tail(todo) \o more, total' \in 0..MaximumQueueItems
  PROVE  DecInv'
<1>1. /\ Tail(todo) \in Seq(Part) /\ Len(Tail(todo)) = Len(todo) - 1 /\ Len(todo) \in Nat
      /\ \A i \in 1..Len(Tail(todo)) : Tail(todo)[i] = todo[i + 1]
  <2>1. todo \in Seq(Part) /\ todo # <<>>
    BY DEF DecInv, DecTypes, Reading
  <2>2. QED
    BY <2>1, RestItems, Zenon
<1> PICK u \in Seq(Part) : u = Tail(todo)
  BY <1>1
<1>2. /\ u \o more \in Seq(Part) /\ Len(u \o more) = Len(u) + Len(more)
      /\ \A i \in 1..(Len(u) + Len(more)) :
           (u \o more)[i] = IF i <= Len(u) THEN u[i] ELSE more[i - Len(u)]
  BY JoinedItems
<1>3. DecTypes' /\ OverlapIsOwn'
  BY <1>2 DEF DecInv, DecTypes, OverlapIsOwn, Reading
<1>4. Scoped'
  <2>1. ASSUME NEW i \in 1..Len(u \o more), (u \o more)[i].kind = "list"
        PROVE  class \in SnapshotClasses
    <3>1. i <= Len(u) /\ (u \o more)[i] = todo[i + 1] /\ i + 1 \in 1..Len(todo)
      <4> PICK n \in Nat, m \in Nat : n = Len(u) /\ m = Len(more)
        BY LenProperties, Zenon
      <4>1. CASE i <= n
        BY <1>1, <1>2, <4>1
      <4>2. CASE ~(i <= n)
        BY <1>2, <2>1, <4>2
      <4>3. QED
        BY <4>1, <4>2
    <3>2. QED
      BY <2>1, <3>1 DEF DecInv, Scoped
  <2>2. QED
    BY <2>1 DEF DecInv, Scoped, Reading
<1>5. CASE protect
  <2>1. parts = ranges /\ parts' = ranges' /\ ranges' = ranges \cup {x} /\ protect'
    BY <1>5 DEF DecInv, Remembered, Reading
  <2>2. \A p, q \in ranges' : p # q => ~Overlap(p, q)
    <3>1. \A r \in ranges : ~Overlap(r, x) /\ ~Overlap(x, r)
      BY <1>5 DEF Overlap
    <3>2. QED
      BY <2>1, <3>1 DEF DecInv, Remembered
  <2>3. \A p \in parts' : FixedBytes[class] <= p.begin /\ p.begin < p.end /\ p.end <= size
    BY DEF DecInv, Remembered
  <2>4. Remembered'
    BY <2>1, <2>2, <2>3 DEF Remembered, Reading
  <2>5. /\ IsFiniteSet(ranges') /\ Cardinality(ranges') <= capacity
        /\ Head(todo).kind # "list" => RoomFor(u, ranges', capacity)
        /\ Head(todo).kind = "list" =>
             \A t \in Seq(Part) :
               Len(t) <= MaximumDepthItems /\ (\A i \in 1..Len(t) : t[i].kind # "list")
                 => RoomFor(u \o t, ranges', capacity)
    <3>1. /\ todo \in Seq(Part) /\ todo # <<>> /\ IsFiniteSet(ranges) /\ capacity \in Nat
          /\ RoomFor(todo, ranges, capacity)
      BY <1>5 DEF DecInv, DecTypes, Enough, Reading
    <3>2. /\ IsFiniteSet(ranges \cup {x}) /\ Cardinality(ranges \cup {x}) <= capacity
          /\ Head(todo).kind # "list" => RoomFor(Tail(todo), ranges \cup {x}, capacity)
          /\ Head(todo).kind = "list" =>
               \A t \in Seq(Part) :
                 Len(t) <= MaximumDepthItems /\ (\A i \in 1..Len(t) : t[i].kind # "list")
                   => RoomFor(Tail(todo) \o t, ranges \cup {x}, capacity)
      BY <3>1, RoomForRest, Zenon
    <3>3. QED
      BY <2>1, <3>2, Zenon
  <2>6. RoomFor(u \o more, ranges', capacity)
    <3>1. CASE Head(todo).kind = "list"
      <4>1. Len(more) <= MaximumDepthItems
        BY DecoderAssumption
      <4>2. QED
        BY <2>5, <3>1, <4>1
    <3>2. CASE Head(todo).kind # "list"
      <4>1. u \o more = u
        BY <3>2, ConcatEmptySeq, Zenon
      <4>2. QED
        BY <2>5, <3>2, <4>1
    <3>3. QED
      BY <3>1, <3>2
  <2>7. Enough'
    BY <2>5, <2>6 DEF Enough, Reading
  <2>8. QED
    BY <1>3, <1>4, <2>4, <2>7 DEF DecInv
<1>6. CASE ~protect
  <2>1. task = "route" /\ ranges' = ranges /\ ~protect'
    BY <1>6 DEF DecInv, DecTypes, Scoped, Reading
  <2>2. \A p \in parts' : FixedBytes[class] <= p.begin /\ p.begin < p.end /\ p.end <= size
    BY DEF DecInv, Remembered
  <2>3. Remembered'
    BY <2>1, <2>2 DEF DecInv, Remembered, Reading
  <2>4. Enough'
    BY <2>1 DEF DecInv, Enough, Reading
  <2>5. QED
    BY <1>3, <1>4, <2>3, <2>4 DEF DecInv
<1>7. QED
  BY <1>5, <1>6

LEMMA ReadPartKeeps ==
  ASSUME DecInv, todo # <<>>, Head(todo).kind # "fields", NEW n \in Nat, NEW begin \in Int,
         NEW printable \in BOOLEAN, NEW orders \in Nat,
         ReadPart(Head(todo), n, begin, printable, orders)
  PROVE  DecInv'
<1> PICK part : part = Head(todo)
  OBVIOUS
<1>1. part \in DynamicPart
  <2>1. part \in Part
    BY HeadTailProperties, Zenon DEF DecInv, DecTypes
  <2>2. QED
    BY <2>1 DEF Part, FieldsPart
<1>2. Reading
  BY DEF ReadPart, Reading
<1>3. class \in TickClasses \cup SnapshotClasses /\ size \in 0..SizeMax /\ total \in 0..MaximumQueueItems
  BY DEF DecInv, DecTypes, Scoped
<1> PICK relative \in 0..SizeMax : relative = Wrap(begin - part.at)
  <2>1. begin - part.at \in Int
    BY <1>1 DEF DynamicPart
  <2>2. QED
    BY <2>1, WrapIs
<1> PICK located : located = Locate(part, n, relative, printable)
  OBVIOUS
<1> PICK range : range = RangeOf(part, n, relative)
  OBVIOUS
<1>4. \/ /\ located # "None" /\ Return(located)
         /\ UNCHANGED <<ranges, total, parts, refused>>
      \/ /\ located = "None" /\ n = 0
         /\ error' = "None" /\ todo' = Tail(todo)
         /\ UNCHANGED <<ranges, total, parts, refused>>
      \/ /\ located = "None" /\ n > 0
         /\ IF protect /\ \E r \in ranges : Overlap(r, range)
              THEN /\ Return("RangeOverlap") /\ refused' = {range}
                   /\ UNCHANGED <<ranges, total, parts>>
              ELSE IF part.kind = "queue" THEN AcceptQueue(part, n, range, orders)
              ELSE Accept(part, n, range)
  BY DEF ReadPart
<1>5. CASE /\ located # "None" /\ Return(located)
           /\ UNCHANGED <<ranges, total, parts, refused>>
  <2>1. error' # "RangeOverlap" /\ todo' = <<>>
    BY <1>5, LocateErrors DEF Return
  <2>2. OverlapIsOwn'
    BY <2>1 DEF OverlapIsOwn
  <2>3. QED
    BY <1>2, <1>5, <2>1, <2>2, RefusedKeeps
<1>6. CASE /\ located = "None" /\ n = 0 /\ error' = "None" /\ todo' = Tail(todo)
           /\ UNCHANGED <<ranges, total, parts, refused>>
  BY <1>2, <1>6, PassedKeeps
<1>7. CASE /\ located = "None" /\ n > 0 /\ protect /\ \E r \in ranges : Overlap(r, range)
           /\ Return("RangeOverlap") /\ refused' = {range} /\ UNCHANGED <<ranges, total, parts>>
  <2>1. ranges = parts
    BY <1>7 DEF DecInv, Remembered
  <2>2. OverlapIsOwn' /\ todo' = <<>>
    BY <1>7, <2>1 DEF OverlapIsOwn, Return
  <2>3. QED
    BY <1>2, <1>7, <2>2, RefusedKeeps
<1>8. CASE /\ located = "None" /\ n > 0 /\ ~(protect /\ \E r \in ranges : Overlap(r, range))
           /\ IF part.kind = "queue" THEN AcceptQueue(part, n, range, orders)
              ELSE Accept(part, n, range)
  <2>1. n \in Nat \ {0}
    BY <1>8
  <2>2. /\ ~(n > Limit(part)) /\ range.begin \in Nat
        /\ FixedBytes[class] <= range.begin /\ range.begin < range.end /\ range.end <= size
    BY <1>1, <1>3, <1>8, <2>1, LocatedInBody
  <2>3. protect => \A r \in ranges : ~Overlap(r, range)
    BY <1>8
  <2>4. /\ <<>> \in Seq(Part) /\ \A i \in 1..Len(<<>>) : <<>>[i].kind # "list"
        /\ Tail(todo) \o <<>> = Tail(todo)
    <3>1. Tail(todo) \in Seq(Part)
      BY RestItems DEF DecInv, DecTypes
    <3>2. Tail(todo) \o <<>> = Tail(todo)
      BY <3>1, ConcatEmptySeq, Zenon
    <3>3. QED
      BY <3>2
  <2>5. CASE part.kind = "queue"
    <3>1. AcceptQueue(part, n, range, orders)
      BY <1>8, <2>5
    <3>2. CASE n > orders \/ n > MaximumQueueItems - total
      <4>1. /\ todo' = <<>> /\ UNCHANGED <<total, parts>> /\ error' # "RangeOverlap"
            /\ ranges' = IF protect THEN ranges \cup {range} ELSE ranges
        BY <3>1, <3>2 DEF AcceptQueue, Return
      <4>2. OverlapIsOwn'
        BY <4>1 DEF OverlapIsOwn
      <4>3. QED
        BY <1>2, <2>3, <4>1, <4>2, RefusedKeeps
    <3>3. CASE ~(n > orders) /\ ~(n > MaximumQueueItems - total)
      <4>1. /\ ranges' = IF protect THEN ranges \cup {range} ELSE ranges
            /\ total' = total + n /\ parts' = parts \cup {range}
            /\ error' = "None" /\ todo' = Tail(todo)
        BY <3>1, <3>3 DEF AcceptQueue
      <4>2. total' \in 0..MaximumQueueItems
        BY <1>3, <3>3, <4>1, DecoderAssumption
      <4>3. todo' = Tail(todo) \o <<>>
        BY <2>4, <4>1
      <4>4. QED
        BY <1>2, <2>2, <2>3, <2>4, <4>1, <4>2, <4>3, HandedOutKeeps
    <3>4. QED
      BY <3>2, <3>3
  <2>6. CASE part.kind # "queue"
    <3>1. Accept(part, n, range)
      BY <1>8, <2>6
    <3>2. /\ ranges' = IF protect THEN ranges \cup {range} ELSE ranges
          /\ total' \in 0..MaximumQueueItems /\ parts' = parts \cup {range} /\ error' = "None"
          /\ todo' = Tail(todo) \o (IF part.kind = "list" THEN Levels(range.begin, n) ELSE <<>>)
      BY <1>3, <3>1 DEF Accept
    <3>3. CASE part.kind = "list"
      <4>1. class \in SnapshotClasses
        <5>1. 1 \in 1..Len(todo) /\ Head(todo) = todo[1]
          BY DEF DecInv, DecTypes
        <5>2. QED
          BY <3>3, <5>1 DEF DecInv, Scoped
      <4> PICK more : more = Levels(range.begin, n)
        OBVIOUS
      <4>2. /\ more \in Seq(Part) /\ Len(more) = n
            /\ \A i \in 1..Len(more) : more[i].kind # "list"
        <5>1. /\ more \in Seq(Part) /\ Len(more) = n
              /\ \A i \in 1..n : more[i].kind # "list"
          BY <2>2, <4>1, LevelQueues, Zenon
        <5>2. QED
          BY <5>1, Zenon
      <4>3. Len(more) <= MaximumDepthItems
        BY <2>2, <3>3, <4>2, DecoderAssumption DEF Limit
      <4>4. todo' = Tail(todo) \o more
        BY <3>2, <3>3
      <4>5. QED
        BY <1>2, <2>2, <2>3, <3>2, <3>3, <4>2, <4>3, <4>4, HandedOutKeeps
    <3>4. CASE part.kind # "list"
      <4>1. todo' = Tail(todo) \o <<>>
        BY <3>2, <3>4
      <4>2. QED
        BY <1>2, <2>2, <2>3, <2>4, <3>2, <4>1, HandedOutKeeps
    <3>5. QED
      BY <3>3, <3>4
  <2>7. QED
    BY <2>5, <2>6
<1>9. QED
  BY <1>4, <1>5, <1>6, <1>7, <1>8

LEMMA ReadFieldsKeeps == DecInv /\ ReadFields => DecInv'
<1> SUFFICES ASSUME DecInv, ReadFields PROVE DecInv'
  OBVIOUS
<1>1. Reading /\ UNCHANGED <<ranges, total, parts, refused>>
  BY DEF ReadFields, Reading
<1>2. CASE error' = "None" /\ todo' = Tail(todo)
  BY <1>1, <1>2, PassedKeeps
<1>3. CASE \E e \in Head(todo).errors : Return(e)
  <2>1. Head(todo) \in Part /\ Head(todo).kind = "fields"
    <3>1. todo \in Seq(Part) /\ todo # <<>> /\ Head(todo).kind = "fields"
      BY DEF DecInv, DecTypes, ReadFields
    <3>2. QED
      BY <3>1, HeadTailProperties, Zenon
  <2>2. Head(todo).errors \subseteq {"InvalidNativeSequence", "FixedPointOverflow"}
    BY <2>1 DEF Part, DynamicPart, FieldsPart
  <2>3. todo' = <<>> /\ error' # "RangeOverlap"
    BY <1>3, <2>2 DEF Return
  <2>4. OverlapIsOwn'
    BY <2>3 DEF OverlapIsOwn
  <2>5. QED
    BY <1>1, <2>3, <2>4, RefusedKeeps
<1>4. QED
  BY <1>2, <1>3 DEF ReadFields

LEMMA EndScopeKeeps == DecInv /\ EndScope => DecInv'
<1> SUFFICES ASSUME DecInv, EndScope PROVE DecInv'
  OBVIOUS
<1>1. DecTypes' /\ Scoped'
  BY DEF DecInv, DecTypes, Scoped, EndScope
<1>2. Remembered' /\ Enough' /\ OverlapIsOwn'
  BY DEF DecInv, Remembered, Enough, OverlapIsOwn, EndScope
<1>3. QED
  BY <1>1, <1>2 DEF DecInv

LEMMA DecInvNext == DecInv /\ [Next]_vars => DecInv'
<1> SUFFICES ASSUME DecInv, [Next]_vars PROVE DecInv'
  OBVIOUS
<1>1. ASSUME NEW c \in ClassesOf[task], NEW bytes \in Bodies[c],
             Decode(c, bytes) \/ ExtractSnapshotRoute(c, bytes)
      PROVE  DecInv'
  BY <1>1, DecodeKeeps, RouteKeeps
<1>2. ASSUME todo # <<>>, Head(todo).kind # "fields",
             NEW n \in (IF Head(todo).kind = "text" THEN Lengths ELSE Counts),
             NEW begin \in Starts[class][Head(todo).kind], NEW printable \in BOOLEAN,
             NEW orders \in OrderCounts,
             ReadPart(Head(todo), n, begin, printable, orders)
      PROVE  DecInv'
  <2>1. n \in Nat /\ orders \in Nat
    BY <1>2, DecoderAssumption
  <2>2. Head(todo) \in Part
    BY <1>2, HeadTailProperties, Zenon DEF DecInv, DecTypes
  <2>3. Head(todo).kind \in {"text", "list", "queue"}
    BY <1>2, <2>2 DEF Part, DynamicPart, FieldsPart
  <2>4. class \in TickClasses \cup SnapshotClasses
    BY <1>2 DEF DecInv, Scoped
  <2>5. begin \in Int
    BY <2>3, <2>4, DecoderAssumption
  <2>6. QED
    BY <1>2, <2>1, <2>5, ReadPartKeeps
<1>3. CASE ReadFields
  BY <1>3, ReadFieldsKeeps
<1>4. CASE EndScope
  BY <1>4, EndScopeKeeps
<1>5. CASE UNCHANGED vars
  <2>1. DecTypes' /\ Scoped'
    BY <1>5 DEF DecInv, DecTypes, Scoped, vars
  <2>2. Remembered' /\ Enough' /\ OverlapIsOwn'
    BY <1>5 DEF DecInv, Remembered, Enough, OverlapIsOwn, vars
  <2>3. QED
    BY <2>1, <2>2 DEF DecInv
<1>6. QED
  BY <1>1, <1>2, <1>3, <1>4, <1>5 DEF Next

\* Whatever the descriptors of its messages say, a thread hands out only parts that
\* lie in the body and apart from each other, stays within the room its scope
\* reserved and within the limit of queue items, for every width of size_t.
THEOREM RangesSoundHolds == Spec => []RangesSound
<1>1. DecInv => RangesSound
  <2> SUFFICES ASSUME DecInv PROVE RangesSound
    OBVIOUS
  <2>1. task # "route" => \A p, q \in parts : p # q => ~Overlap(p, q)
    BY DEF DecInv, Remembered
  <2>2. total <= MaximumQueueItems
    BY DecoderAssumption DEF DecInv, DecTypes
  <2>3. QED
    BY <2>1, <2>2 DEF DecInv, Remembered, Enough, RangesSound
<1>2. QED
  BY DecInvInit, DecInvNext, <1>1, PTL DEF Spec

\* A message is refused for overlapping parts only for two parts of its own: what
\* the thread remembers of the message before is never compared.
THEOREM OverlapIsOwnHolds == Spec => []OverlapIsOwn
<1>1. DecInv => OverlapIsOwn
  BY DEF DecInv
<1>2. QED
  BY DecInvInit, DecInvNext, <1>1, PTL DEF Spec

-----------------------------------------------------------------------------
(***************************************************************************)
(* Where a tick belongs (CanonicalFields).                                 *)
(***************************************************************************)
\* A message whose fields are decoded has a position, and a position a route.
LEMMA PositionAgreesHolds ==
  ASSUME NEW r \in RawTick
  PROVE  PositionAgrees(r)
<1> DEFINE route == ExtractAdmissionRoute(r)
           position == ExtractTickNativeDescriptor(r)
<1>1. DecodeTick(r).error = "None" => r.whole /\ ~NativeError(r)
  <2>1. CASE ~r.whole
    <3>1. DecodeTick(r) = [error |-> "Truncated"]
      BY <2>1 DEF DecodeTick
    <3>2. QED
      BY <3>1
  <2>2. CASE r.whole /\ NativeError(r)
    <3>1. DecodeTick(r) = [error |-> "InvalidNativeSequence"]
      BY <2>2 DEF DecodeTick
    <3>2. QED
      BY <3>1
  <2>3. QED
    BY <2>1, <2>2
<1>2. ASSUME r.whole, ~NativeError(r)
      PROVE  /\ position = {<<Market(r.class), r.channel, r.sequence>>}
             /\ route = {<<Market(r.class), r.channel>>}
  BY <1>2 DEF ExtractTickNativeDescriptor, ExtractAdmissionRoute, NativeError
<1>3. position # {} => r.whole /\ ~NativeError(r)
  BY DEF ExtractTickNativeDescriptor
<1>4. route # {} /\ position = {} => r.sequence <= 0
  BY DEF ExtractTickNativeDescriptor, ExtractAdmissionRoute, NativeError, RawTick
<1>5. position # {} => route = {<<p[1], p[2]>> : p \in position}
  BY <1>2, <1>3
<1>6. DecodeTick(r).error = "None" => position # {} /\ route # {}
  BY <1>1, <1>2
<1>7. QED
  BY <1>4, <1>5, <1>6 DEF PositionAgrees

-----------------------------------------------------------------------------
(***************************************************************************)
(* Numbers, times and scalars.                                             *)
(***************************************************************************)
\* A value that passes the test of NormalizeP6 has its product in 64 bits.
LEMMA P6Exact ==
  ASSUME NEW raw \in Int, NEW scale \in {3, 4, 5, 6}, ~P6Overflows(raw, scale)
  PROVE  Exactly(raw * Multiplier(scale), raw, scale)
<1>1. PICK m \in Nat : m = Max64
  BY FieldsAssumption
<1>2. raw * Multiplier(scale) = raw * 10 ^ (6 - scale)
  BY DEF Multiplier
<1>3. CASE scale = 3
  <2>1. Multiplier(scale) = 1000
    BY <1>3 DEF Multiplier
  <2>2. (raw > 0 => raw <= m \div 1000) /\ (raw < 0 => raw >= -((m + 1) \div 1000))
    BY <1>1, <2>1 DEF P6Overflows
  <2>3. raw * 1000 \in -(m + 1)..m
    BY <2>2
  <2>4. QED
    BY <1>1, <1>2, <2>1, <2>3 DEF Exactly
<1>4. CASE scale = 4
  <2>1. Multiplier(scale) = 100
    BY <1>4 DEF Multiplier
  <2>2. (raw > 0 => raw <= m \div 100) /\ (raw < 0 => raw >= -((m + 1) \div 100))
    BY <1>1, <2>1 DEF P6Overflows
  <2>3. raw * 100 \in -(m + 1)..m
    BY <2>2
  <2>4. QED
    BY <1>1, <1>2, <2>1, <2>3 DEF Exactly
<1>5. CASE scale = 5
  <2>1. Multiplier(scale) = 10
    BY <1>5 DEF Multiplier
  <2>2. (raw > 0 => raw <= m \div 10) /\ (raw < 0 => raw >= -((m + 1) \div 10))
    BY <1>1, <2>1 DEF P6Overflows
  <2>3. raw * 10 \in -(m + 1)..m
    BY <2>2
  <2>4. QED
    BY <1>1, <1>2, <2>1, <2>3 DEF Exactly
<1>6. CASE scale = 6
  <2>1. Multiplier(scale) = 1
    BY <1>6 DEF Multiplier
  <2>2. (raw > 0 => raw <= m \div 1) /\ (raw < 0 => raw >= -((m + 1) \div 1))
    BY <1>1, <2>1 DEF P6Overflows
  <2>3. raw * 1 \in -(m + 1)..m
    BY <2>2
  <2>4. QED
    BY <1>1, <1>2, <2>1, <2>3 DEF Exactly
<1>7. QED
  BY <1>3, <1>4, <1>5, <1>6

\* A decimal that is only loaded.
LEMMA DecimalIs ==
  ASSUME NEW raw \in Int, NEW null, NEW scale
  PROVE  /\ Decimal(raw, null, scale).raw_valid <=> raw \notin null
         /\ ~Decimal(raw, null, scale).p6_valid
         /\ ~Decimal(raw, null, scale).overflow
BY DEF Decimal

\* NormalizeP6 gives the exact value, or says that it overflows or was missing.
LEMMA NormalizeIs ==
  ASSUME NEW raw \in Int, NEW null, NEW scale \in {3, 4, 5, 6}
  PROVE  /\ NormalizeP6(raw, null, scale).raw_valid <=> raw \notin null
         /\ NormalizeP6(raw, null, scale).p6_valid =>
              raw \notin null /\ Exactly(NormalizeP6(raw, null, scale).p6, raw, scale)
         /\ raw \notin null /\ ~NormalizeP6(raw, null, scale).overflow =>
              NormalizeP6(raw, null, scale).p6_valid
<1>1. CASE raw \in null
  BY <1>1 DEF NormalizeP6, Decimal
<1>2. CASE raw \notin null /\ P6Overflows(raw, scale)
  <2>1. NormalizeP6(raw, null, scale) =
          [raw_valid |-> TRUE, p6_valid |-> FALSE, overflow |-> TRUE, p6 |-> 0]
    BY <1>2 DEF NormalizeP6, Decimal
  <2>2. QED
    BY <1>2, <2>1
<1>3. CASE raw \notin null /\ ~P6Overflows(raw, scale)
  <2>1. NormalizeP6(raw, null, scale) =
          [raw_valid |-> TRUE, p6_valid |-> TRUE, overflow |-> FALSE,
           p6 |-> raw * Multiplier(scale)]
    BY <1>3 DEF NormalizeP6, Decimal
  <2>2. QED
    BY <1>3, <2>1, P6Exact
<1>4. QED
  BY <1>1, <1>2, <1>3

\* A price is exact and positive, or not valid.
LEMMA PriceIs ==
  ASSUME NEW raw \in Int, NEW null, NEW scale \in {3, 4, 5, 6}
  PROVE  /\ DecodePrice(raw, null, scale).raw_valid <=> raw \notin null
         /\ DecodePrice(raw, null, scale).p6_valid =>
              /\ raw \notin null /\ raw > 0
              /\ Exactly(DecodePrice(raw, null, scale).p6, raw, scale)
         /\ raw \notin null /\ raw > 0 /\ ~DecodePrice(raw, null, scale).overflow =>
              DecodePrice(raw, null, scale).p6_valid
<1>1. CASE raw > 0
  <2>1. DecodePrice(raw, null, scale) = NormalizeP6(raw, null, scale)
    BY <1>1 DEF DecodePrice
  <2>2. QED
    BY <1>1, <2>1, NormalizeIs
<1>2. CASE ~(raw > 0)
  <2>1. DecodePrice(raw, null, scale) = Decimal(raw, null, scale)
    BY <1>2 DEF DecodePrice
  <2>2. QED
    BY <1>2, <2>1, DecimalIs
<1>3. QED
  BY <1>1, <1>2

\* An amount is exact and not negative, or not valid.
LEMMA AmountIs ==
  ASSUME NEW raw \in Int, NEW null, NEW scale \in {3, 4, 5, 6}
  PROVE  /\ DecodeAmount(raw, null, scale).raw_valid <=> raw \notin null
         /\ DecodeAmount(raw, null, scale).p6_valid =>
              /\ raw \notin null /\ raw >= 0
              /\ Exactly(DecodeAmount(raw, null, scale).p6, raw, scale)
         /\ raw \notin null /\ raw >= 0 /\ ~DecodeAmount(raw, null, scale).overflow =>
              DecodeAmount(raw, null, scale).p6_valid
<1>1. CASE raw >= 0
  <2>1. DecodeAmount(raw, null, scale) = NormalizeP6(raw, null, scale)
    BY <1>1 DEF DecodeAmount
  <2>2. QED
    BY <1>1, <2>1, NormalizeIs
<1>2. CASE ~(raw >= 0)
  <2>1. DecodeAmount(raw, null, scale) = Decimal(raw, null, scale)
    BY <1>2 DEF DecodeAmount
  <2>2. QED
    BY <1>2, <2>1, DecimalIs
<1>3. QED
  BY <1>1, <1>2

\* A time that is not read is flagged.
LEMMA TimeFlagged ==
  ASSUME NEW raw, DecodeTime(raw) = -1
  PROVE  "InvalidTime" \in TimeQuality(raw)
BY DEF TimeQuality

\* A valid scalar is exact, and one that is not is flagged or an error.
LEMMA ScalarHolds ==
  ASSUME NEW f \in ShanghaiScalars \cup ShenzhenScalars, NEW raw \in Int
  PROVE  ScalarGuessesNothing(f, raw)
<1> DEFINE d == DecodeScalar(f, raw)
<1>1. CASE f.kind = "quantity"
  <2>1. d.valid <=> (raw \notin f.null /\ raw >= 0)
    BY <1>1 DEF DecodeScalar
  <2>2. d.quality = Where([NullSourceValue |-> raw \in f.null,
                           InvalidPrice |-> f.kind = "price" /\ raw \notin f.null /\ raw <= 0,
                           InvalidQuantity |-> f.kind = "quantity" /\ raw \notin f.null /\ raw < 0])
    BY DEF DecodeScalar
  <2>3. raw \in f.null => "NullSourceValue" \in d.quality
    BY <2>2 DEF Where
  <2>4. raw \notin f.null /\ raw < 0 => "InvalidQuantity" \in d.quality
    BY <1>1, <2>2 DEF Where
  <2>5. QED
    BY <1>1, <2>1, <2>3, <2>4 DEF ScalarGuessesNothing
<1>2. CASE f.kind = "price"
  <2>0. f.scale \in {3, 4, 5, 6}
    BY <1>2 DEF ShanghaiScalars, ShenzhenScalars, Scalar
  <2>1. /\ d.valid <=> DecodePrice(raw, f.null, f.scale).p6_valid
        /\ d.value = DecodePrice(raw, f.null, f.scale).p6
        /\ d.error = IF DecodePrice(raw, f.null, f.scale).overflow
                       THEN "FixedPointOverflow" ELSE "None"
    BY <1>2 DEF DecodeScalar
  <2>2. d.quality = Where([NullSourceValue |-> raw \in f.null,
                           InvalidPrice |-> f.kind = "price" /\ raw \notin f.null /\ raw <= 0,
                           InvalidQuantity |-> f.kind = "quantity" /\ raw \notin f.null /\ raw < 0])
    BY DEF DecodeScalar
  <2>3. raw \in f.null => "NullSourceValue" \in d.quality
    BY <2>2 DEF Where
  <2>4. raw \notin f.null /\ raw <= 0 => "InvalidPrice" \in d.quality
    BY <1>2, <2>2 DEF Where
  <2>5. QED
    BY <1>2, <2>0, <2>1, <2>3, <2>4, PriceIs DEF ScalarGuessesNothing
<1>3. CASE f.kind = "decimal"
  <2>0. f.scale \in {3, 4, 5, 6}
    BY <1>3 DEF ShanghaiScalars, ShenzhenScalars, Scalar
  <2>1. /\ d.valid <=> NormalizeP6(raw, f.null, f.scale).p6_valid
        /\ d.value = NormalizeP6(raw, f.null, f.scale).p6
        /\ d.error = IF NormalizeP6(raw, f.null, f.scale).overflow
                       THEN "FixedPointOverflow" ELSE "None"
    BY <1>3 DEF DecodeScalar
  <2>2. d.quality = Where([NullSourceValue |-> raw \in f.null,
                           InvalidPrice |-> f.kind = "price" /\ raw \notin f.null /\ raw <= 0,
                           InvalidQuantity |-> f.kind = "quantity" /\ raw \notin f.null /\ raw < 0])
    BY DEF DecodeScalar
  <2>3. raw \in f.null => "NullSourceValue" \in d.quality
    BY <2>2 DEF Where
  <2>5. QED
    BY <1>3, <2>0, <2>1, <2>3, NormalizeIs DEF ScalarGuessesNothing
<1>4. QED
  BY <1>1, <1>2, <1>3 DEF ShanghaiScalars, ShenzhenScalars, Scalar

-----------------------------------------------------------------------------
(***************************************************************************)
(* A Shanghai tick.                                                        *)
(***************************************************************************)
\* The parts of a decoded Shanghai tick.
ShPrice(r) ==
  IF r.type \in {"A", "T"} THEN DecodePrice(r.price, {kNullI32}, 3)
  ELSE Decimal(r.price, {kNullI32}, 3)
ShAmount(r) ==
  IF r.type = "T" THEN DecodeAmount(r.amount, {kNullI64}, 3)
  ELSE Decimal(r.amount, {kNullI64}, 3)
ShSideOf(r) == IF r.type \in {"A", "D"} THEN ShSide[r.flag] ELSE "Unknown"
ShAggressorOf(r) == IF r.type = "T" THEN ShAggressor[r.flag] ELSE "Unknown"
ShMatched(r) == r.type = "A" /\ ShAmount(r).raw_valid /\ r.amount >= 0 /\ r.amount % 1000 = 0

\* What a Shanghai tick says.
LEMMA ShanghaiSays ==
  ASSUME NEW r, NEW t, t = DecodeShanghaiTick(r)
  PROVE  /\ t.error = "None" <=> ~ShPrice(r).overflow /\ ~ShAmount(r).overflow
         /\ t.action = (CASE r.type = "A" -> "Add" [] r.type = "D" -> "Cancel"
                          [] r.type = "T" -> "Trade" [] r.type = "S" -> "Status"
                          [] OTHER -> "Unknown")
         /\ t.side = ShSideOf(r)
         /\ t.primary = (CASE ShSideOf(r) = "Buy" -> r.buy [] ShSideOf(r) = "Sell" -> r.sell
                           [] OTHER -> 0)
         /\ t.price = ShPrice(r).p6 /\ t.amount = ShAmount(r).p6
         /\ t.matched = IF ShMatched(r) THEN r.amount \div 1000 ELSE 0
BY DEF DecodeShanghaiTick, ShPrice, ShAmount, ShSideOf, ShAggressorOf, ShMatched

LEMMA ShanghaiValid ==
  ASSUME NEW r, NEW t, t = DecodeShanghaiTick(r)
  PROVE  /\ "ExchangeTime" \in t.validity <=> DecodeTime(r.time) # -1
         /\ "Price" \in t.validity <=> ShPrice(r).p6_valid
         /\ "Quantity" \in t.validity <=>
              (r.type = "A" \/ r.type = "D" \/ r.type = "T") /\ r.quantity >= 0
         /\ "Amount" \in t.validity <=> ShAmount(r).p6_valid
         /\ "Side" \in t.validity <=> ShSideOf(r) # "Unknown"
         /\ "PrimaryOrderId" \in t.validity <=> ShSideOf(r) # "Unknown" /\ t.primary > 0
         /\ "Aggressor" \in t.validity <=> ShAggressorOf(r) # "Unknown"
         /\ "Phase" \in t.validity <=> r.type = "S" /\ r.flag \in Phases
         /\ "MatchedQuantity" \in t.validity <=> ShMatched(r)
         /\ t.validity \subseteq {"ExchangeTime", "Price", "Quantity", "Amount", "Side",
              "PrimaryOrderId", "BuyOrderId", "SellOrderId", "Aggressor", "Phase", "MatchedQuantity"}
         /\ "BuyOrderId" \in t.validity \/ "SellOrderId" \in t.validity => r.type = "T"
<1> DEFINE Bits ==
  [ExchangeTime |-> DecodeTime(r.time) # -1,
   Price |-> ShPrice(r).p6_valid,
   Quantity |-> (r.type = "A" \/ r.type = "D" \/ r.type = "T") /\ r.quantity >= 0,
   Amount |-> ShAmount(r).p6_valid,
   Side |-> ShSideOf(r) # "Unknown",
   PrimaryOrderId |-> ShSideOf(r) # "Unknown" /\ t.primary > 0,
   BuyOrderId |-> r.type = "T" /\ r.buy > 0,
   SellOrderId |-> r.type = "T" /\ r.sell > 0,
   Aggressor |-> ShAggressorOf(r) # "Unknown",
   Phase |-> r.type = "S" /\ r.flag \in Phases,
   MatchedQuantity |-> ShMatched(r)]
<1>1. t.validity = Where(Bits)
  BY DEF DecodeShanghaiTick, ShPrice, ShAmount, ShSideOf, ShAggressorOf, ShMatched
<1>2. DOMAIN Bits = {"ExchangeTime", "Price", "Quantity", "Amount", "Side", "PrimaryOrderId",
                     "BuyOrderId", "SellOrderId", "Aggressor", "Phase", "MatchedQuantity"}
  OBVIOUS
<1>3. /\ "ExchangeTime" \in Where(Bits) <=> Bits.ExchangeTime
      /\ "Price" \in Where(Bits) <=> Bits.Price
      /\ "Quantity" \in Where(Bits) <=> Bits.Quantity
      /\ "Amount" \in Where(Bits) <=> Bits.Amount
      /\ "Side" \in Where(Bits) <=> Bits.Side
      /\ "PrimaryOrderId" \in Where(Bits) <=> Bits.PrimaryOrderId
      /\ "BuyOrderId" \in Where(Bits) <=> Bits.BuyOrderId
      /\ "SellOrderId" \in Where(Bits) <=> Bits.SellOrderId
      /\ "Aggressor" \in Where(Bits) <=> Bits.Aggressor
      /\ "Phase" \in Where(Bits) <=> Bits.Phase
      /\ "MatchedQuantity" \in Where(Bits) <=> Bits.MatchedQuantity
  <2> HIDE DEF Bits
  <2>1. QED
    BY <1>2 DEF Where
<1>4. Where(Bits) \subseteq DOMAIN Bits
  BY DEF Where
<1>5. /\ Bits.ExchangeTime <=> DecodeTime(r.time) # -1
      /\ Bits.Price <=> ShPrice(r).p6_valid
      /\ Bits.Quantity <=> ((r.type = "A" \/ r.type = "D" \/ r.type = "T") /\ r.quantity >= 0)
      /\ Bits.Amount <=> ShAmount(r).p6_valid
      /\ Bits.Side <=> ShSideOf(r) # "Unknown"
      /\ Bits.PrimaryOrderId <=> (ShSideOf(r) # "Unknown" /\ t.primary > 0)
      /\ Bits.BuyOrderId <=> (r.type = "T" /\ r.buy > 0)
      /\ Bits.SellOrderId <=> (r.type = "T" /\ r.sell > 0)
      /\ Bits.Aggressor <=> ShAggressorOf(r) # "Unknown"
      /\ Bits.Phase <=> (r.type = "S" /\ r.flag \in Phases)
      /\ Bits.MatchedQuantity <=> ShMatched(r)
  OBVIOUS
<1>6. QED
  <2> HIDE DEF Bits
  <2>1. QED
    BY <1>1, <1>2, <1>3, <1>4, <1>5

\* No flag in the parts that every tick has.
LEMMA CommonFlags ==
  ASSUME NEW r, CommonQuality(r) = {}
  PROVE  ~(r.quantity < 0) /\ DecodeTime(r.time) # -1
<1>1. TimeQuality(r.time) = {}
  BY DEF CommonQuality
<1>2. "InvalidQuantity" \notin Where([InvalidOrderReference |-> r.buy < 0 \/ r.sell < 0,
                                     InvalidQuantity |-> r.quantity < 0])
  BY DEF CommonQuality
<1>3. ~(r.quantity < 0)
  BY <1>2 DEF Where
<1>4. QED
  BY <1>1, <1>3, TimeFlagged

\* A Shanghai tick without flags.
LEMMA ShanghaiFlags ==
  ASSUME NEW r, NEW t, t = DecodeShanghaiTick(r), t.quality = {}
  PROVE  /\ CommonQuality(r) = {}
         /\ r.price # kNullI32 /\ r.amount # kNullI64
         /\ (r.type = "A" \/ r.type = "T") /\ ShPrice(r).raw_valid => ~(r.price <= 0)
         /\ r.type = "A" /\ ShAmount(r).raw_valid => ~(r.amount < 0)
         /\ r.type = "T" /\ ShAmount(r).raw_valid => ~(r.amount < 0)
         /\ r.type = "A" /\ r.amount >= 0 => r.amount % 1000 = 0
         /\ r.type = "A" \/ r.type = "D" => ShSideOf(r) # "Unknown"
         /\ r.type = "T" => ShAggressorOf(r) # "Unknown"
         /\ r.type = "S" => r.flag \in Phases
         /\ r.type \in {"A", "D", "T", "S"}
<1> DEFINE Flags ==
  [NullSourceValue |-> r.price = kNullI32 \/ r.amount = kNullI64,
   InvalidPrice |-> (r.type = "A" \/ r.type = "T") /\ ShPrice(r).raw_valid /\ r.price <= 0,
   InvalidQuantity |-> r.type = "A" /\ ShAmount(r).raw_valid /\ r.amount < 0,
   InvalidAmount |-> r.type = "T" /\ ShAmount(r).raw_valid /\ r.amount < 0,
   NonIntegralMatchedQuantity |->
     r.type = "A" /\ r.amount >= 0 /\ ~(r.amount >= 0 /\ r.amount % 1000 = 0),
   UnknownEnum |-> \/ (r.type = "A" \/ r.type = "D") /\ ShSideOf(r) = "Unknown"
                   \/ r.type = "T" /\ ShAggressorOf(r) = "Unknown"
                   \/ r.type = "S" /\ r.flag \notin Phases
                   \/ r.type \notin {"A", "D", "T", "S"}]
<1>1. t.quality = CommonQuality(r) \cup Where(Flags)
  BY DEF DecodeShanghaiTick, ShPrice, ShAmount, ShSideOf, ShAggressorOf
<1>2. CommonQuality(r) = {} /\ Where(Flags) = {}
  <2> HIDE DEF Flags
  <2>1. QED
    BY <1>1
<1>3. DOMAIN Flags = {"NullSourceValue", "InvalidPrice", "InvalidQuantity", "InvalidAmount",
                      "NonIntegralMatchedQuantity", "UnknownEnum"}
  OBVIOUS
<1>4. /\ ~Flags.NullSourceValue /\ ~Flags.InvalidPrice /\ ~Flags.InvalidQuantity
      /\ ~Flags.InvalidAmount /\ ~Flags.NonIntegralMatchedQuantity /\ ~Flags.UnknownEnum
  <2> HIDE DEF Flags
  <2>1. QED
    BY <1>2, <1>3 DEF Where
<1>5. /\ Flags.NullSourceValue <=> (r.price = kNullI32 \/ r.amount = kNullI64)
      /\ Flags.InvalidPrice <=>
           ((r.type = "A" \/ r.type = "T") /\ ShPrice(r).raw_valid /\ r.price <= 0)
      /\ Flags.InvalidQuantity <=> (r.type = "A" /\ ShAmount(r).raw_valid /\ r.amount < 0)
      /\ Flags.InvalidAmount <=> (r.type = "T" /\ ShAmount(r).raw_valid /\ r.amount < 0)
      /\ Flags.NonIntegralMatchedQuantity <=>
           (r.type = "A" /\ r.amount >= 0 /\ ~(r.amount >= 0 /\ r.amount % 1000 = 0))
      /\ Flags.UnknownEnum <=>
           (\/ (r.type = "A" \/ r.type = "D") /\ ShSideOf(r) = "Unknown"
            \/ r.type = "T" /\ ShAggressorOf(r) = "Unknown"
            \/ r.type = "S" /\ r.flag \notin Phases
            \/ r.type \notin {"A", "D", "T", "S"})
  OBVIOUS
<1>6. QED
  <2> HIDE DEF Flags
  <2>1. QED
    BY <1>2, <1>4, <1>5

\* The side of a Shanghai tick, as the decoder's tables give it.
LEMMA ShanghaiSides ==
  ASSUME NEW r \in RawTick, r.flag \in DOMAIN ShSide
  PROVE  ShSideOf(r) \in {"Buy", "Sell", "Unknown"}
BY DEF ShSideOf, ShSide

LEMMA ShanghaiGuessesNothing ==
  ASSUME NEW r \in RawTick, r.class = "ShanghaiTick", r.flag \in DOMAIN ShSide,
         NEW t, t = DecodeShanghaiTick(r), t.error = "None"
  PROVE  /\ "Price" \in t.validity =>
              t.action \in {"Add", "Trade"} /\ r.price > 0
              /\ Exactly(t.price, r.price, 3)
         /\ "Amount" \in t.validity =>
              t.action = "Trade" /\ r.amount >= 0 /\ Exactly(t.amount, r.amount, 3)
         /\ "MatchedQuantity" \in t.validity => t.action = "Add" /\ t.matched * 1000 = r.amount
         /\ "PrimaryOrderId" \in t.validity =>
              t.primary > 0 /\ t.primary = (IF t.side = "Buy" THEN r.buy ELSE r.sell)
         /\ t.action = "Unknown" => t.validity \subseteq {"ExchangeTime"}
         /\ t.quality = {} => Promised(r, t.action) \subseteq t.validity
<1>0. /\ r.price \in Int /\ r.amount \in Int /\ r.quantity \in Int
      /\ r.buy \in Int /\ r.sell \in Int
  BY DEF RawTick
<1>1. /\ ~ShPrice(r).overflow /\ ~ShAmount(r).overflow
      /\ t.action = (CASE r.type = "A" -> "Add" [] r.type = "D" -> "Cancel"
                       [] r.type = "T" -> "Trade" [] r.type = "S" -> "Status"
                       [] OTHER -> "Unknown")
      /\ t.side = ShSideOf(r)
      /\ t.primary = (CASE ShSideOf(r) = "Buy" -> r.buy [] ShSideOf(r) = "Sell" -> r.sell
                        [] OTHER -> 0)
      /\ t.price = ShPrice(r).p6 /\ t.amount = ShAmount(r).p6
      /\ t.matched = IF ShMatched(r) THEN r.amount \div 1000 ELSE 0
  BY ShanghaiSays
<1>2. /\ "ExchangeTime" \in t.validity <=> DecodeTime(r.time) # -1
      /\ "Price" \in t.validity <=> ShPrice(r).p6_valid
      /\ "Quantity" \in t.validity <=>
           (r.type = "A" \/ r.type = "D" \/ r.type = "T") /\ r.quantity >= 0
      /\ "Amount" \in t.validity <=> ShAmount(r).p6_valid
      /\ "Side" \in t.validity <=> ShSideOf(r) # "Unknown"
      /\ "PrimaryOrderId" \in t.validity <=> ShSideOf(r) # "Unknown" /\ t.primary > 0
      /\ "Aggressor" \in t.validity <=> ShAggressorOf(r) # "Unknown"
      /\ "Phase" \in t.validity <=> r.type = "S" /\ r.flag \in Phases
      /\ "MatchedQuantity" \in t.validity <=> ShMatched(r)
      /\ t.validity \subseteq {"ExchangeTime", "Price", "Quantity", "Amount", "Side",
           "PrimaryOrderId", "BuyOrderId", "SellOrderId", "Aggressor", "Phase", "MatchedQuantity"}
      /\ "BuyOrderId" \in t.validity \/ "SellOrderId" \in t.validity => r.type = "T"
  BY ShanghaiValid
<1>3. /\ ShPrice(r).p6_valid =>
           /\ r.type = "A" \/ r.type = "T"
           /\ r.price > 0 /\ Exactly(ShPrice(r).p6, r.price, 3)
      /\ ShPrice(r).raw_valid <=> r.price # kNullI32
      /\ (r.type = "A" \/ r.type = "T") /\ r.price # kNullI32 /\ r.price > 0 => ShPrice(r).p6_valid
  <2>1. CASE r.type = "A" \/ r.type = "T"
    <3>1. ShPrice(r) = DecodePrice(r.price, {kNullI32}, 3)
      BY <2>1 DEF ShPrice
    <3>2. ~ShPrice(r).overflow
      BY <1>1
    <3>3. PICK d : d = DecodePrice(r.price, {kNullI32}, 3)
      OBVIOUS
    <3>4. /\ d.raw_valid <=> r.price \notin {kNullI32}
          /\ d.p6_valid => r.price > 0 /\ Exactly(d.p6, r.price, 3)
          /\ r.price \notin {kNullI32} /\ r.price > 0 /\ ~d.overflow => d.p6_valid
      BY <1>0, <3>3, PriceIs
    <3>5. QED
      BY <2>1, <3>1, <3>2, <3>3, <3>4
  <2>2. CASE ~(r.type = "A" \/ r.type = "T")
    <3>1. ShPrice(r) = Decimal(r.price, {kNullI32}, 3)
      BY <2>2 DEF ShPrice
    <3>2. QED
      BY <1>0, <2>2, <3>1, DecimalIs
  <2>3. QED
    BY <2>1, <2>2
<1>4. /\ ShAmount(r).p6_valid =>
           r.type = "T" /\ r.amount >= 0 /\ Exactly(ShAmount(r).p6, r.amount, 3)
      /\ ShAmount(r).raw_valid <=> r.amount # kNullI64
      /\ r.type = "T" /\ r.amount # kNullI64 /\ r.amount >= 0 => ShAmount(r).p6_valid
  <2>1. CASE r.type = "T"
    <3>1. ShAmount(r) = DecodeAmount(r.amount, {kNullI64}, 3)
      BY <2>1 DEF ShAmount
    <3>2. ~ShAmount(r).overflow
      BY <1>1
    <3>3. QED
      BY <1>0, <2>1, <3>1, <3>2, AmountIs
  <2>2. CASE r.type # "T"
    <3>1. ShAmount(r) = Decimal(r.amount, {kNullI64}, 3)
      BY <2>2 DEF ShAmount
    <3>2. QED
      BY <1>0, <2>2, <3>1, DecimalIs
  <2>3. QED
    BY <2>1, <2>2
<1>5. ShMatched(r) => r.type = "A" /\ (r.amount \div 1000) * 1000 = r.amount
  BY <1>0 DEF ShMatched
<1>6. ShSideOf(r) \in {"Buy", "Sell", "Unknown"}
  BY ShanghaiSides
<1>7. "Price" \in t.validity => /\ t.action \in {"Add", "Trade"} /\ r.price > 0
                                /\ Exactly(t.price, r.price, 3)
  BY <1>1, <1>2, <1>3
<1>8. "Amount" \in t.validity =>
        t.action = "Trade" /\ r.amount >= 0 /\ Exactly(t.amount, r.amount, 3)
  BY <1>1, <1>2, <1>4
<1>9. "MatchedQuantity" \in t.validity => t.action = "Add" /\ t.matched * 1000 = r.amount
  BY <1>1, <1>2, <1>5
<1>10. "PrimaryOrderId" \in t.validity =>
         t.primary > 0 /\ t.primary = (IF t.side = "Buy" THEN r.buy ELSE r.sell)
  BY <1>1, <1>2, <1>6
<1>11. ASSUME t.action = "Unknown" PROVE t.validity \subseteq {"ExchangeTime"}
  <2>1. r.type \notin {"A", "D", "T", "S"}
    BY <1>1, <1>11
  <2>2. ShSideOf(r) = "Unknown" /\ ShAggressorOf(r) = "Unknown" /\ ~ShMatched(r)
    BY <2>1 DEF ShSideOf, ShAggressorOf, ShMatched
  <2>3. ~ShPrice(r).p6_valid /\ ~ShAmount(r).p6_valid
    BY <1>3, <1>4, <2>1
  <2>4. QED
    BY <1>2, <2>1, <2>2, <2>3
<1>12. ASSUME t.quality = {} PROVE Promised(r, t.action) \subseteq t.validity
  <2>1. /\ CommonQuality(r) = {}
        /\ r.price # kNullI32 /\ r.amount # kNullI64
        /\ (r.type = "A" \/ r.type = "T") /\ ShPrice(r).raw_valid => ~(r.price <= 0)
        /\ r.type = "A" /\ ShAmount(r).raw_valid => ~(r.amount < 0)
        /\ r.type = "T" /\ ShAmount(r).raw_valid => ~(r.amount < 0)
        /\ r.type = "A" /\ r.amount >= 0 => r.amount % 1000 = 0
        /\ r.type = "A" \/ r.type = "D" => ShSideOf(r) # "Unknown"
        /\ r.type = "T" => ShAggressorOf(r) # "Unknown"
        /\ r.type = "S" => r.flag \in Phases
        /\ r.type \in {"A", "D", "T", "S"}
    BY <1>12, ShanghaiFlags
  <2>2. r.quantity >= 0 /\ "ExchangeTime" \in t.validity
    BY <1>0, <1>2, <2>1, CommonFlags
  <2>3. CASE r.type = "A"
    <3>1. t.action = "Add"
      BY <1>1, <2>3
    <3>2. ShPrice(r).p6_valid
      BY <1>0, <1>3, <2>1, <2>3
    <3>3. ShMatched(r)
      BY <1>0, <1>4, <2>1, <2>3 DEF ShMatched
    <3>4. Promised(r, "Add") = {"ExchangeTime", "Quantity", "Side", "Price", "MatchedQuantity"}
      BY DEF Promised
    <3>5. QED
      BY <1>2, <2>1, <2>2, <2>3, <3>1, <3>2, <3>3, <3>4
  <2>4. CASE r.type = "D"
    <3>1. t.action = "Cancel"
      BY <1>1, <2>4
    <3>2. Promised(r, "Cancel") = {"ExchangeTime", "Quantity", "Side"}
      BY DEF Promised
    <3>3. QED
      BY <1>2, <2>1, <2>2, <2>4, <3>1, <3>2
  <2>5. CASE r.type = "T"
    <3>1. t.action = "Trade"
      BY <1>1, <2>5
    <3>2. ShPrice(r).p6_valid /\ ShAmount(r).p6_valid
      BY <1>0, <1>3, <1>4, <2>1, <2>5
    <3>3. Promised(r, "Trade") = {"ExchangeTime", "Price", "Quantity", "Amount", "Aggressor"}
      BY DEF Promised
    <3>4. QED
      BY <1>2, <2>1, <2>2, <2>5, <3>1, <3>2, <3>3
  <2>6. CASE r.type = "S"
    <3>1. t.action = "Status"
      BY <1>1, <2>6
    <3>2. Promised(r, "Status") = {"ExchangeTime", "Phase"}
      BY DEF Promised
    <3>3. QED
      BY <1>2, <2>1, <2>2, <2>6, <3>1, <3>2
  <2>7. QED
    BY <2>1, <2>3, <2>4, <2>5, <2>6
<1>13. QED
  BY <1>7, <1>8, <1>9, <1>10, <1>11, <1>12

-----------------------------------------------------------------------------
(***************************************************************************)
(* A Shenzhen order.                                                       *)
(***************************************************************************)
\* The parts of a decoded Shenzhen order.
SzOrderPrice(r) ==
  IF SzOrderType[r.type] = "Limit" THEN DecodePrice(r.price, {kNullI64}, 4)
  ELSE Decimal(r.price, {kNullI64}, 4)

\* What a Shenzhen order says.
LEMMA OrderSays ==
  ASSUME NEW r, NEW t, t = DecodeShenzhenOrder(r)
  PROVE  /\ t.error = "None" <=> ~SzOrderPrice(r).overflow
         /\ t.action = "Add" /\ t.side = SzSide[r.flag] /\ t.price = SzOrderPrice(r).p6
BY DEF DecodeShenzhenOrder, SzOrderPrice

LEMMA OrderValid ==
  ASSUME NEW r, NEW t, t = DecodeShenzhenOrder(r)
  PROVE  /\ "ExchangeTime" \in t.validity <=> DecodeTime(r.time) # -1
         /\ "Price" \in t.validity <=> SzOrderPrice(r).p6_valid
         /\ "Quantity" \in t.validity <=> r.quantity >= 0
         /\ "Side" \in t.validity <=> SzSide[r.flag] # "Unknown"
         /\ "OrderType" \in t.validity <=> SzOrderType[r.type] # "Unknown"
         /\ t.validity \subseteq
              {"ExchangeTime", "Price", "Quantity", "Side", "OrderType", "PrimaryOrderId"}
<1> DEFINE Bits ==
  [ExchangeTime |-> DecodeTime(r.time) # -1,
   Price |-> SzOrderPrice(r).p6_valid,
   Quantity |-> r.quantity >= 0,
   Side |-> SzSide[r.flag] # "Unknown",
   OrderType |-> SzOrderType[r.type] # "Unknown",
   PrimaryOrderId |-> TRUE]
<1>1. t.validity = Where(Bits)
  BY DEF DecodeShenzhenOrder, SzOrderPrice
<1>2. DOMAIN Bits = {"ExchangeTime", "Price", "Quantity", "Side", "OrderType", "PrimaryOrderId"}
  OBVIOUS
<1>3. /\ "ExchangeTime" \in Where(Bits) <=> Bits.ExchangeTime
      /\ "Price" \in Where(Bits) <=> Bits.Price
      /\ "Quantity" \in Where(Bits) <=> Bits.Quantity
      /\ "Side" \in Where(Bits) <=> Bits.Side
      /\ "OrderType" \in Where(Bits) <=> Bits.OrderType
  <2> HIDE DEF Bits
  <2>1. QED
    BY <1>2 DEF Where
<1>4. Where(Bits) \subseteq DOMAIN Bits
  BY DEF Where
<1>5. /\ Bits.ExchangeTime <=> DecodeTime(r.time) # -1
      /\ Bits.Price <=> SzOrderPrice(r).p6_valid
      /\ Bits.Quantity <=> r.quantity >= 0
      /\ Bits.Side <=> SzSide[r.flag] # "Unknown"
      /\ Bits.OrderType <=> SzOrderType[r.type] # "Unknown"
  OBVIOUS
<1>6. QED
  <2> HIDE DEF Bits
  <2>1. QED
    BY <1>1, <1>2, <1>3, <1>4, <1>5

\* A Shenzhen order without flags.
LEMMA OrderFlags ==
  ASSUME NEW r, NEW t, t = DecodeShenzhenOrder(r), t.quality = {}
  PROVE  /\ TimeQuality(r.time) = {}
         /\ ~(r.quantity < 0)
         /\ SzSide[r.flag] # "Unknown" /\ SzOrderType[r.type] # "Unknown"
<1> DEFINE Flags ==
  [NullSourceValue |-> r.price = kNullI64,
   InvalidQuantity |-> r.quantity < 0,
   InvalidPrice |-> SzOrderType[r.type] = "Limit" /\ SzOrderPrice(r).raw_valid /\ r.price <= 0,
   UnknownEnum |-> SzSide[r.flag] = "Unknown" \/ SzOrderType[r.type] = "Unknown"]
<1>1. t.quality = InitializeCommon(r) \cup TimeQuality(r.time) \cup Where(Flags)
  BY DEF DecodeShenzhenOrder, SzOrderPrice
<1>2. TimeQuality(r.time) = {} /\ Where(Flags) = {}
  <2> HIDE DEF Flags
  <2>1. QED
    BY <1>1
<1>3. DOMAIN Flags = {"NullSourceValue", "InvalidQuantity", "InvalidPrice", "UnknownEnum"}
  OBVIOUS
<1>4. ~Flags.InvalidQuantity /\ ~Flags.UnknownEnum
  <2> HIDE DEF Flags
  <2>1. QED
    BY <1>2, <1>3 DEF Where
<1>5. /\ Flags.InvalidQuantity <=> r.quantity < 0
      /\ Flags.UnknownEnum <=> (SzSide[r.flag] = "Unknown" \/ SzOrderType[r.type] = "Unknown")
  OBVIOUS
<1>6. QED
  <2> HIDE DEF Flags
  <2>1. QED
    BY <1>2, <1>4, <1>5

\* A Shenzhen order has the price of a limit order, and nothing of a trade.
LEMMA OrderGuessesNothing ==
  ASSUME NEW r \in RawTick, r.class = "ShenzhenOrder",
         NEW t, t = DecodeShenzhenOrder(r), t.error = "None"
  PROVE  /\ t.action = "Add"
         /\ "Price" \in t.validity => r.price > 0 /\ Exactly(t.price, r.price, 4)
         /\ "Amount" \notin t.validity /\ "MatchedQuantity" \notin t.validity
         /\ t.quality = {} => Promised(r, t.action) \subseteq t.validity
<1>0. r.price \in Int /\ r.quantity \in Int
  BY DEF RawTick
<1>1. ~SzOrderPrice(r).overflow /\ t.action = "Add" /\ t.price = SzOrderPrice(r).p6
  BY OrderSays
<1>2. SzOrderPrice(r).p6_valid => r.price > 0 /\ Exactly(SzOrderPrice(r).p6, r.price, 4)
  <2>1. CASE SzOrderType[r.type] = "Limit"
    <3>1. SzOrderPrice(r) = DecodePrice(r.price, {kNullI64}, 4)
      BY <2>1 DEF SzOrderPrice
    <3>2. QED
      BY <1>0, <3>1, PriceIs
  <2>2. CASE SzOrderType[r.type] # "Limit"
    <3>1. SzOrderPrice(r) = Decimal(r.price, {kNullI64}, 4)
      BY <2>2 DEF SzOrderPrice
    <3>2. QED
      BY <1>0, <3>1, DecimalIs
  <2>3. QED
    BY <2>1, <2>2
<1>3. "Price" \in t.validity => r.price > 0 /\ Exactly(t.price, r.price, 4)
  BY <1>1, <1>2, OrderValid
<1>4. "Amount" \notin t.validity /\ "MatchedQuantity" \notin t.validity
  BY OrderValid
<1>5. ASSUME t.quality = {} PROVE Promised(r, "Add") \subseteq t.validity
  <2>1. /\ TimeQuality(r.time) = {} /\ ~(r.quantity < 0)
        /\ SzSide[r.flag] # "Unknown" /\ SzOrderType[r.type] # "Unknown"
    BY <1>5, OrderFlags
  <2>2. DecodeTime(r.time) # -1 /\ r.quantity >= 0
    BY <1>0, <2>1, TimeFlagged
  <2>3. Promised(r, "Add") = {"ExchangeTime", "Quantity", "Side", "OrderType"}
    BY DEF Promised
  <2>4. QED
    BY <2>1, <2>2, <2>3, OrderValid
<1>6. QED
  BY <1>1, <1>3, <1>4, <1>5

-----------------------------------------------------------------------------
(***************************************************************************)
(* A Shenzhen transaction, and every tick.                                 *)
(***************************************************************************)
\* The parts of a decoded Shenzhen transaction.
SzTransactionPrice(r) ==
  IF r.type = "70" THEN DecodePrice(r.price, {kNullI64}, 4) ELSE Decimal(r.price, {kNullI64}, 4)
SzCancelSide(r) == IF r.type = "52" THEN CancelSide(r) ELSE "Unknown"

\* What a Shenzhen transaction says.
LEMMA TransactionSays ==
  ASSUME NEW r, NEW t, t = DecodeShenzhenTransaction(r)
  PROVE  /\ t.error = "None" <=> ~SzTransactionPrice(r).overflow
         /\ t.action = (CASE r.type = "70" -> "Trade" [] r.type = "52" -> "Cancel"
                          [] OTHER -> "Unknown")
         /\ t.side = SzCancelSide(r) /\ t.price = SzTransactionPrice(r).p6
         /\ t.primary = (CASE SzCancelSide(r) = "Buy" -> r.buy
                           [] SzCancelSide(r) = "Sell" -> r.sell [] OTHER -> 0)
BY DEF DecodeShenzhenTransaction, SzTransactionPrice, SzCancelSide

LEMMA TransactionValid ==
  ASSUME NEW r, NEW t, t = DecodeShenzhenTransaction(r)
  PROVE  /\ "ExchangeTime" \in t.validity <=> DecodeTime(r.time) # -1
         /\ "Price" \in t.validity <=> SzTransactionPrice(r).p6_valid
         /\ "Quantity" \in t.validity <=> (r.type = "70" \/ r.type = "52") /\ r.quantity >= 0
         /\ "Side" \in t.validity <=> SzCancelSide(r) # "Unknown"
         /\ "PrimaryOrderId" \in t.validity <=> SzCancelSide(r) # "Unknown"
         /\ "BuyOrderId" \in t.validity \/ "SellOrderId" \in t.validity =>
              r.type = "70" \/ r.type = "52"
         /\ t.validity \subseteq {"ExchangeTime", "Price", "Quantity", "Side", "PrimaryOrderId",
                                  "BuyOrderId", "SellOrderId"}
<1> DEFINE Bits ==
  [ExchangeTime |-> DecodeTime(r.time) # -1,
   Price |-> SzTransactionPrice(r).p6_valid,
   Quantity |-> (r.type = "70" \/ r.type = "52") /\ r.quantity >= 0,
   Side |-> SzCancelSide(r) # "Unknown",
   PrimaryOrderId |-> SzCancelSide(r) # "Unknown",
   BuyOrderId |-> (r.type = "70" \/ r.type = "52") /\ r.buy > 0,
   SellOrderId |-> (r.type = "70" \/ r.type = "52") /\ r.sell > 0]
<1>1. t.validity = Where(Bits)
  BY DEF DecodeShenzhenTransaction, SzTransactionPrice, SzCancelSide
<1>2. DOMAIN Bits = {"ExchangeTime", "Price", "Quantity", "Side", "PrimaryOrderId",
                     "BuyOrderId", "SellOrderId"}
  OBVIOUS
<1>3. /\ "ExchangeTime" \in Where(Bits) <=> Bits.ExchangeTime
      /\ "Price" \in Where(Bits) <=> Bits.Price
      /\ "Quantity" \in Where(Bits) <=> Bits.Quantity
      /\ "Side" \in Where(Bits) <=> Bits.Side
      /\ "PrimaryOrderId" \in Where(Bits) <=> Bits.PrimaryOrderId
      /\ "BuyOrderId" \in Where(Bits) <=> Bits.BuyOrderId
      /\ "SellOrderId" \in Where(Bits) <=> Bits.SellOrderId
  <2> HIDE DEF Bits
  <2>1. QED
    BY <1>2 DEF Where
<1>4. Where(Bits) \subseteq DOMAIN Bits
  BY DEF Where
<1>5. /\ Bits.ExchangeTime <=> DecodeTime(r.time) # -1
      /\ Bits.Price <=> SzTransactionPrice(r).p6_valid
      /\ Bits.Quantity <=> ((r.type = "70" \/ r.type = "52") /\ r.quantity >= 0)
      /\ Bits.Side <=> SzCancelSide(r) # "Unknown"
      /\ Bits.PrimaryOrderId <=> SzCancelSide(r) # "Unknown"
      /\ Bits.BuyOrderId <=> ((r.type = "70" \/ r.type = "52") /\ r.buy > 0)
      /\ Bits.SellOrderId <=> ((r.type = "70" \/ r.type = "52") /\ r.sell > 0)
  OBVIOUS
<1>6. QED
  <2> HIDE DEF Bits
  <2>1. QED
    BY <1>1, <1>2, <1>3, <1>4, <1>5

\* A Shenzhen transaction without flags.
LEMMA TransactionFlags ==
  ASSUME NEW r, NEW t, t = DecodeShenzhenTransaction(r), t.quality = {}
  PROVE  /\ CommonQuality(r) = {} /\ r.price # kNullI64
         /\ r.type = "70" /\ SzTransactionPrice(r).raw_valid => ~(r.price <= 0)
         /\ r.type = "52" => SzCancelSide(r) # "Unknown"
         /\ r.type = "70" \/ r.type = "52"
<1> DEFINE Flags ==
  [NullSourceValue |-> r.price = kNullI64,
   InvalidPrice |-> r.type = "70" /\ SzTransactionPrice(r).raw_valid /\ r.price <= 0,
   AmbiguousOrderReference |-> r.type = "52" /\ SzCancelSide(r) = "Unknown",
   UnknownEnum |-> ~(r.type = "70") /\ ~(r.type = "52")]
<1>1. t.quality = CommonQuality(r) \cup Where(Flags)
  BY DEF DecodeShenzhenTransaction, SzTransactionPrice, SzCancelSide
<1>2. CommonQuality(r) = {} /\ Where(Flags) = {}
  <2> HIDE DEF Flags
  <2>1. QED
    BY <1>1
<1>3. DOMAIN Flags = {"NullSourceValue", "InvalidPrice", "AmbiguousOrderReference", "UnknownEnum"}
  OBVIOUS
<1>4. /\ ~Flags.NullSourceValue /\ ~Flags.InvalidPrice
      /\ ~Flags.AmbiguousOrderReference /\ ~Flags.UnknownEnum
  <2> HIDE DEF Flags
  <2>1. QED
    BY <1>2, <1>3 DEF Where
<1>5. /\ Flags.NullSourceValue <=> r.price = kNullI64
      /\ Flags.InvalidPrice <=>
           (r.type = "70" /\ SzTransactionPrice(r).raw_valid /\ r.price <= 0)
      /\ Flags.AmbiguousOrderReference <=> (r.type = "52" /\ SzCancelSide(r) = "Unknown")
      /\ Flags.UnknownEnum <=> (~(r.type = "70") /\ ~(r.type = "52"))
  OBVIOUS
<1>6. QED
  <2> HIDE DEF Flags
  <2>1. QED
    BY <1>2, <1>4, <1>5

\* A cancellation with a side names exactly one order, the one of that side.
LEMMA CancelSideIs ==
  ASSUME NEW r \in RawTick, SzCancelSide(r) # "Unknown"
  PROVE  /\ \/ SzCancelSide(r) = "Buy" /\ r.buy > 0 /\ ~(r.sell > 0)
            \/ SzCancelSide(r) = "Sell" /\ r.sell > 0 /\ ~(r.buy > 0)
         /\ Cardinality({x \in {"Buy", "Sell"} : (IF x = "Buy" THEN r.buy ELSE r.sell) > 0}) = 1
<1>0. r.buy \in Int /\ r.sell \in Int
  BY DEF RawTick
<1>1. \/ SzCancelSide(r) = "Buy" /\ r.buy > 0 /\ ~(r.sell > 0)
      \/ SzCancelSide(r) = "Sell" /\ r.sell > 0 /\ ~(r.buy > 0)
  <2>1. SzCancelSide(r) = CancelSide(r)
    BY DEF SzCancelSide
  <2>2. CASE r.buy > 0
    BY <1>0, <2>1, <2>2 DEF CancelSide
  <2>3. CASE ~(r.buy > 0)
    BY <1>0, <2>1, <2>3 DEF CancelSide
  <2>4. QED
    BY <2>2, <2>3
<1>2. PICK side : {x \in {"Buy", "Sell"} : (IF x = "Buy" THEN r.buy ELSE r.sell) > 0} = {side}
  BY <1>1
<1>3. QED
  BY <1>1, <1>2, FS_Singleton

\* A Shenzhen transaction has the price of a trade and the side of a cancellation.
LEMMA TransactionGuessesNothing ==
  ASSUME NEW r \in RawTick, r.class = "ShenzhenTransaction",
         NEW t, t = DecodeShenzhenTransaction(r), t.error = "None"
  PROVE  /\ "Price" \in t.validity =>
              t.action = "Trade" /\ r.price > 0 /\ Exactly(t.price, r.price, 4)
         /\ "Amount" \notin t.validity /\ "MatchedQuantity" \notin t.validity
         /\ "PrimaryOrderId" \in t.validity =>
              t.primary > 0 /\ t.primary = (IF t.side = "Buy" THEN r.buy ELSE r.sell)
         /\ "Side" \in t.validity =>
              Cardinality({x \in {"Buy", "Sell"} :
                             (IF x = "Buy" THEN r.buy ELSE r.sell) > 0}) = 1
         /\ t.action = "Unknown" => t.validity \subseteq {"ExchangeTime"}
         /\ t.quality = {} => Promised(r, t.action) \subseteq t.validity
<1>0. r.price \in Int /\ r.quantity \in Int /\ r.buy \in Int /\ r.sell \in Int
  BY DEF RawTick
<1>1. /\ t.action = (CASE r.type = "70" -> "Trade" [] r.type = "52" -> "Cancel"
                       [] OTHER -> "Unknown")
      /\ t.side = SzCancelSide(r) /\ t.price = SzTransactionPrice(r).p6
      /\ t.primary = (CASE SzCancelSide(r) = "Buy" -> r.buy
                        [] SzCancelSide(r) = "Sell" -> r.sell [] OTHER -> 0)
  BY TransactionSays
<1>2. ~SzTransactionPrice(r).overflow
  BY TransactionSays
<1>3. /\ SzTransactionPrice(r).p6_valid =>
           r.type = "70" /\ r.price > 0 /\ Exactly(SzTransactionPrice(r).p6, r.price, 4)
      /\ r.type = "70" /\ r.price # kNullI64 /\ r.price > 0 => SzTransactionPrice(r).p6_valid
      /\ SzTransactionPrice(r).raw_valid <=> r.price # kNullI64
  <2>1. CASE r.type = "70"
    <3>1. SzTransactionPrice(r) = DecodePrice(r.price, {kNullI64}, 4)
      BY <2>1 DEF SzTransactionPrice
    <3>2. QED
      BY <1>0, <1>2, <2>1, <3>1, PriceIs
  <2>2. CASE r.type # "70"
    <3>1. SzTransactionPrice(r) = Decimal(r.price, {kNullI64}, 4)
      BY <2>2 DEF SzTransactionPrice
    <3>2. QED
      BY <1>0, <2>2, <3>1, DecimalIs
  <2>3. QED
    BY <2>1, <2>2
<1>4. /\ "ExchangeTime" \in t.validity <=> DecodeTime(r.time) # -1
      /\ "Price" \in t.validity <=> SzTransactionPrice(r).p6_valid
      /\ "Quantity" \in t.validity <=> (r.type = "70" \/ r.type = "52") /\ r.quantity >= 0
      /\ "Side" \in t.validity <=> SzCancelSide(r) # "Unknown"
      /\ "PrimaryOrderId" \in t.validity <=> SzCancelSide(r) # "Unknown"
      /\ "BuyOrderId" \in t.validity \/ "SellOrderId" \in t.validity =>
           r.type = "70" \/ r.type = "52"
      /\ t.validity \subseteq {"ExchangeTime", "Price", "Quantity", "Side", "PrimaryOrderId",
                               "BuyOrderId", "SellOrderId"}
  BY TransactionValid
<1>5. "Price" \in t.validity => t.action = "Trade" /\ r.price > 0 /\ Exactly(t.price, r.price, 4)
  BY <1>1, <1>3, <1>4
<1>6. "Amount" \notin t.validity /\ "MatchedQuantity" \notin t.validity
  BY <1>4
<1>7. ASSUME "PrimaryOrderId" \in t.validity
      PROVE  t.primary > 0 /\ t.primary = (IF t.side = "Buy" THEN r.buy ELSE r.sell)
  <2>1. SzCancelSide(r) # "Unknown"
    BY <1>4, <1>7
  <2>2. \/ SzCancelSide(r) = "Buy" /\ r.buy > 0
        \/ SzCancelSide(r) = "Sell" /\ r.sell > 0
    BY <2>1, CancelSideIs
  <2>3. QED
    BY <1>1, <2>2
<1>8. "Side" \in t.validity =>
        Cardinality({x \in {"Buy", "Sell"} : (IF x = "Buy" THEN r.buy ELSE r.sell) > 0}) = 1
  BY <1>4, CancelSideIs
<1>9. ASSUME t.action = "Unknown" PROVE t.validity \subseteq {"ExchangeTime"}
  <2>1. r.type # "70" /\ r.type # "52"
    BY <1>1, <1>9
  <2>2. SzCancelSide(r) = "Unknown"
    BY <2>1 DEF SzCancelSide
  <2>3. QED
    BY <1>3, <1>4, <2>1, <2>2
<1>10. ASSUME t.quality = {} PROVE Promised(r, t.action) \subseteq t.validity
  <2>1. /\ CommonQuality(r) = {} /\ r.price # kNullI64
        /\ r.type = "70" /\ SzTransactionPrice(r).raw_valid => ~(r.price <= 0)
        /\ r.type = "52" => SzCancelSide(r) # "Unknown"
        /\ r.type = "70" \/ r.type = "52"
    BY <1>10, TransactionFlags
  <2>2. r.quantity >= 0 /\ "ExchangeTime" \in t.validity
    BY <1>0, <1>4, <2>1, CommonFlags
  <2>3. CASE r.type = "70"
    <3>1. t.action = "Trade"
      BY <1>1, <2>3
    <3>2. SzTransactionPrice(r).p6_valid
      BY <1>0, <1>3, <2>1, <2>3
    <3>3. Promised(r, "Trade") = {"ExchangeTime", "Price", "Quantity"}
      BY DEF Promised
    <3>4. QED
      BY <1>4, <2>2, <2>3, <3>1, <3>2, <3>3
  <2>4. CASE r.type = "52"
    <3>1. t.action = "Cancel"
      BY <1>1, <2>4
    <3>2. Promised(r, "Cancel") = {"ExchangeTime", "Quantity", "Side"}
      BY DEF Promised
    <3>3. QED
      BY <1>4, <2>1, <2>2, <2>4, <3>1, <3>2
  <2>5. QED
    BY <2>1, <2>3, <2>4
<1>11. QED
  BY <1>5, <1>6, <1>7, <1>8, <1>9, <1>10

\* Whatever is on the wire, a canonical tick says no more than that.
LEMMA TickHolds ==
  ASSUME NEW r \in RawTick, KnownTexts(r)
  PROVE  TickGuessesNothing(r)
<1> SUFFICES ASSUME DecodeTick(r).error = "None" PROVE TickGuessesNothing(r)
  BY DEF TickGuessesNothing
<1>1. r.whole /\ ~NativeError(r)
  <2>1. CASE ~r.whole
    <3>1. DecodeTick(r) = [error |-> "Truncated"]
      BY <2>1 DEF DecodeTick
    <3>2. QED
      BY <3>1
  <2>2. CASE r.whole /\ NativeError(r)
    <3>1. DecodeTick(r) = [error |-> "InvalidNativeSequence"]
      BY <2>2 DEF DecodeTick
    <3>2. QED
      BY <3>1
  <2>3. QED
    BY <2>1, <2>2
<1>2. r.class \in {"ShanghaiTick", "ShenzhenOrder", "ShenzhenTransaction"}
  BY DEF RawTick, TickClasses
<1>3. PICK t : t = DecodeTick(r)
  OBVIOUS
<1>4. t.error = "None"
  BY <1>3
<1>5. CASE r.class = "ShanghaiTick"
  <2>1. t = DecodeShanghaiTick(r) /\ r.flag \in DOMAIN ShSide
    BY <1>1, <1>3, <1>5 DEF DecodeTick, KnownTexts
  <2>2. /\ "Price" \in t.validity =>
             t.action \in {"Add", "Trade"} /\ r.price > 0 /\ Exactly(t.price, r.price, 3)
        /\ "Amount" \in t.validity =>
             t.action = "Trade" /\ r.amount >= 0 /\ Exactly(t.amount, r.amount, 3)
        /\ "MatchedQuantity" \in t.validity => t.action = "Add" /\ t.matched * 1000 = r.amount
        /\ "PrimaryOrderId" \in t.validity =>
             t.primary > 0 /\ t.primary = (IF t.side = "Buy" THEN r.buy ELSE r.sell)
        /\ t.action = "Unknown" => t.validity \subseteq {"ExchangeTime"}
        /\ t.quality = {} => Promised(r, t.action) \subseteq t.validity
    BY <1>4, <1>5, <2>1, ShanghaiGuessesNothing
  <2>3. QED
    BY <1>3, <1>5, <2>2 DEF TickGuessesNothing
<1>6. CASE r.class = "ShenzhenOrder"
  <2>1. t = DecodeShenzhenOrder(r)
    BY <1>1, <1>3, <1>6 DEF DecodeTick
  <2>2. /\ t.action = "Add"
        /\ "Price" \in t.validity => r.price > 0 /\ Exactly(t.price, r.price, 4)
        /\ "Amount" \notin t.validity /\ "MatchedQuantity" \notin t.validity
        /\ t.quality = {} => Promised(r, t.action) \subseteq t.validity
    BY <1>4, <1>6, <2>1, OrderGuessesNothing
  <2>3. QED
    BY <1>3, <1>6, <2>2 DEF TickGuessesNothing
<1>7. CASE r.class = "ShenzhenTransaction"
  <2>1. t = DecodeShenzhenTransaction(r)
    BY <1>1, <1>3, <1>7 DEF DecodeTick
  <2>2. /\ "Price" \in t.validity =>
             t.action = "Trade" /\ r.price > 0 /\ Exactly(t.price, r.price, 4)
        /\ "Amount" \notin t.validity /\ "MatchedQuantity" \notin t.validity
        /\ "PrimaryOrderId" \in t.validity =>
             t.primary > 0 /\ t.primary = (IF t.side = "Buy" THEN r.buy ELSE r.sell)
        /\ "Side" \in t.validity =>
             Cardinality({x \in {"Buy", "Sell"} :
                            (IF x = "Buy" THEN r.buy ELSE r.sell) > 0}) = 1
        /\ t.action = "Unknown" => t.validity \subseteq {"ExchangeTime"}
        /\ t.quality = {} => Promised(r, t.action) \subseteq t.validity
    BY <1>4, <1>7, <2>1, TransactionGuessesNothing
  <2>3. QED
    BY <1>3, <1>7, <2>2 DEF TickGuessesNothing
<1>8. QED
  BY <1>2, <1>5, <1>6, <1>7

-----------------------------------------------------------------------------
(***************************************************************************)
(* Stream selection, configuration and the checks of a message (Messages). *)
(***************************************************************************)
\* A set of numbers that is not empty has a least one.
LEMMA Least ==
  ASSUME NEW S \in SUBSET Nat, S # {}
  PROVE  Min(S) \in S /\ \A y \in S : Min(S) <= y
<1> DEFINE Less == {p \in Nat \X Nat : p[1] < p[2]}
<1>1. IsWellFoundedOn(Less, Nat)
  BY NatLessThanWellFounded DEF OpToRel
<1>2. PICK m \in S : \A y \in S : ~(<<y, m>> \in Less)
  BY <1>1, WFMin
<1>3. ASSUME NEW y \in S PROVE m <= y
  <2>1. m \in Nat /\ y \in Nat /\ ~(<<y, m>> \in Less)
    BY <1>2, <1>3
  <2>2. QED
    BY <2>1
<1>4. QED
  BY <1>3 DEF Min

\* A product that passes the test of the configuration fits a size_t.
LEMMA ProductFits ==
  ASSUME NEW count \in Nat, NEW each \in Nat \ {0}, ~TooMany(count, each)
  PROVE  count * each <= SizeMax
<1>1. SizeMax \in Nat
  BY MessagesAssumption
<1>2. PICK q \in Nat : q = SizeMax \div each
  BY <1>1
<1>3. count <= q
  BY <1>1, <1>2 DEF TooMany
<1>4. q * each <= SizeMax
  BY <1>1, <1>2
<1>5. PICK more \in Nat : q = count + more
  <2>1. q - count \in Nat /\ q = count + (q - count)
    BY <1>3
  <2>2. QED
    BY <2>1
<1>6. q * each = count * each + more * each
  BY <1>5
<1>7. count * each \in Nat /\ more * each \in Nat
  OBVIOUS
<1>8. QED
  BY <1>1, <1>4, <1>6, <1>7

\* A mask bit comes from one line of the file, which has the very numbers of its key.
LEMMA SelectedOnce ==
  ASSUME NEW text \in Seq(StreamLine), NEW key, StreamEnabled(LoadStreamConfig(text), key)
  PROVE  Cardinality({i \in DOMAIN text : text[i].kind = "tuple" /\ text[i].key = key}) = 1
<1> DEFINE lines == {i \in DOMAIN text : text[i].kind # "comment"}
           bit == [i \in lines |-> IF text[i].kind = "tuple"
                                     THEN UNION {StreamBit(k) : k \in ParseTuple(text[i].key)}
                                     ELSE {}]
           once == \A i \in lines : bit[i] # {} /\ \A j \in lines \ {i} : bit[i] # bit[j]
           selects == {i \in DOMAIN text : text[i].kind = "tuple" /\ text[i].key = key}
<1>1. LoadStreamConfig(text) = IF once THEN UNION {bit[i] : i \in lines} ELSE {}
  BY DEF LoadStreamConfig
<1>2. PICK b \in StreamBit(key) : b \in LoadStreamConfig(text)
  BY DEF StreamEnabled
<1>3. once /\ b \in UNION {bit[i] : i \in lines}
  <2> HIDE DEF once, bit, lines
  <2>1. QED
    BY <1>1, <1>2
<1>4. PICK line \in lines : b \in bit[line]
  <2> HIDE DEF once, bit, lines
  <2>1. QED
    BY <1>3
<1>5. /\ text[line].kind = "tuple"
      /\ \E k \in ParseTuple(text[line].key) : b \in StreamBit(k)
  BY <1>4
<1>6. b \in StreamBit(text[line].key)
  BY <1>5 DEF ParseTuple
<1>7. text[line].key = key
  BY <1>2, <1>6 DEF StreamBit
<1>8. line \in selects
  BY <1>5, <1>7
<1>9. ASSUME NEW other \in selects PROVE other = line
  <2>1. other \in lines /\ text[other].kind = "tuple" /\ text[other].key = key
    BY <1>9
  <2>2. bit[other] = bit[line]
    BY <1>5, <1>7, <2>1
  <2>3. QED
    <3> HIDE DEF bit, lines
    <3>1. QED
      BY <1>3, <2>1, <2>2
<1>10. selects = {line}
  <2> HIDE DEF selects
  <2>1. QED
    BY <1>8, <1>9
<1>11. QED
  BY <1>10, FS_Singleton

\* The first check that fails decides; a message that is accepted fails none.
LEMMA FirstFailure ==
  ASSUME NEW c, NEW h
  PROVE  /\ CheckMessage(c, h) = "Accepted" =>
              /\ StreamEnabled(c.enabled_streams, h.key)
              /\ ~(h.body > SlotBytes(c, ClassifyMessage(h.key)))
              /\ ~(h.body < FixedBytes[ClassifyMessage(h.key)])
         /\ CheckMessage(c, h) = "BodyTooLarge" => h.body > SlotBytes(c, ClassifyMessage(h.key))
<1>1. PICK checks : checks = AdmissionChecks(c, h)
  OBVIOUS
<1>2. PICK failed : failed = {i \in DOMAIN checks : checks[i].fails}
  OBVIOUS
<1>3. /\ DOMAIN checks = 1..9
      /\ checks[6].fails <=> ~StreamEnabled(c.enabled_streams, h.key)
      /\ checks[7].fails <=> h.body > SlotBytes(c, ClassifyMessage(h.key))
      /\ checks[8].fails <=> h.body < FixedBytes[ClassifyMessage(h.key)]
  <2>1. DOMAIN checks = 1..9
    BY <1>1 DEF AdmissionChecks
  <2>2. AdmissionChecks(c, h)[6].fails <=> ~StreamEnabled(c.enabled_streams, h.key)
    BY DEF AdmissionChecks
  <2>3. AdmissionChecks(c, h)[7].fails <=> h.body > SlotBytes(c, ClassifyMessage(h.key))
    BY DEF AdmissionChecks
  <2>4. AdmissionChecks(c, h)[8].fails <=> h.body < FixedBytes[ClassifyMessage(h.key)]
    BY DEF AdmissionChecks
  <2>5. QED
    BY <1>1, <2>1, <2>2, <2>3, <2>4
<1>4. \A i \in 1..9 : /\ checks[i].result # "Accepted"
                      /\ checks[i].result = "BodyTooLarge" => i = 7
  BY <1>1 DEF AdmissionChecks
<1>5. CheckMessage(c, h) = IF failed = {} THEN "Accepted" ELSE checks[Min(failed)].result
  BY <1>1, <1>2, Zenon DEF CheckMessage
<1>6. CASE failed = {}
  <2>1. \A i \in 1..9 : ~checks[i].fails
    BY <1>2, <1>3, <1>6
  <2>2. CheckMessage(c, h) = "Accepted"
    BY <1>5, <1>6
  <2>3. QED
    BY <1>3, <2>1, <2>2
<1>7. CASE failed # {}
  <2>1. failed \in SUBSET Nat
    BY <1>2, <1>3
  <2>2. Min(failed) \in failed
    BY <1>7, <2>1, Least
  <2>3. PICK first \in 1..9 : first = Min(failed) /\ checks[first].fails
    BY <1>2, <1>3, <2>2
  <2>4. CheckMessage(c, h) = checks[first].result
    BY <1>5, <1>7, <2>3
  <2>5. QED
    BY <1>3, <1>4, <2>3, <2>4
<1>8. QED
  BY <1>6, <1>7

\* The smallest slots hold the fixed bytes of every family.
LEMMA SlotsHold ==
  ASSUME NEW c, NEW key, c.maximum_tick_body_bytes \in Nat, c.maximum_snapshot_body_bytes \in Nat,
         c.maximum_tick_body_bytes >= 70, c.maximum_snapshot_body_bytes >= 248
  PROVE  /\ FixedBytes[ClassifyMessage(key)] \in Nat /\ SlotBytes(c, ClassifyMessage(key)) \in Nat
         /\ FixedBytes[ClassifyMessage(key)] <= SlotBytes(c, ClassifyMessage(key))
<1>1. PICK family : family = ClassifyMessage(key)
  OBVIOUS
<1>2. family \in {"ShanghaiSnapshot", "ShanghaiTick", "ShenzhenSnapshot", "ShenzhenOrder",
                 "ShenzhenTransaction", "Unsupported"}
  BY <1>1 DEF ClassifyMessage
<1>3. CASE family \in TickClasses
  <2>1. SlotBytes(c, family) = c.maximum_tick_body_bytes
    BY <1>3 DEF SlotBytes
  <2>2. FixedBytes[family] \in {58, 70}
    BY <1>3 DEF FixedBytes, TickClasses
  <2>3. QED
    BY <1>1, <2>1, <2>2
<1>4. CASE family \notin TickClasses
  <2>1. SlotBytes(c, family) = c.maximum_snapshot_body_bytes
    BY <1>4 DEF SlotBytes
  <2>2. FixedBytes[family] \in {0, 224, 248}
    BY <1>2, <1>4 DEF FixedBytes, TickClasses
  <2>3. QED
    BY <1>1, <2>1, <2>2
<1>5. QED
  BY <1>3, <1>4

\* What is admitted was selected and fits, and the sizes computed fit a size_t.
LEMMA AdmissionHolds ==
  ASSUME NEW text \in Seq(StreamLine), NEW base,
         Sizes \cup {"enabled_streams"} \subseteq DOMAIN base,
         \A field \in Sizes : base[field] \in Nat
  PROVE  AdmissionFits(text, base, Headers)
<1>1. PICK c : c = [base EXCEPT !.enabled_streams = LoadStreamConfig(text)]
  OBVIOUS
<1>2. c.enabled_streams = LoadStreamConfig(text)
  BY <1>1
<1>3. \A field \in Sizes : c[field] \in Nat
  BY <1>1 DEF Sizes
<1>4. /\ c.tick_decoder_lanes \in Nat /\ c.snapshot_decoder_lanes \in Nat
      /\ c.instrument_workers \in Nat /\ c.tick_slots_per_lane \in Nat
      /\ c.snapshot_slots_per_lane \in Nat /\ c.maximum_tick_body_bytes \in Nat
      /\ c.maximum_snapshot_body_bytes \in Nat /\ c.maximum_channels_per_tick_lane \in Nat
  BY <1>3 DEF Sizes
<1> SUFFICES ASSUME ValidateConfig(c)
             PROVE  AdmissionFits(text, base, Headers)
  BY <1>1, Zenon DEF AdmissionFits
<1>5. /\ c.tick_decoder_lanes > 0 /\ c.snapshot_decoder_lanes > 0 /\ c.instrument_workers > 0
      /\ c.maximum_tick_body_bytes >= 70 /\ c.maximum_snapshot_body_bytes >= 248
      /\ c.maximum_channels_per_tick_lane > 0
      /\ ~TooMany(c.tick_slots_per_lane, c.maximum_tick_body_bytes)
      /\ ~TooMany(c.snapshot_slots_per_lane, c.maximum_snapshot_body_bytes)
      /\ ~TooMany(c.tick_decoder_lanes, c.instrument_workers)
      /\ ~TooMany(c.snapshot_decoder_lanes, c.instrument_workers)
      /\ ~TooMany(c.tick_decoder_lanes, c.maximum_channels_per_tick_lane)
      /\ c.maximum_channels_per_tick_lane <= SizeMax \div 2
  BY DEF ValidateConfig
<1>6. /\ c.maximum_tick_body_bytes \in Nat \ {0} /\ c.maximum_snapshot_body_bytes \in Nat \ {0}
      /\ c.instrument_workers \in Nat \ {0} /\ c.maximum_channels_per_tick_lane \in Nat \ {0}
  BY <1>4, <1>5
<1>7. c.tick_slots_per_lane * c.maximum_tick_body_bytes <= SizeMax
  BY <1>4, <1>5, <1>6, ProductFits
<1>8. c.snapshot_slots_per_lane * c.maximum_snapshot_body_bytes <= SizeMax
  BY <1>4, <1>5, <1>6, ProductFits
<1>9. \A lanes \in {c.tick_decoder_lanes, c.snapshot_decoder_lanes} :
        lanes * c.instrument_workers <= SizeMax
  BY <1>4, <1>5, <1>6, ProductFits
<1>10. c.tick_decoder_lanes * c.maximum_channels_per_tick_lane <= SizeMax
  BY <1>4, <1>5, <1>6, ProductFits
<1>11. 2 * c.maximum_channels_per_tick_lane <= SizeMax
  BY <1>4, <1>5, MessagesAssumption
<1>12. ASSUME NEW h \in Headers
       PROVE  /\ CheckMessage(c, h) = "Accepted" =>
                   /\ Cardinality({i \in DOMAIN text : text[i].kind = "tuple"
                                                         /\ text[i].key = h.key}) = 1
                   /\ FixedBytes[ClassifyMessage(h.key)] <= h.body
                   /\ h.body <= SlotBytes(c, ClassifyMessage(h.key))
              /\ CheckMessage(c, h) = "BodyTooLarge" => h.body > FixedBytes[ClassifyMessage(h.key)]
  <2>1. h.body \in Nat
    BY InputsAssumption DEF Header
  <2>2. /\ FixedBytes[ClassifyMessage(h.key)] \in Nat
        /\ SlotBytes(c, ClassifyMessage(h.key)) \in Nat
        /\ FixedBytes[ClassifyMessage(h.key)] <= SlotBytes(c, ClassifyMessage(h.key))
    BY <1>4, <1>5, SlotsHold
  <2>3. CheckMessage(c, h) = "Accepted" =>
          /\ StreamEnabled(c.enabled_streams, h.key)
          /\ ~(h.body > SlotBytes(c, ClassifyMessage(h.key)))
          /\ ~(h.body < FixedBytes[ClassifyMessage(h.key)])
    BY FirstFailure
  <2>4. CheckMessage(c, h) = "BodyTooLarge" => h.body > SlotBytes(c, ClassifyMessage(h.key))
    BY FirstFailure
  <2>5. CheckMessage(c, h) = "Accepted" =>
          Cardinality({i \in DOMAIN text : text[i].kind = "tuple" /\ text[i].key = h.key}) = 1
    BY <1>2, <2>3, SelectedOnce
  <2>6. QED
    BY <2>1, <2>2, <2>3, <2>4, <2>5
<1>13. QED
  BY <1>1, <1>7, <1>8, <1>9, <1>10, <1>11, <1>12, Zenon DEF AdmissionFits

-----------------------------------------------------------------------------
(***************************************************************************)
(* Every input that is examined.                                           *)
(***************************************************************************)
\* The inputs are the ones the constants give.
InputInv ==
  \/ input = NoInput
  \/ \E r \in RawTicks : input = [kind |-> "tick", raw |-> r]
  \/ \E f \in ShanghaiScalars \cup ShenzhenScalars, v \in RawValues :
       input = [kind |-> "scalar", field |-> f, raw |-> v]
  \/ \E s \in Setups :
       input = [kind |-> "admission", file |-> s.file, configuration |-> s.configuration]

LEMMA InputInductive == InputSpec => []InputInv
<1>1. InputInit => InputInv
  BY DEF InputInit, InputInv
<1>2. InputInv /\ [InputNext]_input => InputInv'
  BY DEF InputNext, Examine, Examined, InputInv
<1>3. QED
  BY <1>1, <1>2, PTL DEF InputSpec

\* What is known of an input of each kind.
LEMMA InputKinds ==
  ASSUME InputInv
  PROVE  /\ input.kind = "tick" => input.raw \in RawTick /\ KnownTexts(input.raw)
         /\ input.kind = "scalar" =>
              input.field \in ShanghaiScalars \cup ShenzhenScalars /\ input.raw \in Int
         /\ input.kind = "admission" =>
              \E s \in Setups : input.file = s.file /\ input.configuration = s.configuration
<1>1. CASE input = NoInput
  BY <1>1 DEF NoInput
<1>2. CASE \E r \in RawTicks : input = [kind |-> "tick", raw |-> r]
  <2>1. PICK r \in RawTicks : input = [kind |-> "tick", raw |-> r]
    BY <1>2
  <2>2. r \in RawTick /\ KnownTexts(r)
    BY InputsAssumption
  <2>3. input.kind = "tick" /\ input.raw = r
    BY <2>1
  <2>4. QED
    BY <2>2, <2>3
<1>3. CASE \E f \in ShanghaiScalars \cup ShenzhenScalars, v \in RawValues :
             input = [kind |-> "scalar", field |-> f, raw |-> v]
  <2>1. PICK f \in ShanghaiScalars \cup ShenzhenScalars, v \in RawValues :
          input = [kind |-> "scalar", field |-> f, raw |-> v]
    BY <1>3
  <2>2. input.kind = "scalar" /\ input.field = f /\ input.raw = v
    BY <2>1
  <2>3. v \in Int
    BY InputsAssumption
  <2>4. QED
    BY <2>2, <2>3
<1>4. CASE \E s \in Setups :
             input = [kind |-> "admission", file |-> s.file, configuration |-> s.configuration]
  <2>1. PICK s \in Setups :
          input = [kind |-> "admission", file |-> s.file, configuration |-> s.configuration]
    BY <1>4
  <2>2. /\ input.kind = "admission" /\ input.file = s.file
        /\ input.configuration = s.configuration
    BY <2>1
  <2>3. QED
    BY <2>2
<1>5. QED
  BY <1>1, <1>2, <1>3, <1>4 DEF InputInv

\* For every width, every raw tick and every raw scalar: no canonical value says what
\* its source did not, and what is left out is flagged (DecodeTick, DecodeSnapshot).
THEOREM NothingGuessedHolds == InputSpec => []NothingGuessed
<1>1. InputInv => NothingGuessed
  BY InputKinds, TickHolds, ScalarHolds DEF NothingGuessed
<1>2. QED
  BY <1>1, InputInductive, PTL

\* For every raw tick, admission, decoder and failure descriptor place it alike.
THEOREM PositionsAgreeHolds == InputSpec => []PositionsAgree
<1>1. InputInv => PositionsAgree
  BY InputKinds, PositionAgreesHolds DEF PositionsAgree
<1>2. QED
  BY <1>1, InputInductive, PTL

\* For every stream file, configuration and message: what is admitted was selected by
\* exactly one line and fits its slot, and no product of sizes wraps.
THEOREM AdmittedFitsHolds == InputSpec => []AdmittedFits
<1>1. InputInv => AdmittedFits
  <2> SUFFICES ASSUME InputInv, input.kind = "admission"
               PROVE  AdmissionFits(input.file, input.configuration, Headers)
    BY DEF AdmittedFits
  <2>1. PICK s \in Setups : input.file = s.file /\ input.configuration = s.configuration
    BY InputKinds
  <2>2. /\ s.file \in Seq(StreamLine)
        /\ Sizes \cup {"enabled_streams"} \subseteq DOMAIN s.configuration
        /\ \A field \in Sizes : s.configuration[field] \in Nat
    BY InputsAssumption
  <2>3. AdmissionFits(s.file, s.configuration, Headers)
    BY <2>2, AdmissionHolds
  <2>4. QED
    BY <2>1, <2>3
<1>2. QED
  BY <1>1, InputInductive, PTL

-----------------------------------------------------------------------------
(***************************************************************************)
(* A table of n cells, probed from a home cell.                            *)
(***************************************************************************)
Cells(n) == 0..(n - 1)

\* The cells a probe from a home cell passes before it reaches a cell.
Passed(n, home, cell) == IF cell >= home THEN cell - home ELSE cell + n - home

\* A cell is a number of cells from the home cell, each cell another, and it is the
\* masked difference of the code.
LEMMA PassedIs ==
  ASSUME NEW n \in Nat \ {0}, NEW home \in Cells(n), NEW p \in Cells(n), NEW q \in Cells(n)
  PROVE  /\ Passed(n, home, q) \in Nat
         /\ Passed(n, home, p) = Passed(n, home, q) => p = q
         /\ (n + q - home) % n = Passed(n, home, q)
<1>0. home \in 0..(n - 1) /\ p \in 0..(n - 1) /\ q \in 0..(n - 1)
  BY DEF Cells
<1>1. CASE q >= home
  <2>1. PICK d \in 0..(n - 1) : d = q - home
    BY <1>0, <1>1
  <2>2. (n + d) % n = d /\ n + q - home = n + d
    BY <1>0, <2>1
  <2>3. QED
    BY <1>0, <1>1, <2>1, <2>2 DEF Passed
<1>2. CASE q < home
  <2>1. PICK d \in 0..(n - 1) : d = n + q - home
    BY <1>0, <1>2
  <2>2. d % n = d
    BY <2>1
  <2>3. QED
    BY <1>0, <1>2, <2>1, <2>2 DEF Passed
<1>3. QED
  BY <1>0, <1>1, <1>2

\* The distance of OpenAddressing is the number of cells passed.
LEMMA DistanceIs ==
  ASSUME NEW n \in Nat \ {0}, NEW t \in [Cells(n) -> Nat], NEW home \in Cells(n),
         NEW cell \in Cells(n)
  PROVE  ProbeDistance(t, home, cell) = Passed(n, home, cell)
<1>1. DOMAIN t = 0..(n - 1) /\ home \in 0..(n - 1) /\ cell \in 0..(n - 1)
  BY DEF Cells
<1>2. Cardinality(0..(n - 1)) = n
  BY FS_Interval
<1>3. ProbeDistance(t, home, cell) = (n + cell - home) % n
  BY <1>1, <1>2 DEF ProbeDistance
<1>4. QED
  BY <1>3, PassedIs

\* A probe ends in the nearest cell that is free or holds an entry looked for, if
\* there is one.
LEMMA ProbeEnds ==
  ASSUME NEW n \in Nat \ {0}, NEW t \in [Cells(n) -> Nat], NEW home \in Cells(n), NEW hits,
         \E free \in Cells(n) : t[free] = 0,
         NEW cell, cell = Probe(t, home, hits)
  PROVE  /\ cell \in Cells(n) /\ t[cell] \in {0} \cup hits
         /\ \A other \in Cells(n) : t[other] \in {0} \cup hits /\ other # cell =>
              Passed(n, home, cell) < Passed(n, home, other)
<1> DEFINE stops == {c \in Cells(n) : t[c] \in {0} \cup hits}
           distances == {Passed(n, home, c) : c \in stops}
           Nearest(c) == \A other \in stops : ProbeDistance(t, home, c)
                                                <= ProbeDistance(t, home, other)
<1>1. Stops(t, home, hits) = stops
  BY DEF Stops
<1>2. stops # {}
  OBVIOUS
<1>3. cell = CHOOSE c \in stops : Nearest(c)
  BY <1>1, <1>2 DEF Probe
<1>4. \E c \in stops : Nearest(c)
  <2>1. distances \in SUBSET Nat /\ distances # {}
    BY <1>2, PassedIs
  <2>2. Min(distances) \in distances /\ \A d \in distances : Min(distances) <= d
    BY <2>1, Least
  <2>3. PICK c \in stops : Passed(n, home, c) = Min(distances)
    BY <2>2
  <2>4. ASSUME NEW other \in stops PROVE Passed(n, home, c) <= Passed(n, home, other)
    BY <2>2, <2>3
  <2>5. QED
    BY <2>4, DistanceIs
<1>5. cell \in stops /\ Nearest(cell)
  BY <1>3, <1>4
<1>6. ASSUME NEW other \in Cells(n), t[other] \in {0} \cup hits, other # cell
      PROVE  Passed(n, home, cell) < Passed(n, home, other)
  <2>1. Passed(n, home, cell) <= Passed(n, home, other)
    BY <1>5, <1>6, DistanceIs
  <2>2. Passed(n, home, cell) # Passed(n, home, other)
    BY <1>5, <1>6, PassedIs
  <2>3. Passed(n, home, cell) \in Nat /\ Passed(n, home, other) \in Nat
    BY <1>5, <1>6, PassedIs
  <2>4. QED
    BY <2>1, <2>2, <2>3
<1>7. QED
  BY <1>5, <1>6

\* The home cell of an identity in a table of n cells.
HomeOf(n, h, identity) == h[identity] % n

LEMMA HomeIs ==
  ASSUME NEW n \in Nat \ {0}, NEW t \in [Cells(n) -> Nat], NEW h \in Hashes,
         NEW identity \in DOMAIN h
  PROVE  Home(t, h, identity) = HomeOf(n, h, identity) /\ HomeOf(n, h, identity) \in Cells(n)
<1>1. DOMAIN t = 0..(n - 1) /\ Cardinality(0..(n - 1)) = n
  BY FS_Interval DEF Cells
<1>2. h[identity] \in Nat
  BY CatalogAssumption
<1>3. h[identity] % n \in 0..(n - 1)
  BY <1>2
<1>4. QED
  BY <1>1, <1>3 DEF Home, HomeOf, Cells

\* Every entry is in the table, one per identity, and between the home cell of its
\* identity and its own there is no free cell: a probe does not end before it.
TableOK(n, h, entries, t) ==
  /\ \A i \in 1..Len(entries) : \E cell \in Cells(n) : t[cell] = i
  /\ \A cell \in Cells(n) : t[cell] \in 0..Len(entries)
  /\ \A cell, other \in Cells(n) :
       t[cell] # 0
       /\ Passed(n, HomeOf(n, h, Identity(entries[t[cell]])), other)
            < Passed(n, HomeOf(n, h, Identity(entries[t[cell]])), cell)
         => t[other] # 0
  /\ \A i, j \in 1..Len(entries) : Identity(entries[i]) = Identity(entries[j]) => i = j

\* A probe finds the entry of an identity, or there is none and it ends in a free
\* cell, before every other.
LEMMA ProbeFinds ==
  ASSUME NEW n \in Nat \ {0}, NEW h \in Hashes, NEW entries \in Seq(Row),
         NEW t \in [Cells(n) -> Nat], TableOK(n, h, entries, t),
         \E free \in Cells(n) : t[free] = 0,
         NEW identity \in DOMAIN h, NEW cell,
         cell = Probe(t, Home(t, h, identity), EntriesOf(entries, identity))
  PROVE  /\ cell \in Cells(n)
         /\ t[cell] # 0 => t[cell] \in 1..Len(entries) /\ Identity(entries[t[cell]]) = identity
         /\ t[cell] = 0 => \A i \in 1..Len(entries) : Identity(entries[i]) # identity
         /\ \A other \in Cells(n) : t[other] = 0 /\ other # cell =>
              Passed(n, HomeOf(n, h, identity), cell) < Passed(n, HomeOf(n, h, identity), other)
<1>0. PICK hits : hits = EntriesOf(entries, identity)
  OBVIOUS
<1>1. PICK home \in Cells(n) : home = HomeOf(n, h, identity) /\ home = Home(t, h, identity)
  BY HomeIs
<1>2. /\ Len(entries) \in Nat /\ DOMAIN entries = 1..Len(entries)
      /\ \A i \in 1..Len(entries) : i \in hits <=> Identity(entries[i]) = identity
      /\ hits \subseteq 1..Len(entries)
  BY <1>0 DEF EntriesOf
<1>3. /\ cell \in Cells(n) /\ t[cell] \in {0} \cup hits
      /\ \A other \in Cells(n) : t[other] \in {0} \cup hits /\ other # cell =>
           Passed(n, home, cell) < Passed(n, home, other)
  <2>1. cell = Probe(t, home, hits)
    BY <1>0, <1>1
  <2>2. QED
    BY <2>1, ProbeEnds
<1>4. t[cell] # 0 => t[cell] \in 1..Len(entries) /\ Identity(entries[t[cell]]) = identity
  BY <1>2, <1>3
<1>5. ASSUME t[cell] = 0, NEW i \in 1..Len(entries), Identity(entries[i]) = identity PROVE FALSE
  <2>1. PICK c \in Cells(n) : t[c] = i
    BY DEF TableOK
  <2>2. c # cell /\ i \in hits /\ t[c] # 0
    BY <1>2, <1>5, <2>1
  <2>3. Passed(n, home, cell) < Passed(n, home, c)
    BY <1>3, <2>1, <2>2
  <2>4. home = HomeOf(n, h, Identity(entries[t[c]]))
    BY <1>1, <1>5, <2>1
  <2>5. t[cell] # 0
    BY <1>3, <2>2, <2>3, <2>4 DEF TableOK
  <2>6. QED
    BY <1>5, <2>5
<1>6. QED
  BY <1>1, <1>3, <1>4, <1>5

\* A new entry goes where later probes for it end.
LEMMA ProbePlaces ==
  ASSUME NEW n \in Nat \ {0}, NEW h \in Hashes, NEW entries \in Seq(Row),
         NEW t \in [Cells(n) -> Nat], TableOK(n, h, entries, t),
         \E free \in Cells(n) : t[free] = 0,
         NEW new \in Row, Identity(new) \in DOMAIN h, NEW cell,
         cell = Probe(t, Home(t, h, Identity(new)), EntriesOf(entries, Identity(new))),
         t[cell] = 0
  PROVE  TableOK(n, h, Append(entries, new), [t EXCEPT ![cell] = Len(entries) + 1])
<1>1. PICK identity \in DOMAIN h : identity = Identity(new)
  OBVIOUS
<1>2. PICK home \in Cells(n) : home = HomeOf(n, h, identity)
  BY HomeIs
<1>3. /\ cell \in Cells(n)
      /\ \A i \in 1..Len(entries) : Identity(entries[i]) # identity
      /\ \A other \in Cells(n) : t[other] = 0 /\ other # cell =>
           Passed(n, home, cell) < Passed(n, home, other)
  BY <1>1, <1>2, ProbeFinds
<1>4. Len(entries) \in Nat
  OBVIOUS
<1>5. PICK k \in Nat : k = Len(entries)
  BY <1>4
<1>6. PICK more : more = Append(entries, new)
  OBVIOUS
<1>7. PICK u : u = [t EXCEPT ![cell] = k + 1]
  OBVIOUS
<1>8. /\ Len(more) = k + 1 /\ more[k + 1] = new
      /\ \A i \in 1..k : more[i] = entries[i]
  BY <1>5, <1>6
<1>9. u[cell] = k + 1 /\ \A c \in Cells(n) : c # cell => u[c] = t[c]
  BY <1>3, <1>7
<1>10. \A c \in Cells(n) : t[c] \in Nat /\ t[c] <= k
  BY <1>5 DEF TableOK
<1>11. \A i \in 1..(k + 1) : \E c \in Cells(n) : u[c] = i
  <2> SUFFICES ASSUME NEW i \in 1..(k + 1), i # k + 1 PROVE \E c \in Cells(n) : u[c] = i
    BY <1>3, <1>9
  <2>1. PICK c \in Cells(n) : t[c] = i
    BY <1>5 DEF TableOK
  <2>2. c # cell
    BY <2>1
  <2>3. QED
    BY <1>9, <2>1, <2>2
<1>12. ASSUME NEW c \in Cells(n) PROVE u[c] \in 0..(k + 1)
  <2>1. CASE c = cell
    BY <1>9, <2>1
  <2>2. CASE c # cell
    <3>1. u[c] = t[c] /\ t[c] \in Nat /\ t[c] <= k
      BY <1>9, <1>10, <2>2
    <3>2. QED
      BY <3>1
  <2>3. QED
    BY <2>1, <2>2
<1>13. ASSUME NEW c \in Cells(n), NEW other \in Cells(n), u[c] # 0,
             Passed(n, HomeOf(n, h, Identity(more[u[c]])), other)
               < Passed(n, HomeOf(n, h, Identity(more[u[c]])), c)
      PROVE  u[other] # 0
  <2>1. CASE other = cell
    BY <1>9, <2>1
  <2>2. CASE other # cell /\ c # cell
    <3>0. u[c] = t[c] /\ u[other] = t[other] /\ t[c] \in Nat /\ t[c] <= k
      BY <1>9, <1>10, <2>2
    <3>1. u[c] = t[c] /\ u[other] = t[other] /\ t[c] \in 1..k
      BY <1>13, <3>0
    <3>2. more[u[c]] = entries[t[c]]
      BY <1>8, <3>1
    <3>3. QED
      BY <1>13, <3>1, <3>2 DEF TableOK
  <2>3. CASE other # cell /\ c = cell
    <3>1. HomeOf(n, h, Identity(more[u[c]])) = home
      BY <1>1, <1>2, <1>8, <1>9, <2>3
    <3>2. Passed(n, home, other) < Passed(n, home, cell)
      BY <1>13, <2>3, <3>1
    <3>3. Passed(n, home, other) \in Nat /\ Passed(n, home, cell) \in Nat
      BY <1>3, PassedIs
    <3>4. t[other] # 0
      BY <1>3, <2>3, <3>2, <3>3
    <3>5. QED
      BY <1>9, <2>3, <3>4
  <2>4. QED
    BY <2>1, <2>2, <2>3
<1>14. ASSUME NEW i \in 1..(k + 1), NEW j \in 1..(k + 1),
              Identity(more[i]) = Identity(more[j])
       PROVE  i = j
  <2>1. \A m \in 1..k : Identity(more[m]) # identity
    BY <1>3, <1>5, <1>8
  <2>2. CASE i \in 1..k /\ j \in 1..k
    BY <1>5, <1>8, <1>14, <2>2 DEF TableOK
  <2>3. CASE i = k + 1 \/ j = k + 1
    BY <1>1, <1>8, <1>14, <2>1, <2>3
  <2>4. QED
    BY <2>2, <2>3
<1>15. TableOK(n, h, more, u)
  BY <1>8, <1>11, <1>12, <1>13, <1>14 DEF TableOK
<1>16. QED
  BY <1>5, <1>6, <1>7, <1>15

-----------------------------------------------------------------------------
(***************************************************************************)
(* The loop of Build.                                                      *)
(***************************************************************************)
\* Cells that are free.
Free(n, t) == {cell \in Cells(n) : t[cell] = 0}

\* A catalog under construction: its entries are the first definitions, each well
\* formed and no two with the same id, and the rest of its table is free.
BuiltOK(list, h, entries, t) ==
  LET n == TableSize(Len(list))
  IN  /\ entries \in Seq(Row) /\ Len(entries) <= Len(list)
      /\ \A i \in 1..Len(entries) : entries[i] = list[i] /\ WellFormed(list[i])
      /\ \A i, j \in 1..Len(entries) : i # j => list[i].id # list[j].id
      /\ t \in [Cells(n) -> Nat] /\ TableOK(n, h, entries, t)
      /\ Cardinality(Free(n, t)) = n - Len(entries)

CatalogInv ==
  /\ file \in {"none", "schema", "other"}
  /\ catalog.built =>
       /\ definitions \in DefinitionLists /\ definitions # <<>> /\ hash \in Hashes
       /\ file # "none" =>
            file = "schema" /\ \A i \in DOMAIN definitions : RowAccepted(definitions[i])
       /\ BuiltOK(definitions, hash, catalog.entries, catalog.table)
  /\ ~catalog.built => ~Acceptable

\* The table has room for every definition.
LEMMA TableFits ==
  ASSUME NEW list \in DefinitionLists, list # <<>>
  PROVE  /\ list \in Seq(Row) /\ Len(list) \in Nat \ {0} /\ DOMAIN list = 1..Len(list)
         /\ TableSize(Len(list)) \in Nat \ {0} /\ TableSize(Len(list)) >= 2 * Len(list)
<1>1. list \in Seq(Row) /\ TableSize(Len(list)) \in Nat /\ TableSize(Len(list)) >= 2 * Len(list)
  BY CatalogAssumption
<1>2. Len(list) \in Nat \ {0} /\ DOMAIN list = 1..Len(list)
  BY <1>1, EmptySeq
<1>3. QED
  BY <1>1, <1>2

\* The free cells of a table are finitely many; one is left while there are fewer
\* entries than cells.
LEMMA FreeCell ==
  ASSUME NEW n \in Nat \ {0}, NEW t \in [Cells(n) -> Nat], NEW k \in Nat, k < n,
         Cardinality(Free(n, t)) = n - k
  PROVE  \E cell \in Cells(n) : t[cell] = 0
<1> SUFFICES ASSUME Free(n, t) = {} PROVE FALSE
  BY DEF Free
<1>1. Cardinality(Free(n, t)) = 0
  BY FS_EmptySet
<1>2. QED
  BY <1>1

\* A free cell that is taken is one less.
LEMMA TakeCell ==
  ASSUME NEW n \in Nat, NEW t, NEW u, NEW cell \in Cells(n), t[cell] = 0, u[cell] # 0,
         \A c \in Cells(n) : c # cell => u[c] = t[c]
  PROVE  Cardinality(Free(n, u)) = Cardinality(Free(n, t)) - 1
<1>1. Free(n, u) = Free(n, t) \ {cell}
  BY DEF Free
<1>2. IsFiniteSet(Free(n, t))
  <2>1. IsFiniteSet(0..(n - 1))
    BY FS_Interval
  <2>2. Free(n, t) \subseteq 0..(n - 1)
    BY DEF Free, Cells
  <2>3. QED
    BY <2>1, <2>2, FS_Subset
<1>3. cell \in Free(n, t)
  BY DEF Free
<1>4. QED
  BY <1>1, <1>2, <1>3, FS_RemoveElement

\* Build starts with an empty table.
LEMMA StartOK ==
  ASSUME NEW list \in DefinitionLists, list # <<>>, NEW h \in Hashes
  PROVE  BuiltOK(list, h, <<>>, EmptyTable(Len(list)))
<1>1. PICK n \in Nat \ {0} : n = TableSize(Len(list))
  BY TableFits
<1>2. PICK t : t = EmptyTable(Len(list))
  OBVIOUS
<1>3. t \in [Cells(n) -> Nat] /\ \A cell \in Cells(n) : t[cell] = 0
  BY <1>1, <1>2 DEF EmptyTable, Cells
<1>4. Free(n, t) = 0..(n - 1) /\ Cardinality(0..(n - 1)) = n
  <2>1. Free(n, t) = Cells(n)
    BY <1>3 DEF Free
  <2>2. Cardinality(0..(n - 1)) = n
    BY FS_Interval
  <2>3. QED
    BY <2>1, <2>2 DEF Cells
<1>5. Len(<<>>) = 0 /\ <<>> \in Seq(Row)
  OBVIOUS
<1>6. TableOK(n, h, <<>>, t)
  BY <1>3, <1>5 DEF TableOK
<1>7. 0 <= Len(list)
  BY TableFits
<1>8. QED
  BY <1>1, <1>2, <1>3, <1>4, <1>5, <1>6, <1>7 DEF BuiltOK

\* A definition whose probe does not end in a free cell repeats an identity.
LEMMA AddRefuses ==
  ASSUME NEW list \in DefinitionLists, list # <<>>, NEW h \in Hashes, NEW entries, NEW t,
         BuiltOK(list, h, entries, t), Len(entries) < Len(list),
         NEW d, d = list[Len(entries) + 1], WellFormed(d),
         NEW cell, cell = Probe(t, Home(t, h, Identity(d)), EntriesOf(entries, Identity(d)))
  PROVE  /\ cell \in DOMAIN t
         /\ t[cell] # 0 => t[cell] \in 1..Len(entries) /\ Identity(list[t[cell]]) = Identity(d)
<1>1. PICK n \in Nat \ {0} : n = TableSize(Len(list))
  BY TableFits
<1>2. /\ entries \in Seq(Row) /\ Len(entries) <= Len(list)
      /\ \A i \in 1..Len(entries) : entries[i] = list[i] /\ WellFormed(list[i])
      /\ \A i, j \in 1..Len(entries) : i # j => list[i].id # list[j].id
      /\ t \in [Cells(n) -> Nat] /\ TableOK(n, h, entries, t)
      /\ Cardinality(Free(n, t)) = n - Len(entries)
  BY <1>1 DEF BuiltOK
<1>3. PICK k \in Nat : k = Len(entries)
  BY <1>2
<1>4. k + 1 \in 1..Len(list) /\ k < n
  BY <1>1, <1>3, TableFits
<1>5. d \in Row
  BY <1>3, <1>4, TableFits
<1>6. Identity(d) \in DOMAIN h
  BY <1>3, <1>4, CatalogAssumption
<1>7. \E free \in Cells(n) : t[free] = 0
  BY <1>2, <1>3, <1>4, FreeCell
<1>8. /\ cell \in Cells(n)
      /\ t[cell] # 0 => t[cell] \in 1..k /\ Identity(entries[t[cell]]) = Identity(d)
  BY <1>2, <1>3, <1>6, <1>7, ProbeFinds
<1>9. QED
  BY <1>2, <1>3, <1>8

\* A definition that is accepted goes into the table.
LEMMA AddKeeps ==
  ASSUME NEW list \in DefinitionLists, list # <<>>, NEW h \in Hashes, NEW entries, NEW t,
         BuiltOK(list, h, entries, t), Len(entries) < Len(list),
         NEW d, d = list[Len(entries) + 1], WellFormed(d),
         NEW cell, cell = Probe(t, Home(t, h, Identity(d)), EntriesOf(entries, Identity(d))),
         t[cell] = 0, ~(\E e \in DOMAIN entries : entries[e].id = d.id)
  PROVE  BuiltOK(list, h, Append(entries, d), [t EXCEPT ![cell] = Len(entries) + 1])
<1>1. PICK n \in Nat \ {0} : n = TableSize(Len(list))
  BY TableFits
<1>2. /\ entries \in Seq(Row) /\ Len(entries) <= Len(list)
      /\ \A i \in 1..Len(entries) : entries[i] = list[i] /\ WellFormed(list[i])
      /\ \A i, j \in 1..Len(entries) : i # j => list[i].id # list[j].id
      /\ t \in [Cells(n) -> Nat] /\ TableOK(n, h, entries, t)
      /\ Cardinality(Free(n, t)) = n - Len(entries)
  BY <1>1 DEF BuiltOK
<1>3. PICK k \in Nat : k = Len(entries)
  BY <1>2
<1>4. k + 1 \in 1..Len(list) /\ k < n
  BY <1>1, <1>3, TableFits
<1>5. d \in Row
  BY <1>3, <1>4, TableFits
<1>6. Identity(d) \in DOMAIN h
  BY <1>3, <1>4, CatalogAssumption
<1>7. \E free \in Cells(n) : t[free] = 0
  BY <1>2, <1>3, <1>4, FreeCell
<1>8. cell \in Cells(n)
  BY <1>2, AddRefuses
<1>9. PICK more : more = Append(entries, d)
  OBVIOUS
<1>10. PICK u : u = [t EXCEPT ![cell] = k + 1]
  OBVIOUS
<1>11. TableOK(n, h, more, u)
  BY <1>2, <1>3, <1>5, <1>6, <1>7, <1>9, <1>10, ProbePlaces
<1>12. u \in [Cells(n) -> Nat] /\ Cardinality(Free(n, u)) = n - (k + 1)
  <2>1. t \in [Cells(n) -> Nat] /\ cell \in Cells(n) /\ t[cell] = 0
    BY <1>2, <1>8
  <2>2. /\ u \in [Cells(n) -> Nat] /\ u[cell] # 0
        /\ \A c \in Cells(n) : c # cell => u[c] = t[c]
    BY <1>10, <2>1
  <2>3. Cardinality(Free(n, t)) = n - k
    BY <1>2, <1>3
  <2>4. Cardinality(Free(n, u)) = Cardinality(Free(n, t)) - 1
    BY <2>1, <2>2, TakeCell
  <2>5. QED
    BY <2>2, <2>3, <2>4
<1>13. /\ more \in Seq(Row) /\ Len(more) = k + 1 /\ more[k + 1] = d
       /\ \A i \in 1..k : more[i] = entries[i]
  BY <1>2, <1>3, <1>5, <1>9
<1>14. \A i \in 1..(k + 1) : i \in 1..k \/ i = k + 1
  OBVIOUS
<1>15. \A i \in 1..(k + 1) : more[i] = list[i] /\ WellFormed(list[i])
  BY <1>2, <1>3, <1>13, <1>14
<1>16. \A i \in 1..k : list[i].id # list[k + 1].id
  BY <1>2, <1>3
<1>17. \A i, j \in 1..(k + 1) : i # j => list[i].id # list[j].id
  BY <1>2, <1>3, <1>14, <1>16
<1>18. k + 1 <= Len(list)
  BY <1>4
<1>19. BuiltOK(list, h, more, u)
  BY <1>1, <1>11, <1>12, <1>13, <1>15, <1>17, <1>18 DEF BuiltOK
<1>20. QED
  BY <1>3, <1>9, <1>10, <1>19

\* BeginBuild leaves a list that can be built, or refuses an empty one.
LEMMA BeginBuildKeeps ==
  ASSUME NEW list \in DefinitionLists, NEW h \in Hashes,
         definitions' = list, hash' = h, BeginBuild(list),
         file' # "none" =>
           file' = "schema" /\ \A i \in DOMAIN list : RowAccepted(list[i]),
         file' \in {"none", "schema", "other"}
  PROVE  CatalogInv'
<1>1. CASE list = <<>>
  <2>1. catalog' = Refused
    BY <1>1 DEF BeginBuild
  <2>2. ~catalog'.built
    BY <2>1 DEF Refused
  <2>3. ~Acceptable'
    BY <1>1 DEF Acceptable
  <2>4. QED
    BY <2>2, <2>3 DEF CatalogInv
<1>2. CASE list # <<>>
  <2>1. catalog' = [built |-> TRUE, entries |-> <<>>, table |-> EmptyTable(Len(list))]
    BY <1>2 DEF BeginBuild
  <2>2. catalog'.built /\ catalog'.entries = <<>> /\ catalog'.table = EmptyTable(Len(list))
    BY <2>1
  <2>3. BuiltOK(list, h, <<>>, EmptyTable(Len(list)))
    BY <1>2, StartOK
  <2>4. BuiltOK(definitions', hash', catalog'.entries, catalog'.table)
    BY <2>2, <2>3
  <2>5. QED
    BY <1>2, <2>2, <2>4 DEF CatalogInv
<1>3. QED
  BY <1>1, <1>2

\* A step of the loop.
LEMMA AddDefinitionKeeps ==
  ASSUME CatalogInv, AddDefinition
  PROVE  CatalogInv'
<1>1. /\ catalog.built /\ Len(catalog.entries) # Len(definitions)
      /\ file' = file /\ definitions' = definitions /\ hash' = hash
  BY DEF AddDefinition, Finished
<1>2. /\ definitions \in DefinitionLists /\ definitions # <<>> /\ hash \in Hashes
      /\ file # "none" =>
           file = "schema" /\ \A i \in DOMAIN definitions : RowAccepted(definitions[i])
      /\ BuiltOK(definitions, hash, catalog.entries, catalog.table)
      /\ file \in {"none", "schema", "other"}
  BY <1>1 DEF CatalogInv
<1>3. PICK k \in Nat : k = Len(catalog.entries)
  BY <1>2 DEF BuiltOK
<1>4. PICK d : d = definitions[k + 1]
  OBVIOUS
<1>5. PICK cell : cell = Probe(catalog.table, Home(catalog.table, hash, Identity(d)),
                               EntriesOf(catalog.entries, Identity(d)))
  OBVIOUS
<1>6. DOMAIN definitions = 1..Len(definitions) /\ k + 1 \in 1..Len(definitions)
  <2>1. DOMAIN definitions = 1..Len(definitions) /\ Len(definitions) \in Nat
    BY <1>2, TableFits
  <2>2. k <= Len(definitions)
    BY <1>2, <1>3 DEF BuiltOK
  <2>3. QED
    BY <1>1, <1>3, <2>1, <2>2
<1>7. IF ~WellFormed(d) \/ (\E e \in DOMAIN catalog.entries : catalog.entries[e].id = d.id)
         \/ catalog.table[cell] # 0
        THEN catalog' = Refused
        ELSE catalog' = [built |-> TRUE, entries |-> Append(catalog.entries, d),
                         table |-> [catalog.table EXCEPT ![cell] = k + 1]]
  BY <1>3, <1>4, <1>5 DEF AddDefinition
<1>8. /\ DOMAIN catalog.entries = 1..k
      /\ \A i \in 1..k : i \in DOMAIN definitions /\ catalog.entries[i] = definitions[i]
  <2>1. DOMAIN catalog.entries = 1..k /\ \A i \in 1..k : catalog.entries[i] = definitions[i]
    BY <1>2, <1>3 DEF BuiltOK
  <2>2. QED
    BY <1>6, <2>1
<1>9. ASSUME ~Acceptable, catalog' = Refused PROVE CatalogInv'
  <2>1. ~catalog'.built
    BY <1>9 DEF Refused
  <2>2. ~Acceptable'
    BY <1>1, <1>9 DEF Acceptable
  <2>3. QED
    BY <1>1, <1>2, <2>1, <2>2 DEF CatalogInv
<1>10. CASE ~WellFormed(d)
  <2>1. ~Acceptable
    BY <1>4, <1>6, <1>10 DEF Acceptable
  <2>2. QED
    BY <1>7, <1>9, <1>10, <2>1
<1>11. CASE \E e \in DOMAIN catalog.entries : catalog.entries[e].id = d.id
  <2>1. PICK e \in 1..k : definitions[e].id = definitions[k + 1].id
    BY <1>4, <1>8, <1>11
  <2>2. e \in DOMAIN definitions /\ k + 1 \in DOMAIN definitions /\ e # k + 1
    BY <1>6, <1>8
  <2>3. ~Acceptable
    BY <2>1, <2>2 DEF Acceptable
  <2>4. QED
    BY <1>7, <1>9, <1>11, <2>3
<1>12. CASE WellFormed(d) /\ catalog.table[cell] # 0
  <2>1. Len(catalog.entries) < Len(definitions) /\ d = definitions[Len(catalog.entries) + 1]
    BY <1>2, <1>3, <1>4, <1>6, TableFits
  <2>2. PICK i \in 1..k : Identity(definitions[i]) = Identity(definitions[k + 1])
    <3>1. /\ catalog.table[cell] \in 1..Len(catalog.entries)
          /\ Identity(definitions[catalog.table[cell]]) = Identity(d)
      BY <1>2, <1>5, <1>12, <2>1, AddRefuses
    <3>2. QED
      BY <1>3, <1>4, <3>1
  <2>3. i \in DOMAIN definitions /\ k + 1 \in DOMAIN definitions /\ i # k + 1
    BY <1>6, <1>8
  <2>4. ~Acceptable
    BY <2>2, <2>3 DEF Acceptable
  <2>5. QED
    BY <1>7, <1>9, <1>12, <2>4
<1>13. CASE /\ WellFormed(d) /\ catalog.table[cell] = 0
            /\ ~(\E e \in DOMAIN catalog.entries : catalog.entries[e].id = d.id)
  <2>1. BuiltOK(definitions, hash, Append(catalog.entries, d),
                [catalog.table EXCEPT ![cell] = k + 1])
    BY <1>2, <1>3, <1>4, <1>5, <1>6, <1>13, AddKeeps
  <2>2. catalog' = [built |-> TRUE, entries |-> Append(catalog.entries, d),
                    table |-> [catalog.table EXCEPT ![cell] = k + 1]]
    BY <1>7, <1>13
  <2>3. /\ catalog'.built /\ catalog'.entries = Append(catalog.entries, d)
        /\ catalog'.table = [catalog.table EXCEPT ![cell] = k + 1]
    BY <2>2
  <2>4. BuiltOK(definitions', hash', catalog'.entries, catalog'.table)
    BY <1>1, <2>1, <2>3
  <2>5. QED
    BY <1>1, <1>2, <2>3, <2>4 DEF CatalogInv
<1>14. QED
  BY <1>10, <1>11, <1>12, <1>13

LEMMA CatalogInductive == CatalogSpec => []CatalogInv
<1>1. CatalogInit => CatalogInv
  BY DEF CatalogInit, CatalogInv, Refused, Acceptable
<1>2. CatalogInv /\ [CatalogNext]_catalogVars => CatalogInv'
  <2> SUFFICES ASSUME CatalogInv, [CatalogNext]_catalogVars PROVE CatalogInv'
    OBVIOUS
  <2>1. ASSUME NEW list \in DefinitionLists, NEW h \in Hashes, Build(list, h) PROVE CatalogInv'
    <3>1. /\ definitions' = list /\ hash' = h /\ BeginBuild(list)
          /\ file' = "none"
      BY <2>1 DEF Build, Unused
    <3>2. QED
      BY <3>1, BeginBuildKeeps
  <2>2. ASSUME NEW list \in DefinitionLists, NEW h \in Hashes, NEW header \in {"schema", "other"},
               LoadCsv(header, list, h)
        PROVE  CatalogInv'
    <3>1. definitions' = list /\ hash' = h /\ file' = header
      BY <2>2 DEF LoadCsv
    <3>2. CASE header # "schema" \/ \E i \in DOMAIN list : ~RowAccepted(list[i])
      <4>1. catalog' = Refused
        BY <2>2, <3>2 DEF LoadCsv
      <4>2. ~catalog'.built
        BY <4>1 DEF Refused
      <4>3. ~Acceptable'
        BY <3>1, <3>2 DEF Acceptable
      <4>4. QED
        BY <3>1, <4>2, <4>3 DEF CatalogInv
    <3>3. CASE header = "schema" /\ \A i \in DOMAIN list : RowAccepted(list[i])
      <4>1. BeginBuild(list)
        BY <2>2, <3>3 DEF LoadCsv
      <4>2. QED
        BY <3>1, <3>3, <4>1, BeginBuildKeeps
    <3>4. QED
      BY <3>2, <3>3
  <2>3. ASSUME AddDefinition PROVE CatalogInv'
    BY <2>3, AddDefinitionKeeps
  <2>4. ASSUME NewCatalog PROVE CatalogInv'
    <3>1. file' = "none" /\ definitions' = <<>> /\ catalog' = Refused
      BY <2>4 DEF NewCatalog
    <3>2. ~catalog'.built /\ ~Acceptable'
      BY <3>1 DEF Refused, Acceptable
    <3>3. QED
      BY <3>1, <3>2 DEF CatalogInv
  <2>5. ASSUME UNCHANGED catalogVars PROVE CatalogInv'
    BY <2>5 DEF CatalogInv, catalogVars, Acceptable
  <2>6. QED
    BY <2>1, <2>2, <2>3, <2>4, <2>5 DEF CatalogNext
<1>3. QED
  BY <1>1, <1>2, PTL DEF CatalogSpec

\* A finished catalog finds exactly its definitions.
LEMMA FindIs ==
  ASSUME NEW list \in DefinitionLists, list # <<>>, NEW h \in Hashes, NEW entries, NEW t,
         BuiltOK(list, h, entries, t), Len(entries) = Len(list),
         NEW identity \in DOMAIN h, NEW cell,
         cell = Probe(t, Home(t, h, identity), EntriesOf(entries, identity))
  PROVE  /\ cell \in DOMAIN t
         /\ t[cell] = 0 => \A j \in DOMAIN list : Identity(list[j]) # identity
         /\ t[cell] # 0 =>
              /\ t[cell] \in DOMAIN list /\ entries[t[cell]] = list[t[cell]]
              /\ WellFormed(list[t[cell]])
              /\ \A j \in DOMAIN list : Identity(list[j]) = identity <=> j = t[cell]
<1>1. PICK n \in Nat \ {0} : n = TableSize(Len(list))
  BY TableFits
<1>2. PICK k \in Nat \ {0} : k = Len(list) /\ DOMAIN list = 1..k /\ 2 * k <= n
  BY <1>1, TableFits
<1>3. /\ entries \in Seq(Row) /\ Len(entries) = k
      /\ \A i \in 1..k : entries[i] = list[i] /\ WellFormed(list[i])
      /\ t \in [Cells(n) -> Nat] /\ TableOK(n, h, entries, t)
      /\ Cardinality(Free(n, t)) = n - k
  BY <1>1, <1>2 DEF BuiltOK
<1>4. k < n
  BY <1>2
<1>5. \E free \in Cells(n) : t[free] = 0
  BY <1>3, <1>4, FreeCell
<1>6. /\ cell \in Cells(n)
      /\ t[cell] # 0 => t[cell] \in 1..Len(entries) /\ Identity(entries[t[cell]]) = identity
      /\ t[cell] = 0 => \A i \in 1..Len(entries) : Identity(entries[i]) # identity
  <2>1. entries \in Seq(Row) /\ t \in [Cells(n) -> Nat] /\ TableOK(n, h, entries, t)
    BY <1>3
  <2>2. QED
    BY <1>5, <2>1, ProbeFinds
<1>7. \A i, j \in 1..k : Identity(entries[i]) = Identity(entries[j]) => i = j
  BY <1>3 DEF TableOK
<1>8. cell \in DOMAIN t
  BY <1>3, <1>6
<1>9. t[cell] = 0 => \A j \in 1..k : Identity(list[j]) # identity
  BY <1>3, <1>6
<1>10. ASSUME t[cell] # 0
       PROVE  /\ t[cell] \in 1..k /\ entries[t[cell]] = list[t[cell]] /\ WellFormed(list[t[cell]])
              /\ \A j \in 1..k : Identity(list[j]) = identity <=> j = t[cell]
  BY <1>3, <1>6, <1>7, <1>10
<1>11. QED
  BY <1>2, <1>8, <1>9, <1>10

\* A row's sizes are numbers, and its identity is what it says.
LEMMA RowSizes ==
  ASSUME NEW d \in Row
  PROVE  /\ d.source.size \in Nat /\ d.security.size \in Nat
         /\ Identity(d)[2] = d.source /\ Identity(d)[3] = d.security
BY DEF Row, IdentityText, Identity

\* Build and LoadCsv accept exactly the lists without a mistake, and Find returns
\* exactly the definition asked for, for every hash function and every list.
THEOREM FindAgreesHolds == CatalogSpec => []FindAgrees
<1>1. CatalogInv => FindAgrees
  <2> SUFFICES ASSUME CatalogInv, Finished
               PROVE  /\ catalog.built <=> Acceptable
                      /\ \A identity \in DOMAIN hash :
                           Find(identity) =
                             {[id |-> definitions[i].id, ordinal |-> i - 1] :
                                i \in {j \in DOMAIN definitions :
                                         catalog.built /\ Identity(definitions[j]) = identity}}
    BY DEF FindAgrees
  <2>1. CASE ~catalog.built
    <3>1. ~Acceptable
      BY <2>1 DEF CatalogInv
    <3>2. \A identity : Find(identity) = {}
      BY <2>1 DEF Find
    <3>3. QED
      BY <2>1, <3>1, <3>2
  <2>2. CASE catalog.built
    <3>1. /\ definitions \in DefinitionLists /\ definitions # <<>> /\ hash \in Hashes
          /\ file # "none" =>
               file = "schema" /\ \A i \in DOMAIN definitions : RowAccepted(definitions[i])
          /\ BuiltOK(definitions, hash, catalog.entries, catalog.table)
          /\ Len(catalog.entries) = Len(definitions)
      BY <2>2 DEF CatalogInv, Finished
    <3>2. PICK n \in Nat \ {0} : n = TableSize(Len(definitions))
      BY <3>1, TableFits
    <3>3. PICK k \in Nat : /\ k = Len(definitions) /\ DOMAIN definitions = 1..k
                           /\ \A i \in 1..k : definitions[i] \in Row
      BY <3>1, TableFits
    <3>4. /\ \A i \in 1..k : catalog.entries[i] = definitions[i] /\ WellFormed(definitions[i])
          /\ \A i, j \in 1..k : i # j => definitions[i].id # definitions[j].id
          /\ TableOK(n, hash, catalog.entries, catalog.table)
      BY <3>1, <3>2, <3>3 DEF BuiltOK
    <3>5. \A i, j \in 1..k : Identity(catalog.entries[i]) = Identity(catalog.entries[j]) => i = j
      BY <3>1, <3>3, <3>4 DEF TableOK
    <3>6. \A i, j \in 1..k : i # j => Identity(definitions[i]) # Identity(definitions[j])
      BY <3>4, <3>5
    <3>7. Acceptable
      BY <3>1, <3>3, <3>4, <3>6 DEF Acceptable
    <3>8. ASSUME NEW identity \in DOMAIN hash
          PROVE  Find(identity) =
                   {[id |-> definitions[i].id, ordinal |-> i - 1] :
                      i \in {j \in DOMAIN definitions :
                               catalog.built /\ Identity(definitions[j]) = identity}}
      <4>1. PICK cell : cell = Probe(catalog.table, Home(catalog.table, hash, identity),
                                     EntriesOf(catalog.entries, identity))
        OBVIOUS
      <4>2. PICK e : e = catalog.table[cell]
        OBVIOUS
      <4>3. /\ cell \in DOMAIN catalog.table
            /\ e = 0 => \A j \in DOMAIN definitions : Identity(definitions[j]) # identity
            /\ e # 0 =>
                 /\ e \in DOMAIN definitions /\ catalog.entries[e] = definitions[e]
                 /\ WellFormed(definitions[e])
                 /\ \A j \in DOMAIN definitions : Identity(definitions[j]) = identity <=> j = e
        BY <3>1, <4>1, <4>2, FindIs
      <4>4. Find(identity) =
              IF \/ identity[3].size = 0 \/ identity[2].size > MaximumIdentityBytes
                 \/ identity[3].size > MaximumIdentityBytes \/ e = 0
                THEN {}
                ELSE {[id |-> catalog.entries[e].id, ordinal |-> e - 1]}
        BY <2>2, <4>1, <4>2, <4>3 DEF Find
      <4>5. CASE e = 0
        <5>1. Find(identity) = {}
          BY <4>4, <4>5
        <5>2. {j \in DOMAIN definitions :
                 catalog.built /\ Identity(definitions[j]) = identity} = {}
          BY <4>3, <4>5
        <5>3. QED
          BY <5>1, <5>2
      <4>6. CASE e # 0
        <5>1. {j \in DOMAIN definitions :
                 catalog.built /\ Identity(definitions[j]) = identity} = {e}
          BY <2>2, <4>3, <4>6
        <5>2. definitions[e] \in Row /\ WellFormed(definitions[e]) /\ Identity(definitions[e]) = identity
          BY <3>3, <4>3, <4>6
        <5>3. /\ identity[3] = definitions[e].security /\ identity[2] = definitions[e].source
              /\ definitions[e].source.size \in Nat /\ definitions[e].security.size \in Nat
          BY <5>2, RowSizes
        <5>4. /\ definitions[e].security.size \in 1..MaximumIdentityBytes
              /\ definitions[e].source.size <= MaximumIdentityBytes
          BY <5>2 DEF WellFormed
        <5>5. ~(\/ identity[3].size = 0 \/ identity[2].size > MaximumIdentityBytes
                \/ identity[3].size > MaximumIdentityBytes)
          BY <5>3, <5>4, CatalogAssumption
        <5>6. Find(identity) = {[id |-> definitions[e].id, ordinal |-> e - 1]}
          BY <4>3, <4>4, <4>6, <5>5
        <5>7. QED
          BY <5>1, <5>6
      <4>7. QED
        BY <4>5, <4>6
    <3>9. QED
      BY <2>2, <3>7, <3>8
  <2>3. QED
    BY <2>1, <2>2
<1>2. QED
  BY <1>1, CatalogInductive, PTL
=============================================================================
