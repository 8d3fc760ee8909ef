----------------------------- MODULE PhyRxProofs -----------------------------
(***************************************************************************)
(* The receive path for every size of the ring, of the message list and of *)
(* a logical frame, and any number of frames and requests.                 *)
(***************************************************************************)
EXTENDS PhyRx, FiniteSetTheorems, TLAPS

USE SlotsAssumption, MaxLenAssumption, BoundsAssumption, PeersAssumption

-----------------------------------------------------------------------------
(* The order of the messages: one of kind k waits in s; none of kind b is    *)
(* behind one of kind a.                                                    *)
Elems(s) == {s[i] : i \in 1 .. Len(s)}
Has(s, k) == \E m \in Elems(s) : m.kind = k
Never(s, a, b) ==
  \A i, j \in 1 .. Len(s) : i < j => ~(s[i].kind = a /\ s[j].kind = b)

(* An indication is behind the announcement of the frame before it, and the  *)
(* next EMN_RF_RX_READY, of which there is one, is behind the indication.    *)
OrderOK ==
  /\ Never(queue, "rx", "rx") /\ Never(queue, "rx", "ind")
  /\ Never(queue, "ind", "ind") /\ Never(queue, "ind", "data")
  /\ rxReady => getDataEnd
  /\ Has(queue, "rx") => ~getDataEnd
  /\ pc = "reopen" => queue # <<>> /\ Head(queue).kind = "rx"

(* What patient peers have sent and the PHY layer has not dealt with.        *)
InFlight == dr \/ pc = "reopen"
Flying == IF dr THEN payload ELSE slots[tail]
Place(k) == slots[Wrap(head + k)]

(* While a frame is dealt with nothing is received; while packets are        *)
(* received nothing else is in the list.                                    *)
Dealing == \E k \in {"ind", "res", "tx", "data", "other"} : Has(queue, k)
TurnsOK ==
  /\ Dealing => nxt = 0 /\ ~dr /\ ~rxReady /\ getDataEnd /\ pc # "reopen" /\ ~Has(queue, "rx")
  /\ pc = "reopen" => ~dr
  /\ pc # "reopen" /\ (rxReady \/ Has(queue, "rx")) => dr
  /\ Has(queue, "ind") \/ Has(queue, "res") => frmNum = 0

(* The frame indicated is whole and lies at the head of the ring.            *)
AtHead(m) == m.hd = head /\ m.num = count /\ m.num > 0
IndicatedOK ==
  /\ Never(queue, "ind", "res") /\ Never(queue, "res", "res") /\ Never(queue, "res", "ind")
  /\ \A m \in Elems(queue) : m.kind \in {"ind", "res"} => AtHead(m)
  /\ \A m \in Elems(queue) : m.kind = "ind" => Whole(Content(m))

(* Where the peers are after packet p, with the packets lost since then.     *)
Follows(p) ==
  IF lossRun = 0 THEN cur = p.msg /\ nxt = p.idx + 1
  ELSE \/ cur = p.msg /\ nxt = p.idx + 2
       \/ cur = p.msg + 1 /\ nxt = 0

(* The packets collected are the first of one frame, in order; the packet in *)
(* flight is the one behind them, the next but one, or the first of another  *)
(* frame.                                                                   *)
CollectedOK ==
  /\ frmNum < MaxLen
  /\ frmNum > 0 =>
       \A k \in 0 .. frmNum - 1 : Place(k) = [msg |-> Place(0).msg, idx |-> k, last |-> FALSE]
  /\ frmNum > 0 /\ ~InFlight => Follows(Place(frmNum - 1))
FlightOK ==
  InFlight =>
    /\ Flying.last => nxt = 0 /\ cur = Flying.msg + 1 /\ lossRun = 0
    /\ ~Flying.last => Follows(Flying) /\ Flying.idx + 1 < MaxLen
    /\ frmNum > 0 => \/ Flying.msg = Place(0).msg /\ Flying.idx >= frmNum
                     \/ Flying.msg > Place(0).msg /\ Flying.idx = 0
PeersOK == lossRun <= 1 /\ nxt < len

(* A frame none of whose packets was lost, and none of the one before, is    *)
(* collected packet by packet, and reaches the MAC layer.                   *)
Intact(m) == m \notin lost /\ m - 1 \notin lost
LossOK ==
  /\ lossRun = 1 => IF nxt > 0 THEN cur \in lost ELSE cur - 1 \in lost
  /\ ~InFlight /\ nxt > 0 /\ Intact(cur) => frmNum = nxt
  /\ InFlight /\ Intact(Flying.msg) => Flying.idx = frmNum
  /\ \A m \in 1 .. cur - 1 :
       \/ m \in delivered \/ ~Intact(m)
       \/ InFlight /\ Flying.msg = m /\ Flying.last
       \/ \E i \in Elems(queue) : i.kind = "ind" /\ slots[i.hd].msg = m

PatientOK == TurnsOK /\ IndicatedOK /\ CollectedOK /\ FlightOK /\ PeersOK /\ LossOK

(* err = 0: the RF task has not stopped in SYS_Error.                        *)
Running ==
  /\ count = frmNum + Cardinality(Held(queue)) /\ tail = Wrap(head + count) /\ count <= Slots
  /\ OrderOK
  /\ peers = "patient" => PatientOK

IInv ==
  /\ RingAccount /\ HandedOver /\ WholeFrames
  /\ pc = "error" <=> err # 0
  /\ err = 0 => Running

-----------------------------------------------------------------------------
(* What serving the first message and posting others does to the list.       *)
LEMMA ServedList ==
  ASSUME NEW s \in Seq(Message), s # <<>>
  PROVE  /\ Head(s) \in Message /\ Tail(s) \in Seq(Message)
         /\ Len(s) \in Nat \ {0} /\ Len(Tail(s)) = Len(s) - 1 /\ Head(s) = s[1]
         /\ \A i \in 1 .. Len(s) - 1 : Tail(s)[i] = s[i + 1]
  OBVIOUS

LEMMA ElemsServed ==
  ASSUME NEW s \in Seq(Message), s # <<>>
  PROVE  Elems(s) = {Head(s)} \cup Elems(Tail(s))
<1>1. ASSUME NEW i \in 1 .. Len(s) PROVE s[i] \in {Head(s)} \cup Elems(Tail(s))
  <2>1. CASE i = 1
    BY <2>1, ServedList
  <2>2. CASE i # 1
    <3>1. i - 1 \in 1 .. Len(Tail(s)) /\ Tail(s)[i - 1] = s[i]
      BY <2>2, ServedList
    <3> QED
      BY <3>1 DEF Elems
  <2> QED
    BY <2>1, <2>2
<1>2. Head(s) \in Elems(s)
  BY ServedList DEF Elems
<1>3. ASSUME NEW i \in 1 .. Len(Tail(s)) PROVE Tail(s)[i] \in Elems(s)
  <2>1. i + 1 \in 1 .. Len(s) /\ Tail(s)[i] = s[i + 1]
    BY ServedList
  <2> QED
    BY <2>1 DEF Elems
<1> QED
  BY <1>1, <1>2, <1>3 DEF Elems

LEMMA PostedList ==
  ASSUME NEW s \in Seq(Message), NEW r \in Seq(Message)
  PROVE  /\ s \o r \in Seq(Message) /\ Len(s \o r) = Len(s) + Len(r)
         /\ Len(s) \in Nat /\ Len(r) \in Nat
         /\ \A i \in 1 .. Len(s) : (s \o r)[i] = s[i]
         /\ \A i \in 1 .. Len(r) : (s \o r)[Len(s) + i] = r[i]
         /\ \A i \in 1 .. Len(s \o r) : i > Len(s) => (s \o r)[i] = r[i - Len(s)]
  OBVIOUS

LEMMA ElemsPosted ==
  ASSUME NEW s \in Seq(Message), NEW r \in Seq(Message)
  PROVE  Elems(s \o r) = Elems(s) \cup Elems(r)
<1>1. ASSUME NEW i \in 1 .. Len(s \o r) PROVE (s \o r)[i] \in Elems(s) \cup Elems(r)
  <2>1. CASE i <= Len(s)
    <3>1. i \in 1 .. Len(s) /\ (s \o r)[i] = s[i]
      BY <2>1, PostedList
    <3> QED
      BY <3>1 DEF Elems
  <2>2. CASE i > Len(s)
    <3>1. i - Len(s) \in 1 .. Len(r) /\ (s \o r)[i] = r[i - Len(s)]
      BY <2>2, PostedList
    <3> QED
      BY <3>1 DEF Elems
  <2> QED
    BY <2>1, <2>2, PostedList
<1>2. ASSUME NEW i \in 1 .. Len(s) PROVE s[i] \in Elems(s \o r)
  <2>1. i \in 1 .. Len(s \o r) /\ (s \o r)[i] = s[i]
    BY PostedList
  <2> QED
    BY <2>1 DEF Elems
<1>3. ASSUME NEW i \in 1 .. Len(r) PROVE r[i] \in Elems(s \o r)
  <2>1. Len(s) + i \in 1 .. Len(s \o r) /\ (s \o r)[Len(s) + i] = r[i]
    BY PostedList
  <2> QED
    BY <2>1 DEF Elems
<1> QED
  BY <1>1, <1>2, <1>3 DEF Elems

LEMMA NeverServed ==
  ASSUME NEW s \in Seq(Message), s # <<>>, NEW a, NEW b, Never(s, a, b)
  PROVE  Never(Tail(s), a, b) /\ (Head(s).kind = a => ~Has(Tail(s), b))
<1>1. ASSUME NEW i \in 1 .. Len(Tail(s)), NEW j \in 1 .. Len(Tail(s)), i < j
      PROVE  ~(Tail(s)[i].kind = a /\ Tail(s)[j].kind = b)
  <2>1. /\ i + 1 \in 1 .. Len(s) /\ j + 1 \in 1 .. Len(s) /\ i + 1 < j + 1
        /\ Tail(s)[i] = s[i + 1] /\ Tail(s)[j] = s[j + 1]
    BY <1>1, ServedList
  <2> QED
    BY <2>1 DEF Never
<1>2. ASSUME Head(s).kind = a, NEW j \in 1 .. Len(Tail(s))
      PROVE  Tail(s)[j].kind # b
  <2>1. /\ 1 \in 1 .. Len(s) /\ j + 1 \in 1 .. Len(s) /\ 1 < j + 1
        /\ Tail(s)[j] = s[j + 1] /\ Head(s) = s[1]
    BY <1>2, ServedList
  <2> QED
    BY <1>2, <2>1 DEF Never
<1> QED
  BY <1>1, <1>2 DEF Never, Has, Elems

LEMMA NeverPosted ==
  ASSUME NEW s \in Seq(Message), NEW r \in Seq(Message), NEW a, NEW b,
         Never(s, a, b), Never(r, a, b), ~Has(s, a) \/ ~Has(r, b)
  PROVE  Never(s \o r, a, b)
<1>1. ASSUME NEW i \in 1 .. Len(s \o r), NEW j \in 1 .. Len(s \o r), i < j,
             (s \o r)[i].kind = a, (s \o r)[j].kind = b
      PROVE  FALSE
  <2>1. CASE j <= Len(s)
    <3>1. /\ i \in 1 .. Len(s) /\ j \in 1 .. Len(s)
          /\ (s \o r)[i] = s[i] /\ (s \o r)[j] = s[j]
      BY <1>1, <2>1, PostedList
    <3> QED
      BY <1>1, <3>1 DEF Never
  <2>2. CASE i > Len(s)
    <3>1. /\ i - Len(s) \in 1 .. Len(r) /\ j - Len(s) \in 1 .. Len(r)
          /\ i - Len(s) < j - Len(s)
          /\ (s \o r)[i] = r[i - Len(s)] /\ (s \o r)[j] = r[j - Len(s)]
      BY <1>1, <2>2, PostedList
    <3> QED
      BY <1>1, <3>1 DEF Never
  <2>3. CASE i <= Len(s) /\ j > Len(s)
    <3>1. /\ i \in 1 .. Len(s) /\ j - Len(s) \in 1 .. Len(r)
          /\ (s \o r)[i] = s[i] /\ (s \o r)[j] = r[j - Len(s)]
      BY <1>1, <2>3, PostedList
    <3> QED
      BY <1>1, <3>1 DEF Has, Elems
  <2> QED
    BY <1>1, <2>1, <2>2, <2>3, PostedList
<1> QED
  BY <1>1 DEF Never

-----------------------------------------------------------------------------
(* The slots held by the messages of a list.                                *)
LEMMA PendingType == ASSUME NEW m \in Message PROVE Pending(m) \in 0 .. MaxLen
  BY DEF Message, Pending

LEMMA HeldFinite == ASSUME NEW s \in Seq(Message) PROVE IsFiniteSet(Held(s))
<1>1. Len(s) \in Int /\ 1 \in Int /\ MaxLen \in Int
  OBVIOUS
<1>2. IsFiniteSet((1 .. Len(s)) \X (1 .. MaxLen))
  BY <1>1, FS_Interval, FS_Product
<1>3. Held(s) \in SUBSET ((1 .. Len(s)) \X (1 .. MaxLen))
  BY DEF Held
<1> QED
  BY <1>2, <1>3, FS_Subset

LEMMA HeldPosted ==
  ASSUME NEW s \in Seq(Message), NEW r \in Seq(Message)
  PROVE  Cardinality(Held(s \o r)) = Cardinality(Held(s)) + Cardinality(Held(r))
<1> DEFINE n == Len(s)
           Behind == {<<x[1] + n, x[2]>> : x \in Held(r)}
           f == [x \in Held(r) |-> <<x[1] + n, x[2]>>]
<1>1. n \in Nat /\ Len(r) \in Nat
  OBVIOUS
<1>2. \A x \in Held(r) : x[1] \in 1 .. Len(r) /\ x[2] \in 1 .. MaxLen /\ x = <<x[1], x[2]>>
  BY DEF Held
<1>3. f \in Bijection(Held(r), Behind)
  <2>1. f \in [Held(r) -> Behind]
    OBVIOUS
  <2>2. ASSUME NEW x \in Held(r), NEW y \in Held(r), f[x] = f[y] PROVE x = y
    <3>1. x[1] + n = y[1] + n /\ x[2] = y[2]
      BY <2>2
    <3>2. x[1] = y[1]
      BY <1>1, <1>2, <3>1
    <3> QED
      BY <1>2, <3>1, <3>2
  <2>3. \A z \in Behind : \E x \in Held(r) : f[x] = z
    OBVIOUS
  <2> QED
    BY <2>1, <2>2, <2>3, Zenon DEF Bijection, Injection, Surjection, IsInjective
<1>4. IsFiniteSet(Behind) /\ Cardinality(Behind) = Cardinality(Held(r))
  BY <1>3, HeldFinite, FS_Bijection DEF ExistsBijection
<1>5. Held(s) \cap Behind = {}
  <2>1. \A x \in Held(s) : x[1] \in 1 .. n
    BY DEF Held
  <2>2. \A z \in Behind : z[1] > n
    BY <1>1, <1>2
  <2> QED
    BY <1>1, <2>1, <2>2
<1>6. Held(s \o r) = Held(s) \cup Behind
  <2>1. ASSUME NEW x \in Held(s \o r) PROVE x \in Held(s) \cup Behind
    <3>1. x[1] \in 1 .. Len(s \o r) /\ x[2] \in 1 .. MaxLen /\ x = <<x[1], x[2]>>
          /\ x[2] <= Pending((s \o r)[x[1]])
      BY DEF Held
    <3>2. CASE x[1] <= n
      <4>1. x[1] \in 1 .. Len(s) /\ (s \o r)[x[1]] = s[x[1]]
        BY <1>1, <3>1, <3>2, PostedList
      <4> QED
        BY <3>1, <4>1 DEF Held
    <3>3. CASE x[1] > n
      <4>1. x[1] - n \in 1 .. Len(r) /\ (s \o r)[x[1]] = r[x[1] - n]
        BY <1>1, <3>1, <3>3, PostedList
      <4>2. <<x[1] - n, x[2]>> \in Held(r)
        BY <3>1, <4>1 DEF Held
      <4>3. x = <<(x[1] - n) + n, x[2]>>
        BY <1>1, <3>1
      <4> QED
        BY <4>2, <4>3
    <3> QED
      BY <1>1, <3>1, <3>2, <3>3, PostedList
  <2>2. ASSUME NEW x \in Held(s) PROVE x \in Held(s \o r)
    <3>1. x[1] \in 1 .. Len(s) /\ x[2] \in 1 .. MaxLen /\ x = <<x[1], x[2]>>
          /\ x[2] <= Pending(s[x[1]])
      BY DEF Held
    <3>2. x[1] \in 1 .. Len(s \o r) /\ (s \o r)[x[1]] = s[x[1]]
      BY <3>1, PostedList
    <3> QED
      BY <3>1, <3>2 DEF Held
  <2>3. ASSUME NEW x \in Held(r) PROVE <<x[1] + n, x[2]>> \in Held(s \o r)
    <3>1. x[2] <= Pending(r[x[1]])
      BY DEF Held
    <3>2. n + x[1] \in 1 .. Len(s \o r) /\ (s \o r)[n + x[1]] = r[x[1]]
      BY <1>1, <1>2, PostedList
    <3>3. n + x[1] = x[1] + n
      BY <1>1, <1>2
    <3> QED
      BY <1>2, <3>1, <3>2, <3>3 DEF Held
  <2> QED
    BY <2>1, <2>2, <2>3
<1>7. Cardinality({}) = 0
  BY FS_EmptySet
<1>8. Cardinality(Held(s)) \in Nat /\ Cardinality(Held(r)) \in Nat
  BY HeldFinite, FS_CardinalityType
<1> HIDE DEF n, Behind, f
<1>9. Cardinality(Held(s) \cup Behind)
        = Cardinality(Held(s)) + Cardinality(Behind) - Cardinality(Held(s) \cap Behind)
  BY <1>4, HeldFinite, FS_Union
<1>10. Cardinality(Held(s) \cap Behind) = 0
  BY <1>5, <1>7
<1>11. Cardinality(Held(s) \cup Behind) = Cardinality(Held(s)) + Cardinality(Held(r))
  BY <1>4, <1>8, <1>9, <1>10
<1> QED
  BY <1>6, <1>11

LEMMA HeldOne ==
  ASSUME NEW m \in Message
  PROVE  <<m>> \in Seq(Message) /\ Cardinality(Held(<<m>>)) = Pending(m)
<1>1. Pending(m) \in 0 .. MaxLen
  BY PendingType
<1>2. Held(<<m>>) = {1} \X (1 .. Pending(m))
  <2>1. Len(<<m>>) = 1 /\ <<m>>[1] = m /\ 1 .. 1 = {1}
    OBVIOUS
  <2>2. \A x \in {1} \X (1 .. MaxLen) : x[1] = 1
    OBVIOUS
  <2>3. Held(<<m>>) = {x \in {1} \X (1 .. MaxLen) : x[2] <= Pending(m)}
    BY <2>1, <2>2 DEF Held
  <2>4. \A x \in {1} \X (1 .. MaxLen) : x[2] <= Pending(m) <=> x \in {1} \X (1 .. Pending(m))
    BY <1>1
  <2>5. {1} \X (1 .. Pending(m)) \subseteq {1} \X (1 .. MaxLen)
    BY <1>1
  <2> QED
    BY <2>3, <2>4, <2>5
<1>3. /\ IsFiniteSet(1 .. Pending(m)) /\ Cardinality(1 .. Pending(m)) = Pending(m)
  <2>1. 1 \in Int /\ Pending(m) \in Int
    BY <1>1
  <2>2. /\ IsFiniteSet(1 .. Pending(m))
        /\ Cardinality(1 .. Pending(m)) = IF 1 > Pending(m) THEN 0 ELSE Pending(m) - 1 + 1
    BY <2>1, FS_Interval
  <2> QED
    BY <1>1, <2>2
<1>4. IsFiniteSet({1}) /\ Cardinality({1}) = 1
  BY FS_Singleton
<1>5. Cardinality({1} \X (1 .. Pending(m))) = Cardinality({1}) * Cardinality(1 .. Pending(m))
  BY <1>3, <1>4, FS_Product
<1>6. Cardinality({1} \X (1 .. Pending(m))) = Pending(m)
  BY <1>1, <1>3, <1>4, <1>5
<1>7. <<m>> \in Seq(Message)
  OBVIOUS
<1> QED
  BY <1>2, <1>6, <1>7

LEMMA HeldServed ==
  ASSUME NEW s \in Seq(Message), s # <<>>, NEW r \in Seq(Message)
  PROVE  /\ Cardinality(Held(s)) \in Nat
         /\ Cardinality(Held(s)) >= Pending(Head(s))
         /\ Cardinality(Held(Tail(s) \o r))
              = Cardinality(Held(s)) - Pending(Head(s)) + Cardinality(Held(r))
<1>1. Head(s) \in Message /\ Tail(s) \in Seq(Message) /\ s = <<Head(s)>> \o Tail(s)
  OBVIOUS
<1>2. Cardinality(Held(<<Head(s)>>)) = Pending(Head(s)) /\ <<Head(s)>> \in Seq(Message)
  BY <1>1, HeldOne
<1>3. Cardinality(Held(s)) = Pending(Head(s)) + Cardinality(Held(Tail(s)))
  <2>1. Cardinality(Held(<<Head(s)>> \o Tail(s)))
          = Cardinality(Held(<<Head(s)>>)) + Cardinality(Held(Tail(s)))
    BY <1>1, <1>2, HeldPosted
  <2> QED
    BY <1>1, <1>2, <2>1
<1>4. Cardinality(Held(Tail(s) \o r)) = Cardinality(Held(Tail(s))) + Cardinality(Held(r))
  BY <1>1, HeldPosted
<1>5. /\ Cardinality(Held(Tail(s))) \in Nat /\ Cardinality(Held(r)) \in Nat
      /\ Pending(Head(s)) \in Nat
  <2>1. IsFiniteSet(Held(Tail(s))) /\ IsFiniteSet(Held(r))
    BY <1>1, HeldFinite
  <2>2. Pending(Head(s)) \in 0 .. MaxLen
    BY <1>1, PendingType
  <2> QED
    BY <2>1, <2>2, FS_CardinalityType
<1> DEFINE a == Cardinality(Held(s))
           b == Cardinality(Held(Tail(s)))
           c == Cardinality(Held(Tail(s) \o r))
           d == Cardinality(Held(r))
           p == Pending(Head(s))
<1>6. b \in Nat /\ d \in Nat /\ p \in Nat /\ a = p + b /\ c = b + d
  BY <1>3, <1>4, <1>5
<1> HIDE DEF a, b, c, d, p
<1>7. a \in Nat /\ a >= p /\ c = a - p + d
  BY <1>6
<1> QED
  BY <1>7 DEF a, b, c, d, p

LEMMA HeldNone ==
  ASSUME NEW s \in Seq(Message), ~Has(s, "ind"), ~Has(s, "res")
  PROVE  Cardinality(Held(s)) = 0
<1>1. \A i \in 1 .. Len(s) : Pending(s[i]) = 0
  BY DEF Has, Elems, Pending
<1>2. Held(s) = {}
  BY <1>1 DEF Held
<1> QED
  BY <1>2, FS_EmptySet

LEMMA NoMessages ==
  /\ <<>> \in Seq(Message) /\ Elems(<<>>) = {} /\ Len(<<>>) = 0
  /\ \A s \in Seq(Message) : s \o <<>> = s
  /\ \A k : ~Has(<<>>, k)
  /\ \A a, b : Never(<<>>, a, b)
  /\ Cardinality(Held(<<>>)) = 0
<1>1. Held(<<>>) = {}
  BY DEF Held
<1> QED
  BY <1>1, FS_EmptySet DEF Has, Elems, Never

LEMMA OneMessage ==
  ASSUME NEW m \in Message
  PROVE  /\ <<m>> \in Seq(Message) /\ Elems(<<m>>) = {m} /\ Len(<<m>>) = 1
         /\ \A k : Has(<<m>>, k) <=> m.kind = k
         /\ \A a, b : Never(<<m>>, a, b)
         /\ Cardinality(Held(<<m>>)) = Pending(m)
<1>1. Elems(<<m>>) = {m} /\ Len(<<m>>) = 1
  BY DEF Elems
<1>2. \A a, b : Never(<<m>>, a, b)
  BY DEF Never
<1> QED
  BY <1>1, <1>2, HeldOne DEF Has

(* The list after the first message of s has been served and r posted.      *)
After(s, r) == Tail(s) \o r

Service(s, r, t) ==
  /\ t \in Seq(Message) /\ Len(t) = Len(s) - 1 + Len(r)
  /\ Head(s) \in Message
  /\ Elems(s) = {Head(s)} \cup Elems(Tail(s))
  /\ Elems(t) = Elems(Tail(s)) \cup Elems(r)
  /\ \A k : Has(s, k) <=> Head(s).kind = k \/ Has(Tail(s), k)
  /\ \A k : Has(t, k) <=> Has(Tail(s), k) \/ Has(r, k)
  /\ \A a, b : Never(s, a, b) /\ Head(s).kind = a => ~Has(Tail(s), b)
  /\ \A a, b :
       Never(s, a, b) /\ Never(r, a, b) /\ (~Has(Tail(s), a) \/ ~Has(r, b))
         => Never(t, a, b)
  /\ Cardinality(Held(s)) \in Nat /\ Cardinality(Held(s)) >= Pending(Head(s))
  /\ Cardinality(Held(t))
       = Cardinality(Held(s)) - Pending(Head(s)) + Cardinality(Held(r))

LEMMA Served ==
  ASSUME NEW s \in Seq(Message), s # <<>>, NEW r \in Seq(Message)
  PROVE  Service(s, r, After(s, r))
<1> DEFINE t == After(s, r)
<1>1. /\ Head(s) \in Message /\ Tail(s) \in Seq(Message)
      /\ t \in Seq(Message) /\ Len(t) = Len(s) - 1 + Len(r)
  BY ServedList, PostedList DEF After
<1>2. Elems(s) = {Head(s)} \cup Elems(Tail(s))
  BY ElemsServed
<1>3. Elems(t) = Elems(Tail(s)) \cup Elems(r)
  BY <1>1, ElemsPosted DEF After
<1>4. \A a, b : Never(s, a, b) => Never(Tail(s), a, b) /\ (Head(s).kind = a => ~Has(Tail(s), b))
  BY NeverServed
<1>5. \A a, b :
        Never(Tail(s), a, b) /\ Never(r, a, b) /\ (~Has(Tail(s), a) \/ ~Has(r, b))
          => Never(t, a, b)
  BY <1>1, NeverPosted DEF After
<1>6. /\ Cardinality(Held(s)) \in Nat /\ Cardinality(Held(s)) >= Pending(Head(s))
      /\ Cardinality(Held(t))
           = Cardinality(Held(s)) - Pending(Head(s)) + Cardinality(Held(r))
  BY HeldServed DEF After
<1>7. /\ \A k : Has(s, k) <=> Head(s).kind = k \/ Has(Tail(s), k)
      /\ \A k : Has(t, k) <=> Has(Tail(s), k) \/ Has(r, k)
  BY <1>2, <1>3 DEF Has
<1> QED
  BY <1>1, <1>2, <1>3, <1>4, <1>5, <1>6, <1>7 DEF Service

(* The list t after m has been posted to s outside of a handler.            *)
LEMMA Posted ==
  ASSUME NEW s \in Seq(Message), NEW m \in Message, NEW t, t = Append(s, m)
  PROVE  /\ t \in Seq(Message) /\ Len(t) = Len(s) + 1
         /\ Elems(t) = Elems(s) \cup {m}
         /\ \A k : Has(t, k) <=> Has(s, k) \/ m.kind = k
         /\ \A a, b : Never(s, a, b) /\ (~Has(s, a) \/ m.kind # b) => Never(t, a, b)
         /\ Cardinality(Held(t)) = Cardinality(Held(s)) + Pending(m)
<1>1. t = s \o <<m>> /\ t \in Seq(Message) /\ Len(t) = Len(s) + 1
  OBVIOUS
<1>2. /\ <<m>> \in Seq(Message) /\ Elems(<<m>>) = {m}
      /\ \A k : Has(<<m>>, k) <=> m.kind = k
      /\ \A a, b : Never(<<m>>, a, b)
      /\ Cardinality(Held(<<m>>)) = Pending(m)
  BY OneMessage
<1>3. Elems(t) = Elems(s) \cup {m}
  BY <1>1, <1>2, ElemsPosted
<1>4. \A a, b : Never(s, a, b) /\ (~Has(s, a) \/ m.kind # b) => Never(t, a, b)
  BY <1>1, <1>2, NeverPosted
<1>5. Cardinality(Held(t)) = Cardinality(Held(s)) + Pending(m)
  BY <1>1, <1>2, HeldPosted
<1> QED
  BY <1>1, <1>3, <1>4, <1>5 DEF Has

(* The same when nothing is posted.                                         *)
LEMMA ServedOnly ==
  ASSUME NEW s \in Seq(Message), s # <<>>, NEW t, t = Tail(s) \o <<>>
  PROVE  /\ t \in Seq(Message) /\ Len(t) = Len(s) - 1
         /\ Elems(s) = {Head(s)} \cup Elems(t)
         /\ \A k : Has(s, k) <=> Head(s).kind = k \/ Has(t, k)
         /\ \A a, b : Never(s, a, b) => Never(t, a, b) /\ (Head(s).kind = a => ~Has(t, b))
         /\ Cardinality(Held(t)) = Cardinality(Held(s)) - Pending(Head(s))
<1>1. t = Tail(s) /\ Tail(s) \in Seq(Message) /\ Len(t) = Len(s) - 1
  BY NoMessages, ServedList
<1>2. Elems(s) = {Head(s)} \cup Elems(t)
  BY <1>1, ElemsServed
<1>3. \A a, b : Never(s, a, b) => Never(t, a, b) /\ (Head(s).kind = a => ~Has(t, b))
  BY <1>1, NeverServed
<1>4. Cardinality(Held(t)) = Cardinality(Held(s)) - Pending(Head(s))
  <2> DEFINE r == <<>>
  <2>1. r \in Seq(Message) /\ Cardinality(Held(r)) = 0 /\ t = Tail(s) \o r
    BY NoMessages
  <2> HIDE DEF r
  <2>2. /\ Cardinality(Held(s)) \in Nat
        /\ Cardinality(Held(t))
             = Cardinality(Held(s)) - Pending(Head(s)) + Cardinality(Held(r))
    BY <2>1, HeldServed
  <2>3. Pending(Head(s)) \in 0 .. MaxLen
    BY ServedList, PendingType
  <2> QED
    BY <2>1, <2>2, <2>3
<1> QED
  BY <1>1, <1>2, <1>3, <1>4 DEF Has

LEMMA FunctionList ==
  ASSUME NEW S, NEW n \in Nat \ {0}, NEW f \in [1 .. n -> S]
  PROVE  f \in Seq(S) /\ Len(f) = n /\ f # <<>>
<1>1. f \in Seq(S) /\ Len(f) = n
  OBVIOUS
<1>2. Len(<<>>) = 0
  OBVIOUS
<1> QED
  BY <1>1, <1>2

LEMMA MsgType ==
  ASSUME NEW k \in {"rx", "ind", "res", "tx", "data", "other"}
  PROVE  Msg(k) \in Message /\ Msg(k).kind = k /\ Pending(Msg(k)) = 0
  BY DEF Msg, Message, Blank, Packet, Pending

Named(k, h, n) == [Msg(k) EXCEPT !.hd = h, !.num = n]

LEMMA NamedType ==
  ASSUME NEW k \in {"rx", "ind", "res", "tx", "data", "other"},
         NEW h \in 0 .. Slots - 1, NEW n \in 0 .. MaxLen
  PROVE  /\ Named(k, h, n) \in Message
         /\ Named(k, h, n).kind = k /\ Named(k, h, n).hd = h /\ Named(k, h, n).num = n
<1>1. PICK c \in Message : c = Msg(k) /\ c.kind = k
  BY MsgType
<1>2. Named(k, h, n) = [c EXCEPT !.hd = h, !.num = n]
  BY <1>1 DEF Named
<1> QED
  BY <1>1, <1>2 DEF Message

-----------------------------------------------------------------------------
(* A task that stops in SYS_Error leaves the list and the ring as they are. *)
LEMMA Stopped ==
  ASSUME IInv, err = 0, TypeOK', pc' = "error", err' \in {5, 6, 16}, queue' = queue,
         UNCHANGED <<slots, peers>>, peers = "patient" => err' = 16, HandedOver'
  PROVE  IInv'
<1>1. RingAccount'
  BY DEF RingAccount
<1>2. WholeFrames'
  <2>1. ASSUME NEW i \in 1 .. Len(queue) PROVE Content(queue[i])' = Content(queue[i])
    BY DEF Content
  <2> QED
    BY <2>1 DEF IInv, WholeFrames
<1> QED
  BY <1>1, <1>2 DEF IInv

(* The indices of the ring.                                                 *)
LEMMA WrapType ==
  ASSUME NEW i \in 0 .. 2 * Slots - 1 PROVE Wrap(i) \in 0 .. Slots - 1
  BY DEF Wrap

LEMMA WrapApart ==
  ASSUME NEW h \in 0 .. Slots - 1, NEW c \in 0 .. Slots - 1, NEW k \in 0 .. Slots - 1, k # c
  PROVE  Wrap(h + k) # Wrap(h + c)
  BY DEF Wrap

-----------------------------------------------------------------------------
THEOREM IInvInit == Init => IInv
<1> SUFFICES ASSUME Init PROVE IInv
  OBVIOUS
<1>1. Blank \in Packet
  BY DEF Blank, Packet
<1>2. TypeOK
  <2>1. slots \in [0 .. Slots - 1 -> Packet]
    BY <1>1 DEF Init
  <2>2. queue \in Seq(Message) /\ Len(queue) <= QMax
    BY NoMessages DEF Init
  <2>3. /\ peers \in Peers /\ cur \in 1 .. MaxMsg + 1 /\ nxt \in 0 .. MaxLen - 1
        /\ len \in 1 .. MaxLen /\ lossRun \in 0 .. 2 /\ requests \in 0 .. MaxRequests
        /\ lost \subseteq 0 .. MaxMsg /\ delivered \subseteq 0 .. MaxMsg
    BY DEF Init
  <2>4. /\ head \in 0 .. Slots - 1 /\ tail \in 0 .. Slots - 1 /\ count \in 0 .. Slots + 1
        /\ frmNum \in 0 .. MaxLen /\ comBuf \in Packet /\ payload \in Packet
    BY <1>1 DEF Init
  <2>5. /\ dr \in BOOLEAN /\ rxReady \in BOOLEAN /\ getDataEnd \in BOOLEAN
        /\ pc \in {"serve", "reopen", "rx", "error"} /\ err \in {0, 5, 6, 16}
    BY DEF Init
  <2> QED
    BY <2>1, <2>2, <2>3, <2>4, <2>5 DEF TypeOK
<1>3. /\ Elems(queue) = {} /\ Len(queue) = 0 /\ \A k : ~Has(queue, k)
      /\ \A a, b : Never(queue, a, b) /\ Cardinality(Held(queue)) = 0
  BY NoMessages DEF Init
<1>4. count = frmNum + Cardinality(Held(queue)) /\ tail = Wrap(head + count) /\ count <= Slots
  BY <1>3 DEF Init, Wrap
<1>5. OrderOK
  BY <1>3 DEF Init, OrderOK
<1>6. PatientOK
  <2>1. TurnsOK
    BY <1>3 DEF Init, TurnsOK, Dealing
  <2>2. IndicatedOK
    BY <1>3 DEF Init, IndicatedOK
  <2>3. CollectedOK /\ FlightOK /\ PeersOK
    BY DEF Init, CollectedOK, FlightOK, InFlight, PeersOK
  <2>4. LossOK
    BY DEF Init, LossOK, InFlight
  <2> QED
    BY <2>1, <2>2, <2>3, <2>4 DEF PatientOK
<1> QED
  BY <1>2, <1>3, <1>4, <1>5, <1>6 DEF Init, IInv, Running, RingAccount, HandedOver, WholeFrames

(* A step that keeps the message list, the ring and what the frames were    *)
(* copied from: what is left to show of it.                                 *)
LEMMA SameList ==
  ASSUME IInv, err = 0, UNCHANGED <<ringVars, comBuf, queue, err, peers>>, TypeOK', pc' # "error",
         OrderOK', peers = "patient" => PatientOK'
  PROVE  IInv'
<1>1. ASSUME NEW i \in 1 .. Len(queue) PROVE Content(queue[i])' = Content(queue[i])
  BY DEF Content, ringVars
<1>2. WholeFrames'
  BY <1>1 DEF IInv, WholeFrames
<1>3. HandedOver'
  BY DEF IInv, HandedOver
<1>4. (count = frmNum + Cardinality(Held(queue)) /\ tail = Wrap(head + count) /\ count <= Slots)'
  BY DEF IInv, Running, ringVars
<1> QED
  BY <1>2, <1>3, <1>4 DEF IInv, Running, RingAccount, ringVars

LEMMA ArriveStep == ASSUME IInv, Arrive PROVE IInv'
<1> USE DEF Arrive, MaySend, ringVars, macVars, osVars, history
<1>1. err = 0 /\ TypeOK /\ OrderOK
  BY DEF IInv, RingAccount, Running
<1>2. Sent \in Packet
  BY <1>1 DEF TypeOK, Sent, Packet
<1>3. TypeOK'
  BY <1>1, <1>2 DEF TypeOK, Advance
<1>4. OrderOK'
  BY <1>1 DEF TypeOK, OrderOK
<1>5. ASSUME peers = "patient" PROVE PatientOK'
  <2> USE <1>5
  <2>1. PatientOK /\ ~InFlight /\ (nxt = 0 => Quiet)
    BY <1>1 DEF IInv, Running, InFlight
  <2>2. /\ nxt \in Nat /\ len \in Nat /\ cur \in Nat /\ lossRun \in 0 .. 1
        /\ nxt < len /\ len <= MaxLen /\ frmNum \in Nat /\ frmNum < MaxLen
    BY <1>1, <2>1, SMTT(20) DEF TypeOK, PatientOK, PeersOK, CollectedOK
  <2> PICK p \in Packet : p = Sent
    BY <1>2
  <2>3. /\ InFlight' /\ Flying' = p
        /\ p.msg = cur /\ p.idx = nxt /\ (p.last <=> nxt + 1 = len)
    BY DEF InFlight, Flying, Sent
  <2>4. IF nxt + 1 < len THEN nxt' = nxt + 1 /\ UNCHANGED <<cur, len>>
        ELSE nxt' = 0 /\ cur' = cur + 1 /\ len' \in 1 .. MaxLen /\ nxt + 1 = len
    BY <2>2 DEF Advance
  <2>5. TurnsOK'
    <3>1. ~Dealing
      BY <2>1, NoMessages DEF PatientOK, TurnsOK, Quiet, Dealing
    <3> QED
      BY <2>1, <3>1 DEF PatientOK, TurnsOK, Dealing, InFlight
  <2>6. IndicatedOK'
    <3>1. \A m : Content(m)' = Content(m)
      BY DEF Content
    <3> QED
      BY <2>1, <3>1 DEF PatientOK, IndicatedOK, AtHead
  <2>7. \A k : Place(k)' = Place(k)
    BY DEF Place
  <2>8. CollectedOK'
    BY <2>1, <2>3, <2>7 DEF PatientOK, CollectedOK
  <2>9. frmNum > 0 => Follows(Place(frmNum - 1)) /\ Place(0).msg \in Nat
        /\ Place(frmNum - 1).msg = Place(0).msg /\ Place(frmNum - 1).idx = frmNum - 1
    <3> SUFFICES ASSUME frmNum > 0
                 PROVE  /\ Follows(Place(frmNum - 1)) /\ Place(0).msg \in Nat
                        /\ Place(frmNum - 1).msg = Place(0).msg
                        /\ Place(frmNum - 1).idx = frmNum - 1
      OBVIOUS
    <3>1. Follows(Place(frmNum - 1))
      BY <2>1 DEF PatientOK, CollectedOK
    <3>2. Place(frmNum - 1) = [msg |-> Place(0).msg, idx |-> frmNum - 1, last |-> FALSE]
      <4>1. frmNum - 1 \in 0 .. frmNum - 1
        BY <2>2
      <4> QED
        BY <2>1, <4>1 DEF PatientOK, CollectedOK
    <3>3. Place(0) \in Packet
      BY <1>1 DEF TypeOK, Place, Wrap
    <3> QED
      BY <3>1, <3>2, <3>3 DEF Packet
  <2>10. FlightOK'
    <3>1. p.last => nxt' = 0 /\ cur' = p.msg + 1 /\ lossRun' = 0
      BY <2>2, <2>3, <2>4
    <3>2. ~p.last => Follows(p)' /\ p.idx + 1 < MaxLen
      BY <2>2, <2>3, <2>4 DEF Follows
    <3>3. frmNum > 0 => \/ p.msg = Place(0).msg /\ p.idx >= frmNum
                        \/ p.msg > Place(0).msg /\ p.idx = 0
      BY <2>2, <2>3, <2>9 DEF Follows
    <3> QED
      BY <2>3, <2>7, <3>1, <3>2, <3>3 DEF FlightOK, Follows
  <2>11. PeersOK'
    BY <2>2, <2>4 DEF PeersOK
  <2>12. LossOK'
    <3>1. Intact(cur) => nxt = frmNum
      <4>1. CASE nxt > 0
        BY <2>1, <4>1 DEF PatientOK, LossOK
      <4>2. CASE nxt = 0 /\ frmNum > 0
        <5>1. lossRun = 1
          BY <2>2, <2>9, <4>2 DEF Follows
        <5> QED
          BY <2>1, <4>2, <5>1 DEF PatientOK, LossOK, Intact
      <4> QED
        BY <2>2, <4>1, <4>2
    <3>2. ASSUME NEW m \in 1 .. cur' - 1
          PROVE  \/ m \in delivered \/ ~Intact(m)
                 \/ p.msg = m /\ p.last
                 \/ \E i \in Elems(queue) : i.kind = "ind" /\ slots[i.hd].msg = m
      <4>1. CASE m \in 1 .. cur - 1
        BY <2>1, <4>1 DEF PatientOK, LossOK
      <4>2. CASE m \notin 1 .. cur - 1
        BY <2>2, <2>3, <2>4, <4>2
      <4> QED
        BY <4>1, <4>2
    <3> QED
      BY <2>3, <3>1, <3>2 DEF LossOK, Intact
  <2> QED
    BY <2>5, <2>6, <2>8, <2>10, <2>11, <2>12 DEF PatientOK
<1> QED
  BY <1>1, <1>3, <1>4, <1>5, SameList

LEMMA LoseStep == ASSUME IInv, Lose PROVE IInv'
<1> USE DEF Lose, MaySend, ringVars, macVars, radioVars, osVars
<1>1. err = 0 /\ TypeOK /\ OrderOK
  BY DEF IInv, RingAccount, Running
<1>2. TypeOK'
  BY <1>1 DEF TypeOK, Advance, MaxLossRun
<1>3. OrderOK'
  BY <1>1 DEF OrderOK
<1>4. ASSUME peers = "patient" PROVE PatientOK'
  <2> USE <1>4
  <2>1. PatientOK /\ lossRun = 0 /\ lossRun' = 1 /\ (nxt = 0 => Quiet)
    BY <1>1 DEF IInv, Running, MaxLossRun, TypeOK
  <2>2. /\ nxt \in Nat /\ len \in Nat /\ cur \in Nat
        /\ nxt < len /\ len <= MaxLen /\ frmNum \in Nat /\ frmNum < MaxLen
    <3>1. nxt \in Nat /\ len \in Nat /\ cur \in Nat /\ len <= MaxLen /\ frmNum \in Nat
      BY <1>1 DEF TypeOK
    <3>2. nxt < len /\ frmNum < MaxLen
      BY <2>1 DEF PatientOK, PeersOK, CollectedOK
    <3> QED
      BY <3>1, <3>2
  <2>3. InFlight' = InFlight /\ Flying' = Flying /\ \A k : Place(k)' = Place(k)
    BY DEF InFlight, Flying, Place
  <2>4. IF nxt + 1 < len THEN nxt' = nxt + 1 /\ UNCHANGED <<cur, len>>
        ELSE nxt' = 0 /\ cur' = cur + 1 /\ len' \in 1 .. MaxLen
    BY <2>2 DEF Advance
  <2>5. TurnsOK'
    <3>1. ~Dealing
      BY <2>1, NoMessages DEF PatientOK, TurnsOK, Quiet, Dealing
    <3> QED
      BY <2>1, <3>1 DEF PatientOK, TurnsOK, Dealing
  <2>6. IndicatedOK'
    <3>1. \A m : Content(m)' = Content(m)
      BY DEF Content
    <3> QED
      BY <2>1, <3>1 DEF PatientOK, IndicatedOK, AtHead
  <2>7. ASSUME NEW p \in Packet, Follows(p) PROVE Follows(p)'
    <3>1. p.msg \in Nat /\ p.idx \in Nat /\ cur = p.msg /\ nxt = p.idx + 1
      BY <2>1, <2>7 DEF Follows, Packet
    <3>2. \/ cur' = p.msg /\ nxt' = p.idx + 2
          \/ cur' = p.msg + 1 /\ nxt' = 0
      BY <2>2, <2>4, <3>1
    <3> QED
      BY <2>1, <3>2 DEF Follows
  <2>8. CollectedOK'
    <3>1. frmNum > 0 /\ ~InFlight => Follows(Place(frmNum - 1))'
      <4> SUFFICES ASSUME frmNum > 0, ~InFlight PROVE Follows(Place(frmNum - 1))'
        OBVIOUS
      <4>1. PICK p \in Packet : p = Place(frmNum - 1)
        BY <1>1, <2>2 DEF TypeOK, Place, Wrap
      <4>2. Follows(p)
        BY <2>1, <4>1 DEF PatientOK, CollectedOK
      <4>3. Follows(p)'
        BY <2>7, <4>2
      <4> QED
        BY <2>3, <4>1, <4>3 DEF Follows
    <3> QED
      BY <2>1, <2>3, <3>1 DEF PatientOK, CollectedOK
  <2>9. FlightOK'
    <3> SUFFICES ASSUME InFlight PROVE FlightOK'
      BY <2>3 DEF FlightOK
    <3>1. PICK p \in Packet : p = Flying
      BY <1>1 DEF TypeOK, Flying
    <3>2. ~p.last
      BY <2>1, <3>1 DEF Quiet, InFlight, PatientOK, FlightOK
    <3>3. Follows(p) /\ p.idx + 1 < MaxLen
      BY <2>1, <3>1, <3>2 DEF PatientOK, FlightOK
    <3>4. Follows(p)' /\ Flying' = p
      BY <2>3, <2>7, <3>1, <3>3
    <3>5. frmNum > 0 => \/ p.msg = Place(0).msg /\ p.idx >= frmNum
                        \/ p.msg > Place(0).msg /\ p.idx = 0
      BY <2>1, <3>1 DEF PatientOK, FlightOK
    <3> QED
      BY <2>3, <3>2, <3>3, <3>4, <3>5 DEF FlightOK, Follows
  <2>10. PeersOK'
    BY <2>1, <2>2, <2>4 DEF PeersOK
  <2>11. LossOK'
    <3>1. IF nxt' > 0 THEN cur' \in lost' ELSE cur' - 1 \in lost'
      BY <2>2, <2>4
    <3>2. ~InFlight /\ nxt' > 0 => ~Intact(cur)'
      BY <3>1 DEF Intact
    <3>3. InFlight /\ Intact(Flying.msg)' => Flying.idx = frmNum
      <4>1. Intact(Flying.msg)' => Intact(Flying.msg)
        BY <2>3 DEF Intact
      <4> QED
        BY <2>1, <4>1 DEF PatientOK, LossOK
    <3>4. ASSUME NEW m \in 1 .. cur' - 1
          PROVE  \/ m \in delivered \/ ~Intact(m)'
                 \/ InFlight /\ Flying.msg = m /\ Flying.last
                 \/ \E i \in Elems(queue) : i.kind = "ind" /\ slots[i.hd].msg = m
      <4>1. CASE m \in 1 .. cur - 1
        <5>1. Intact(m)' => Intact(m)
          BY DEF Intact
        <5> QED
          BY <2>1, <4>1, <5>1 DEF PatientOK, LossOK
      <4>2. CASE m \notin 1 .. cur - 1
        <5>1. m = cur
          BY <2>2, <2>4, <4>2
        <5> QED
          BY <5>1 DEF Intact
      <4> QED
        BY <4>1, <4>2
    <3> QED
      BY <2>1, <2>3, <3>1, <3>2, <3>3, <3>4 DEF LossOK, Intact
  <2> QED
    BY <2>5, <2>6, <2>8, <2>9, <2>10, <2>11 DEF PatientOK
<1> QED
  BY <1>1, <1>2, <1>3, <1>4, SameList

(* What was said of the ring and of the peers stays true while both stay,   *)
(* and no indication goes but to a delivered frame.                         *)
LEMMA SameRing ==
  ASSUME PatientOK, UNCHANGED <<slots, head, tail, frmNum, dr, payload, sentVars, lost>>,
         InFlight' = InFlight, delivered \subseteq delivered',
         \A i \in Elems(queue) :
           i.kind = "ind" => i \in Elems(queue') \/ slots[i.hd].msg \in delivered'
  PROVE  CollectedOK' /\ FlightOK' /\ PeersOK' /\ LossOK'
<1>1. Flying' = Flying /\ \A k : Place(k)' = Place(k)
  BY DEF Flying, Place
<1>2. PeersOK'
  BY DEF PatientOK, PeersOK, sentVars
<1>3. CollectedOK'
  BY <1>1 DEF PatientOK, CollectedOK, Follows, sentVars
<1>4. FlightOK'
  BY <1>1 DEF PatientOK, FlightOK, Follows, sentVars
<1>5. LossOK'
  <2>1. /\ lossRun = 1 => IF nxt > 0 THEN cur \in lost ELSE cur - 1 \in lost
        /\ ~InFlight /\ nxt > 0 /\ Intact(cur) => frmNum = nxt
        /\ InFlight /\ Intact(Flying.msg) => Flying.idx = frmNum
    BY DEF PatientOK, LossOK
  <2>2. ASSUME NEW m \in 1 .. cur - 1
        PROVE  \/ m \in delivered' \/ ~Intact(m)
               \/ InFlight /\ Flying.msg = m /\ Flying.last
               \/ \E i \in Elems(queue') : i.kind = "ind" /\ slots[i.hd].msg = m
    BY DEF PatientOK, LossOK
  <2> QED
    BY <1>1, <2>1, <2>2 DEF LossOK, Intact, sentVars
<1> QED
  BY <1>2, <1>3, <1>4, <1>5

LEMMA RxCheckStep == ASSUME IInv, RxCheck PROVE IInv'
<1> USE DEF RxCheck, ringVars, macVars, sentVars, peerVars, history
<1>1. /\ err = 0 /\ TypeOK /\ OrderOK /\ HandedOver /\ WholeFrames
      /\ count = frmNum + Cardinality(Held(queue)) /\ tail = Wrap(head + count) /\ count <= Slots
  BY DEF IInv, RingAccount, Running
<1>2. CASE ~rxReady
  <2> USE <1>2
  <2>1. TypeOK' /\ OrderOK'
    BY <1>1 DEF TypeOK, OrderOK
  <2>2. ASSUME peers = "patient" PROVE PatientOK'
    <3>1. PatientOK
      BY <1>1, <2>2 DEF IInv, Running
    <3>2. InFlight' = InFlight
      BY DEF InFlight
    <3>3. CollectedOK' /\ FlightOK' /\ PeersOK' /\ LossOK'
      BY <3>1, <3>2, SameRing
    <3>4. TurnsOK'
      BY <3>1 DEF PatientOK, TurnsOK, Dealing
    <3>5. \A m : Content(m)' = Content(m)
      BY DEF Content
    <3>6. IndicatedOK'
      BY <3>1, <3>5 DEF PatientOK, IndicatedOK, AtHead
    <3> QED
      BY <3>3, <3>4, <3>6 DEF PatientOK
  <2> QED
    BY <1>1, <2>1, <2>2, SameList
<1>3. CASE rxReady /\ Len(queue) >= QMax
  <2> USE <1>3
  <2>1. TypeOK' /\ pc' = "error" /\ err' = 16 /\ queue' = queue
    BY <1>1 DEF TypeOK, Fail
  <2>2. HandedOver'
    BY <1>1, <2>1 DEF HandedOver
  <2> QED
    BY <1>1, <2>1, <2>2, Stopped
<1>4. CASE rxReady /\ Len(queue) < QMax
  <2> USE <1>4
  <2>1. queue \in Seq(Message) /\ Len(queue) \in Nat
    BY <1>1 DEF TypeOK
  <2> PICK m \in Message : m = Msg("rx") /\ m.kind = "rx" /\ Pending(m) = 0
    BY MsgType
  <2>2. /\ queue' = Append(queue, m) /\ rxReady' = FALSE /\ pc' = "serve" /\ err' = 0
        /\ getDataEnd' = FALSE /\ pc # "reopen" /\ pc # "error"
        /\ UNCHANGED <<ringVars, macVars, dr, payload, peerVars, requests, history>>
    <3>1. ~(Len(queue) >= QMax)
      BY <2>1
    <3> QED
      BY <1>1, <3>1
  <2> HIDE DEF RxCheck
  <2>3. /\ queue' \in Seq(Message) /\ Len(queue') = Len(queue) + 1
        /\ Elems(queue') = Elems(queue) \cup {m}
        /\ \A k : Has(queue', k) <=> Has(queue, k) \/ m.kind = k
        /\ \A a, b : Never(queue, a, b) /\ (~Has(queue, a) \/ m.kind # b) => Never(queue', a, b)
        /\ Cardinality(Held(queue')) = Cardinality(Held(queue)) + Pending(m)
    BY <2>1, <2>2, Posted
  <2>4. TypeOK'
    <3>1. queue' \in Seq(Message) /\ Len(queue') <= QMax
      BY <2>1, <2>3
    <3> QED
      BY <1>1, <2>2, <3>1 DEF TypeOK
  <2>5. Cardinality(Held(queue')) = Cardinality(Held(queue))
    BY <2>1, <2>3, HeldFinite, FS_CardinalityType
  <2>6. OrderOK'
    BY <1>1, <2>2, <2>3 DEF OrderOK
  <2>7. HandedOver'
    <3>1. \A i \in Elems(queue') : i.kind = "data" => comBuf' = i.from
      BY <1>1, <2>2, <2>3 DEF HandedOver, Elems
    <3> QED
      BY <3>1 DEF HandedOver, Elems
  <2>8. ASSUME peers = "patient" PROVE PatientOK' /\ WholeFrames'
    <3>1. PatientOK
      BY <1>1, <2>8 DEF IInv, Running
    <3>2. InFlight' = InFlight /\ pc # "reopen"
      BY <2>2 DEF InFlight
    <3>3. CollectedOK' /\ FlightOK' /\ PeersOK' /\ LossOK'
      BY <2>2, <2>3, <3>1, <3>2, SameRing
    <3>4. TurnsOK'
      BY <2>2, <2>3, <3>1, <3>2 DEF PatientOK, TurnsOK, Dealing
    <3>5. \A i : Content(i)' = Content(i)
      BY <2>2 DEF Content
    <3>6. IndicatedOK'
      BY <2>2, <2>3, <3>1, <3>5 DEF PatientOK, IndicatedOK, AtHead
    <3>7. WholeFrames'
      BY <3>6 DEF IndicatedOK, WholeFrames, Elems
    <3> QED
      BY <3>3, <3>4, <3>6, <3>7 DEF PatientOK
  <2>9. RingAccount' /\ WholeFrames' /\ Running'
    BY <1>1, <2>2, <2>4, <2>5, <2>6, <2>8 DEF IInv, RingAccount, Running, WholeFrames
  <2> QED
    BY <2>2, <2>7, <2>9 DEF IInv
<1> QED
  BY <1>1, <1>2, <1>3, <1>4 DEF TypeOK

LEMMA RequestStep == ASSUME IInv, Request PROVE IInv'
<1> USE DEF Request, ringVars, macVars, radioVars, sentVars, peerVars, history
<1>1. /\ err = 0 /\ TypeOK /\ OrderOK /\ HandedOver /\ WholeFrames
      /\ count = frmNum + Cardinality(Held(queue)) /\ tail = Wrap(head + count) /\ count <= Slots
  BY DEF IInv, RingAccount, Running
<1>2. queue \in Seq(Message) /\ Len(queue) \in Nat
  BY <1>1 DEF TypeOK
<1> PICK m \in Message : m = Msg("tx") /\ m.kind = "tx" /\ Pending(m) = 0
  BY MsgType
<1>3. /\ queue' \in Seq(Message) /\ Len(queue') = Len(queue) + 1
      /\ Elems(queue') = Elems(queue) \cup {m}
      /\ \A k : Has(queue', k) <=> Has(queue, k) \/ m.kind = k
      /\ \A a, b : Never(queue, a, b) /\ (~Has(queue, a) \/ m.kind # b) => Never(queue', a, b)
      /\ Cardinality(Held(queue')) = Cardinality(Held(queue)) + Pending(m)
  BY <1>2, Posted
<1>4. TypeOK'
  BY <1>1, <1>2, <1>3 DEF TypeOK
<1>5. Cardinality(Held(queue')) = Cardinality(Held(queue))
  BY <1>2, <1>3, HeldFinite, FS_CardinalityType
<1>6. OrderOK'
  BY <1>1, <1>3 DEF OrderOK
<1>7. HandedOver'
  <2>1. \A i \in Elems(queue') : i.kind = "data" => comBuf' = i.from
    BY <1>1, <1>3 DEF HandedOver, Elems
  <2> QED
    BY <2>1 DEF HandedOver, Elems
<1>8. ASSUME peers = "patient" PROVE PatientOK' /\ WholeFrames'
  <2>1. PatientOK /\ Quiet /\ nxt = 0
    BY <1>1, <1>8 DEF IInv, Running
  <2>2. InFlight' = InFlight /\ \A k : ~Has(queue, k)
    BY <2>1, NoMessages DEF InFlight, Quiet
  <2>3. CollectedOK' /\ FlightOK' /\ PeersOK' /\ LossOK'
    BY <1>3, <2>1, <2>2, SameRing
  <2>4. TurnsOK'
    BY <1>3, <2>1, <2>2 DEF Quiet, TurnsOK, Dealing
  <2>5. \A i : Content(i)' = Content(i)
    BY DEF Content
  <2>6. IndicatedOK'
    BY <1>3, <2>1, <2>5 DEF PatientOK, IndicatedOK, AtHead
  <2>7. WholeFrames'
    BY <2>6 DEF IndicatedOK, WholeFrames, Elems
  <2> QED
    BY <2>3, <2>4, <2>6, <2>7 DEF PatientOK
<1>9. RingAccount' /\ WholeFrames' /\ Running'
  BY <1>1, <1>4, <1>5, <1>6, <1>8 DEF IInv, RingAccount, Running, WholeFrames
<1> QED
  BY <1>7, <1>9 DEF IInv

(* While packets are received, no slot is held by a message of the list.    *)
LEMMA NotDealing ==
  ASSUME TypeOK, ~Dealing
  PROVE  /\ \A k \in {"ind", "res", "tx", "data", "other"} : ~Has(queue, k)
         /\ Cardinality(Held(queue)) = 0
<1>1. \A k \in {"ind", "res", "tx", "data", "other"} : ~Has(queue, k)
  BY DEF Dealing
<1> QED
  BY <1>1, HeldNone DEF TypeOK

LEMMA RxPacketStep == ASSUME IInv, RxPacket PROVE IInv'
<1> USE DEF RxPacket, macVars, sentVars, peerVars, history
<1>1. /\ err = 0 /\ TypeOK /\ OrderOK /\ HandedOver /\ WholeFrames
      /\ count = frmNum + Cardinality(Held(queue)) /\ tail = Wrap(head + count) /\ count <= Slots
      /\ queue # <<>> /\ Head(queue).kind = "rx" /\ pc = "serve"
  BY DEF IInv, RingAccount, Running, Serving
<1>2. TypeOK'
  <2>1. slots' \in [0 .. Slots - 1 -> Packet]
    BY <1>1 DEF TypeOK
  <2> QED
    BY <1>1, <2>1 DEF TypeOK
<1>3. OrderOK'
  BY <1>1 DEF OrderOK
<1>4. HandedOver'
  BY <1>1 DEF HandedOver
<1>5. ASSUME peers = "patient" PROVE PatientOK' /\ WholeFrames'
  <2>1. PatientOK
    BY <1>1, <1>5 DEF IInv, Running
  <2>2. Has(queue, "rx")
    BY <1>1, ElemsServed DEF Has, TypeOK
  <2>3. dr /\ ~Dealing /\ slots' = [slots EXCEPT ![tail] = payload]
    BY <1>1, <2>1, <2>2 DEF PatientOK, TurnsOK
  <2>4. \A k \in {"ind", "res", "tx", "data", "other"} : ~Has(queue, k)
    BY <1>1, <2>3, NotDealing
  <2>5. frmNum \in Nat /\ frmNum < MaxLen /\ head \in 0 .. Slots - 1 /\ tail = Wrap(head + frmNum)
    BY <1>1, <2>1, <2>3, NotDealing, SMTT(20) DEF TypeOK, PatientOK, CollectedOK
  <2>6. ASSUME NEW k \in 0 .. frmNum - 1 PROVE Place(k)' = Place(k)
    <3>1. Wrap(head + k) # tail
      <4>1. k \in 0 .. Slots - 1 /\ frmNum \in 0 .. Slots - 1 /\ k # frmNum
        BY <2>5
      <4> QED
        BY <2>5, <4>1, WrapApart
    <3>2. Wrap(head + k) \in 0 .. Slots - 1
      BY <2>5, WrapType
    <3> QED
      BY <1>1, <2>3, <3>1, <3>2 DEF Place, TypeOK
  <2>7. InFlight /\ InFlight' /\ Flying' = Flying
    BY <1>1, <2>3 DEF InFlight, Flying, TypeOK
  <2>8. TurnsOK'
    BY <2>3, <2>4 DEF TurnsOK, Dealing
  <2>9. IndicatedOK'
    BY <2>1, <2>4 DEF PatientOK, IndicatedOK, Has
  <2>10. CollectedOK'
    <3> SUFFICES ASSUME frmNum > 0
                 PROVE  \A k \in 0 .. frmNum - 1 :
                          Place(k)' = [msg |-> Place(0)'.msg, idx |-> k, last |-> FALSE]
      BY <2>5, <2>7 DEF CollectedOK
    <3>1. 0 \in 0 .. frmNum - 1
      BY <2>5
    <3> QED
      BY <2>1, <2>6, <3>1 DEF PatientOK, CollectedOK
  <2>11. FlightOK'
    <3>1. frmNum > 0 => Place(0)' = Place(0)
      BY <2>5, <2>6
    <3> QED
      BY <2>1, <2>7, <3>1 DEF PatientOK, FlightOK, Follows
  <2>12. PeersOK'
    BY <2>1 DEF PatientOK, PeersOK
  <2>13. LossOK'
    <3>1. ~\E i \in Elems(queue) : i.kind = "ind"
      BY <2>4 DEF Has
    <3> QED
      BY <2>1, <2>7, <3>1 DEF PatientOK, LossOK, Intact
  <2>14. WholeFrames'
    BY <2>4 DEF WholeFrames, Has, Elems
  <2> QED
    BY <2>8, <2>9, <2>10, <2>11, <2>12, <2>13, <2>14 DEF PatientOK
<1>6. RingAccount' /\ WholeFrames' /\ Running'
  BY <1>1, <1>2, <1>3, <1>5 DEF IInv, RingAccount, Running, WholeFrames
<1> QED
  BY <1>1, <1>4, <1>6 DEF IInv

(* A packet of patient peers is in hand: what the handler knows.            *)
LEMMA InHand ==
  ASSUME IInv, err = 0, pc = "reopen"
  PROVE  /\ TypeOK /\ OrderOK /\ HandedOver /\ count <= Slots /\ count >= frmNum
         /\ count = frmNum + Cardinality(Held(queue)) /\ tail = Wrap(head + count)
         /\ queue \in Seq(Message) /\ queue # <<>> /\ Head(queue).kind = "rx"
         /\ Head(queue) \in Message /\ Pending(Head(queue)) = 0 /\ ~getDataEnd /\ ~rxReady
         /\ ~Has(Tail(queue), "rx") /\ ~Has(Tail(queue), "ind")
         /\ peers = "patient" =>
              /\ PatientOK /\ ~dr /\ ~Dealing /\ InFlight /\ Flying = slots[tail]
              /\ \A k \in {"ind", "res", "tx", "data", "other"} : ~Has(queue, k)
              /\ count = frmNum /\ frmNum < MaxLen
<1>1. /\ TypeOK /\ OrderOK /\ HandedOver /\ count <= Slots
      /\ count = frmNum + Cardinality(Held(queue)) /\ tail = Wrap(head + count)
      /\ queue \in Seq(Message) /\ queue # <<>> /\ Head(queue).kind = "rx"
  BY DEF IInv, RingAccount, Running, OrderOK, TypeOK
<1>2. Head(queue) \in Message /\ Pending(Head(queue)) = 0
  BY <1>1, ServedList DEF Pending
<1>3. count >= frmNum
  BY <1>1, HeldFinite, FS_CardinalityType DEF TypeOK
<1>4. Has(queue, "rx")
  BY <1>1, ElemsServed DEF Has
<1>5. ~getDataEnd /\ ~rxReady
  BY <1>1, <1>4 DEF OrderOK
<1>6. ~Has(Tail(queue), "rx") /\ ~Has(Tail(queue), "ind")
  BY <1>1, NeverServed DEF OrderOK
<1>7. ASSUME peers = "patient"
      PROVE  /\ PatientOK /\ ~dr /\ ~Dealing /\ InFlight /\ Flying = slots[tail]
             /\ \A k \in {"ind", "res", "tx", "data", "other"} : ~Has(queue, k)
             /\ count = frmNum /\ frmNum < MaxLen
  <2>1. PatientOK
    BY <1>7 DEF IInv, Running
  <2>2. ~dr /\ ~Dealing /\ InFlight /\ Flying = slots[tail]
    BY <2>1 DEF PatientOK, TurnsOK, InFlight, Flying
  <2>3. /\ \A k \in {"ind", "res", "tx", "data", "other"} : ~Has(queue, k)
        /\ Cardinality(Held(queue)) = 0
    BY <1>1, <2>2, NotDealing
  <2>4. count = frmNum /\ frmNum < MaxLen
    BY <1>1, <2>1, <2>3 DEF PatientOK, CollectedOK, TypeOK
  <2> QED
    BY <2>1, <2>2, <2>3, <2>4
<1> QED
  BY <1>1, <1>2, <1>3, <1>5, <1>6, <1>7

(* The three ends of EMN_PHY_RxPacket: the packet is dropped, and those     *)
(* collected with it; it is put behind them; or it completes the frame.     *)
LEMMA DiscardStep ==
  ASSUME IInv, RxReadyHandled, frmNum # slots[tail].idx
  PROVE  IInv'
<1> USE DEF RxReadyHandled, macVars, sentVars, peerVars, history
<1>1. err = 0
  BY DEF IInv
<1>2. /\ TypeOK /\ OrderOK /\ HandedOver /\ count <= Slots /\ count >= frmNum
      /\ count = frmNum + Cardinality(Held(queue)) /\ tail = Wrap(head + count)
      /\ queue \in Seq(Message) /\ queue # <<>> /\ Head(queue).kind = "rx"
      /\ Pending(Head(queue)) = 0 /\ ~rxReady
  BY <1>1, InHand
<1>3. /\ count' = count - frmNum /\ frmNum' = 0
      /\ tail' = IF tail >= frmNum THEN tail - frmNum ELSE Slots - (frmNum - tail)
      /\ Return(<<>>)
  BY <1>2 DEF Discard
<1>4. /\ getDataEnd' = TRUE
      /\ UNCHANGED <<slots, head, comBuf, dr, payload, rxReady, peerVars, requests, history>>
  OBVIOUS
<1> HIDE DEF RxReadyHandled
<1>5. pc' = "rx" /\ err' = 0 /\ queue' = Tail(queue) \o <<>>
  <2>1. <<>> \in Seq(Message) /\ Len(<<>>) = 0
    BY NoMessages
  <2>2. Len(queue) + 0 <= QMax
    BY <1>2 DEF TypeOK
  <2> QED
    BY <1>1, <1>3, <2>1, <2>2 DEF Return
<1>6. /\ queue' \in Seq(Message) /\ Len(queue') = Len(queue) - 1
      /\ Elems(queue) = {Head(queue)} \cup Elems(queue')
      /\ \A k : Has(queue, k) <=> Head(queue).kind = k \/ Has(queue', k)
      /\ \A a, b : Never(queue, a, b) =>
           Never(queue', a, b) /\ (Head(queue).kind = a => ~Has(queue', b))
      /\ Cardinality(Held(queue')) = Cardinality(Held(queue)) - Pending(Head(queue))
  BY <1>2, <1>5, ServedOnly
<1>7. tail' = Wrap(head + count') /\ count' \in 0 .. Slots /\ tail' \in 0 .. Slots - 1
  <2>1. head \in 0 .. Slots - 1 /\ count \in 0 .. Slots /\ frmNum \in 0 .. count
    BY <1>2 DEF TypeOK
  <2>2. tail' = Wrap(head + (count - frmNum))
    <3>1. CASE head + count < Slots
      <4>1. tail = head + count
        BY <1>2, <2>1, <3>1 DEF Wrap
      <4> QED
        BY <1>3, <2>1, <3>1, <4>1 DEF Wrap
    <3>2. CASE head + count >= Slots
      <4>1. tail = head + count - Slots
        BY <1>2, <2>1, <3>2 DEF Wrap
      <4> QED
        BY <1>3, <2>1, <3>2, <4>1 DEF Wrap
    <3> QED
      BY <2>1, <3>1, <3>2
  <2>3. head + (count - frmNum) \in 0 .. 2 * Slots - 1 /\ count' \in 0 .. Slots
    BY <1>3, <2>1
  <2> QED
    BY <1>3, <2>2, <2>3, WrapType
<1>8. TypeOK'
  <2>1. queue' \in Seq(Message) /\ Len(queue') <= QMax
    BY <1>2, <1>6 DEF TypeOK
  <2>2. /\ count' \in 0 .. Slots + 1 /\ tail' \in 0 .. Slots - 1 /\ frmNum' \in 0 .. MaxLen
        /\ getDataEnd' \in BOOLEAN /\ pc' \in {"serve", "reopen", "rx", "error"}
        /\ err' \in {0, 5, 6, 16}
    BY <1>3, <1>4, <1>5, <1>7
  <2> QED
    BY <1>2, <1>4, <2>1, <2>2 DEF TypeOK
<1>9. OrderOK'
  BY <1>2, <1>4, <1>5, <1>6 DEF OrderOK
<1>10. HandedOver'
  <2>1. \A i \in Elems(queue') : i.kind = "data" => comBuf' = i.from
    <3>1. \A i \in Elems(queue) : i.kind = "data" => comBuf = i.from
      BY <1>2 DEF HandedOver, Elems
    <3> QED
      BY <1>4, <1>6, <3>1
  <2> QED
    BY <2>1 DEF HandedOver, Elems
<1>11. (count = frmNum + Cardinality(Held(queue)))'
  BY <1>2, <1>3, <1>6, HeldFinite, FS_CardinalityType, SMTT(20) DEF TypeOK
<1>12. ASSUME peers = "patient" PROVE PatientOK' /\ WholeFrames'
  <2>1. /\ PatientOK /\ ~dr /\ InFlight /\ Flying = slots[tail]
        /\ \A k \in {"ind", "res", "tx", "data", "other"} : ~Has(queue, k)
    BY <1>1, <1>12, InHand DEF RxReadyHandled
  <2>2. \A k : ~Has(queue', k) \/ k \notin {"rx", "ind", "res", "tx", "data", "other"}
    BY <1>2, <1>6, <2>1 DEF OrderOK
  <2>3. ~InFlight'
    BY <1>4, <1>5, <2>1 DEF InFlight
  <2>4. TurnsOK'
    BY <1>2, <1>3, <1>4, <1>5, <1>6, <2>1, <2>2 DEF TurnsOK, Dealing
  <2>5. IndicatedOK'
    BY <1>6, <2>1, <2>2 DEF PatientOK, IndicatedOK, Has
  <2>6. CollectedOK' /\ FlightOK'
    BY <1>3, <2>3 DEF CollectedOK, FlightOK
  <2>7. PeersOK'
    BY <1>4, <2>1 DEF PatientOK, PeersOK
  <2>8. ~Intact(Flying.msg)
    BY <2>1 DEF PatientOK, LossOK
  <2>9. nxt > 0 => ~Intact(cur)
    <3>1. nxt > 0 => ~Flying.last
      BY <2>1 DEF PatientOK, FlightOK
    <3>2. lossRun \in 0 .. 1 /\ cur \in Nat /\ nxt \in Nat
      BY <1>2, <2>1 DEF TypeOK, PatientOK, PeersOK
    <3>3. nxt > 0 /\ lossRun = 0 => cur = Flying.msg
      BY <2>1, <3>1 DEF PatientOK, FlightOK, Follows
    <3>4. nxt > 0 /\ lossRun = 1 => cur \in lost
      BY <2>1 DEF PatientOK, LossOK
    <3> QED
      BY <2>8, <3>2, <3>3, <3>4 DEF Intact
  <2>10. LossOK'
    <3>1. lossRun = 1 => IF nxt > 0 THEN cur \in lost ELSE cur - 1 \in lost
      BY <2>1 DEF PatientOK, LossOK
    <3>2. ASSUME NEW m \in 1 .. cur - 1 PROVE m \in delivered \/ ~Intact(m)
      BY <2>1, <2>8 DEF PatientOK, LossOK, Has
    <3> QED
      BY <1>4, <2>3, <2>9, <3>1, <3>2 DEF LossOK, Intact
  <2>11. WholeFrames'
    BY <2>2 DEF WholeFrames, Has, Elems
  <2> QED
    BY <2>4, <2>5, <2>6, <2>7, <2>10, <2>11 DEF PatientOK
<1>13. RingAccount' /\ WholeFrames' /\ Running'
  BY <1>4, <1>5, <1>7, <1>8, <1>9, <1>11, <1>12 DEF RingAccount, Running, WholeFrames
<1> QED
  BY <1>5, <1>10, <1>13 DEF IInv

(* What the ring holds after the packet at the tail is collected.           *)
LEMMA CollectRing ==
  ASSUME IInv, err = 0, pc = "reopen", frmNum = slots[tail].idx,
         count' = count + 1, tail' = Wrap(tail + 1),
         frmNum' = IF slots[tail].last THEN 0 ELSE frmNum + 1
  PROVE  /\ count' \in 0 .. Slots + 1 /\ tail' \in 0 .. Slots - 1
         /\ frmNum' \in 0 .. MaxLen /\ frmNum + 1 \in 1 .. MaxLen
         /\ count + 1 <= Slots => tail' = Wrap(head + count')
         /\ peers = "patient" =>
              /\ count + 1 <= Slots /\ frmNum + 1 <= 8
              /\ \A k \in 0 .. frmNum :
                   Place(k) = [msg |-> Place(0).msg, idx |-> k,
                               last |-> k = frmNum /\ slots[tail].last]
              /\ Place(0).msg = slots[tail].msg /\ Place(frmNum) = slots[tail]
<1>1. /\ TypeOK /\ count <= Slots /\ tail = Wrap(head + count)
      /\ peers = "patient" =>
           /\ PatientOK /\ ~dr /\ InFlight /\ Flying = slots[tail]
           /\ count = frmNum /\ frmNum < MaxLen
  BY InHand
<1>2. /\ head \in 0 .. Slots - 1 /\ tail \in 0 .. Slots - 1 /\ count \in 0 .. Slots
      /\ frmNum \in 0 .. MaxLen /\ slots[tail] \in Packet
  BY <1>1 DEF TypeOK
<1>3. frmNum + 1 \in 1 .. MaxLen /\ frmNum' \in 0 .. MaxLen
  BY <1>2 DEF Packet
<1>4. count' \in 0 .. Slots + 1 /\ tail' \in 0 .. Slots - 1
  BY <1>2 DEF Wrap
<1>5. count + 1 <= Slots => tail' = Wrap(head + count')
  BY <1>1, <1>2 DEF Wrap
<1>6. ASSUME peers = "patient"
      PROVE  /\ count + 1 <= Slots /\ frmNum + 1 <= 8
             /\ \A k \in 0 .. frmNum :
                  Place(k) = [msg |-> Place(0).msg, idx |-> k,
                              last |-> k = frmNum /\ slots[tail].last]
             /\ Place(0).msg = slots[tail].msg /\ Place(frmNum) = slots[tail]
  <2>1. count + 1 <= Slots /\ frmNum + 1 <= 8
    BY <1>1, <1>2, <1>3, <1>6
  <2>2. Place(frmNum) = slots[tail]
    BY <1>1, <1>6 DEF Place
  <2>3. Place(0).msg = slots[tail].msg
    <3>1. CASE frmNum = 0
      BY <2>2, <3>1
    <3>2. CASE frmNum > 0
      BY <1>1, <1>2, <1>6, <3>2 DEF PatientOK, FlightOK
    <3> QED
      BY <1>2, <3>1, <3>2
  <2>4. ASSUME NEW k \in 0 .. frmNum
        PROVE  Place(k) = [msg |-> Place(0).msg, idx |-> k,
                           last |-> k = frmNum /\ slots[tail].last]
    <3>1. CASE k = frmNum
      <4>1. slots[tail] = [msg |-> slots[tail].msg, idx |-> slots[tail].idx,
                           last |-> slots[tail].last]
        BY <1>2 DEF Packet
      <4>2. slots[tail].last \in BOOLEAN
        BY <1>2 DEF Packet
      <4>3. (k = frmNum /\ slots[tail].last) = slots[tail].last
        BY <3>1, <4>2
      <4> QED
        BY <2>2, <2>3, <3>1, <4>1, <4>3
    <3>2. CASE k # frmNum
      <4>1. k \in 0 .. frmNum - 1 /\ frmNum > 0
        BY <1>2, <3>2
      <4>2. Place(k) = [msg |-> Place(0).msg, idx |-> k, last |-> FALSE]
        BY <1>1, <1>6, <4>1 DEF PatientOK, CollectedOK
      <4>3. (k = frmNum /\ slots[tail].last) = FALSE
        BY <3>2
      <4> QED
        BY <4>2, <4>3
    <3> QED
      BY <3>1, <3>2
  <2> QED
    BY <2>1, <2>2, <2>3, <2>4
<1> QED
  BY <1>3, <1>4, <1>5, <1>6

LEMMA CollectMore ==
  ASSUME IInv, RxReadyHandled, frmNum = slots[tail].idx, ~slots[tail].last
  PROVE  IInv'
<1> USE DEF RxReadyHandled, macVars, sentVars, peerVars, history
<1>1. err = 0 /\ pc = "reopen"
  BY DEF IInv
<1>2. /\ TypeOK /\ OrderOK /\ HandedOver /\ WholeFrames /\ count <= Slots
      /\ count = frmNum + Cardinality(Held(queue))
      /\ queue \in Seq(Message) /\ queue # <<>> /\ Head(queue).kind = "rx"
      /\ Pending(Head(queue)) = 0 /\ ~rxReady
  BY <1>1, InHand DEF IInv
<1>3. /\ tail' = Wrap(tail + 1) /\ count' = count + 1 /\ frmNum' = frmNum + 1
      /\ IF count + 1 > Slots \/ frmNum + 1 > 8 THEN Fail(6) ELSE Return(<<>>)
  BY DEF Collect
<1>4. /\ getDataEnd' = TRUE
      /\ UNCHANGED <<slots, head, comBuf, dr, payload, rxReady, peerVars, requests, history>>
  OBVIOUS
<1> HIDE DEF RxReadyHandled
<1>5. /\ count' \in 0 .. Slots + 1 /\ tail' \in 0 .. Slots - 1
      /\ frmNum' \in 0 .. MaxLen
      /\ count + 1 <= Slots => tail' = Wrap(head + count')
      /\ peers = "patient" =>
           /\ count + 1 <= Slots /\ frmNum + 1 <= 8
           /\ \A k \in 0 .. frmNum :
                Place(k) = [msg |-> Place(0).msg, idx |-> k,
                            last |-> k = frmNum /\ slots[tail].last]
           /\ Place(frmNum) = slots[tail]
  BY <1>1, <1>3, CollectRing
<1>6. CASE count + 1 > Slots \/ frmNum + 1 > 8
  <2>1. pc' = "error" /\ err' = 6 /\ queue' = queue
    BY <1>3, <1>6 DEF Fail
  <2>2. peers # "patient"
    <3>1. count \in Int /\ frmNum \in Int
      BY <1>2 DEF TypeOK
    <3> QED
      BY <1>5, <1>6, <3>1
  <2>3. TypeOK'
    BY <1>2, <1>4, <1>5, <2>1 DEF TypeOK
  <2>4. HandedOver'
    BY <1>2, <1>4, <2>1 DEF HandedOver
  <2> QED
    BY <1>1, <1>4, <2>1, <2>2, <2>3, <2>4, Stopped
<1>7. CASE ~(count + 1 > Slots \/ frmNum + 1 > 8)
  <2>1. pc' = "rx" /\ err' = 0 /\ queue' = Tail(queue) \o <<>>
    <3>1. Len(<<>>) = 0 /\ Len(queue) + 0 <= QMax
      BY <1>2, NoMessages DEF TypeOK
    <3> QED
      BY <1>1, <1>3, <1>7, <3>1 DEF Return
  <2>2. /\ queue' \in Seq(Message) /\ Len(queue') = Len(queue) - 1
        /\ Elems(queue) = {Head(queue)} \cup Elems(queue')
        /\ \A k : Has(queue, k) <=> Head(queue).kind = k \/ Has(queue', k)
        /\ \A a, b : Never(queue, a, b) =>
             Never(queue', a, b) /\ (Head(queue).kind = a => ~Has(queue', b))
        /\ Cardinality(Held(queue')) = Cardinality(Held(queue)) - Pending(Head(queue))
    BY <1>2, <2>1, ServedOnly
  <2>3. TypeOK'
    <3>1. queue' \in Seq(Message) /\ Len(queue') <= QMax
      BY <1>2, <2>2 DEF TypeOK
    <3>2. /\ getDataEnd' \in BOOLEAN /\ pc' \in {"serve", "reopen", "rx", "error"}
          /\ err' \in {0, 5, 6, 16}
      BY <1>4, <2>1
    <3> QED
      BY <1>2, <1>4, <1>5, <3>1, <3>2 DEF TypeOK
  <2>4. OrderOK'
    BY <1>2, <1>4, <2>1, <2>2 DEF OrderOK
  <2>5. HandedOver'
    <3>1. \A i \in Elems(queue) : i.kind = "data" => comBuf = i.from
      BY <1>2 DEF HandedOver, Elems
    <3>2. \A i \in Elems(queue') : i.kind = "data" => comBuf' = i.from
      BY <1>4, <2>2, <3>1
    <3> QED
      BY <3>2 DEF HandedOver, Elems
  <2>6. (count = frmNum + Cardinality(Held(queue)) /\ tail = Wrap(head + count)
          /\ count <= Slots)'
    <3>1. count \in Nat /\ frmNum \in Nat /\ Cardinality(Held(queue)) \in Nat
      BY <1>2, HeldFinite, FS_CardinalityType DEF TypeOK
    <3>2. Cardinality(Held(queue')) = Cardinality(Held(queue))
      BY <1>2, <2>2, <3>1
    <3>3. count' <= Slots /\ count + 1 <= Slots
      BY <1>3, <1>7, <3>1
    <3> DEFINE held == Cardinality(Held(queue))
    <3>4. held \in Nat /\ count = frmNum + held
      BY <1>2, <3>1
    <3> HIDE DEF held
    <3>5. count' = frmNum' + held
      BY <1>3, <3>1, <3>4
    <3> QED
      BY <1>3, <1>4, <1>5, <3>2, <3>3, <3>5 DEF held
  <2>7. ASSUME peers = "patient" PROVE PatientOK' /\ WholeFrames'
    <3>1. /\ PatientOK /\ ~dr /\ InFlight /\ Flying = slots[tail]
          /\ \A k \in {"ind", "res", "tx", "data", "other"} : ~Has(queue, k)
      BY <1>1, <2>7, InHand
    <3>2. \A k : ~Has(queue', k) \/ k \notin {"rx", "ind", "res", "tx", "data", "other"}
      BY <1>2, <2>2, <3>1 DEF OrderOK
    <3>3. ~InFlight' /\ \A k : Place(k)' = Place(k)
      BY <1>4, <2>1, <3>1 DEF InFlight, Place
    <3>4. /\ frmNum \in Nat /\ lossRun \in 0 .. 1 /\ cur \in Nat /\ nxt \in Nat
          /\ Follows(slots[tail]) /\ frmNum + 1 < MaxLen
      BY <1>2, <3>1 DEF TypeOK, PatientOK, FlightOK, PeersOK
    <3>5. TurnsOK'
      BY <1>2, <1>4, <2>1, <2>2, <3>1, <3>2 DEF TurnsOK, Dealing
    <3>6. IndicatedOK'
      BY <2>2, <3>1, <3>2 DEF PatientOK, IndicatedOK, Has
    <3>7. CollectedOK'
      <4>1. \A k \in 0 .. frmNum :
              Place(k) = [msg |-> Place(0).msg, idx |-> k, last |-> FALSE]
        <5> SUFFICES ASSUME NEW k \in 0 .. frmNum
                     PROVE  Place(k) = [msg |-> Place(0).msg, idx |-> k, last |-> FALSE]
          OBVIOUS
        <5>1. (k = frmNum /\ slots[tail].last) = FALSE
          OBVIOUS
        <5> QED
          BY <1>5, <2>7, <5>1
      <4>2. frmNum' - 1 = frmNum
        BY <1>3, <3>4
      <4>3. Place(frmNum - 1)' = slots[tail]
        <5>1. Place(frmNum - 1)' = slots[Wrap(head + frmNum)]
          BY <1>4, <4>2 DEF Place
        <5> QED
          BY <1>5, <2>7, <5>1 DEF Place
      <4>4. Follows(Place(frmNum - 1))'
        BY <1>4, <3>4, <4>3 DEF Follows
      <4> QED
        BY <1>3, <3>3, <3>4, <4>1, <4>2, <4>4 DEF CollectedOK
    <3>8. FlightOK' /\ PeersOK'
      BY <1>4, <3>1, <3>3 DEF PatientOK, FlightOK, PeersOK
    <3>9. LossOK'
      <4>1. lossRun = 1 => IF nxt > 0 THEN cur \in lost ELSE cur - 1 \in lost
        BY <3>1 DEF PatientOK, LossOK
      <4>2. nxt > 0 /\ Intact(cur) => frmNum + 1 = nxt
        <5>1. nxt > 0 /\ Intact(cur) => lossRun = 0
          BY <3>4, <4>1 DEF Intact
        <5> QED
          BY <3>4, <5>1 DEF Follows
      <4>3. ASSUME NEW m \in 1 .. cur - 1 PROVE m \in delivered \/ ~Intact(m)
        BY <3>1 DEF PatientOK, LossOK, Has
      <4> QED
        BY <1>3, <1>4, <3>3, <4>1, <4>2, <4>3 DEF LossOK, Intact
    <3>10. WholeFrames'
      BY <3>2 DEF WholeFrames, Has, Elems
    <3> QED
      BY <3>5, <3>6, <3>7, <3>8, <3>9, <3>10 DEF PatientOK
  <2>8. RingAccount' /\ WholeFrames' /\ Running'
    BY <1>4, <2>1, <2>3, <2>4, <2>6, <2>7 DEF RingAccount, Running, WholeFrames
  <2> QED
    BY <2>1, <2>5, <2>8 DEF IInv
<1> QED
  BY <1>6, <1>7

LEMMA CollectLast ==
  ASSUME IInv, RxReadyHandled, frmNum = slots[tail].idx, slots[tail].last
  PROVE  IInv'
<1> USE DEF RxReadyHandled, macVars, sentVars, peerVars, history
<1>1. err = 0 /\ pc = "reopen"
  BY DEF IInv
<1>2. /\ TypeOK /\ OrderOK /\ HandedOver /\ WholeFrames /\ count <= Slots
      /\ count = frmNum + Cardinality(Held(queue))
      /\ queue \in Seq(Message) /\ queue # <<>> /\ Head(queue).kind = "rx"
      /\ Pending(Head(queue)) = 0 /\ ~rxReady
      /\ ~Has(Tail(queue), "rx") /\ ~Has(Tail(queue), "ind")
  BY <1>1, InHand DEF IInv
<1>3. frmNum + 1 \in 1 .. MaxLen /\ head \in 0 .. Slots - 1
  <2>1. slots[tail] \in Packet /\ head \in 0 .. Slots - 1
    BY <1>2 DEF TypeOK
  <2>2. slots[tail].idx \in 0 .. MaxLen - 1
    BY <2>1 DEF Packet
  <2> QED
    BY <2>1, <2>2
<1> PICK m \in Message : /\ m = Named("ind", head, frmNum + 1)
                         /\ m.kind = "ind" /\ m.hd = head /\ m.num = frmNum + 1
  <2>1. frmNum + 1 \in 0 .. MaxLen
    BY <1>3
  <2> QED
    BY <1>3, <2>1, NamedType
<1>4. m.kind = "ind" /\ m.hd = head /\ m.num = frmNum + 1 /\ Pending(m) = frmNum + 1
  BY DEF Pending
<1>5. /\ tail' = Wrap(tail + 1) /\ count' = count + 1 /\ frmNum' = 0
      /\ IF count + 1 > Slots \/ frmNum + 1 > 8 THEN Fail(6) ELSE Return(<<m>>)
  BY DEF Collect, Named
<1>6. /\ getDataEnd' = TRUE
      /\ UNCHANGED <<slots, head, comBuf, dr, payload, rxReady, peerVars, requests, history>>
  OBVIOUS
<1> HIDE DEF RxReadyHandled
<1>7. /\ count' \in 0 .. Slots + 1 /\ tail' \in 0 .. Slots - 1
      /\ count + 1 <= Slots => tail' = Wrap(head + count')
      /\ peers = "patient" =>
           /\ count + 1 <= Slots /\ frmNum + 1 <= 8
           /\ \A k \in 0 .. frmNum :
                Place(k) = [msg |-> Place(0).msg, idx |-> k,
                            last |-> k = frmNum /\ slots[tail].last]
           /\ Place(0).msg = slots[tail].msg
  BY <1>1, <1>5, CollectRing
<1>8. frmNum' \in 0 .. MaxLen
  BY <1>5
<1>9. ASSUME queue' = queue, pc' = "error", err' \in {6, 16}, peers = "patient" => err' = 16
      PROVE  IInv'
  <2>1. TypeOK'
    BY <1>2, <1>6, <1>7, <1>8, <1>9 DEF TypeOK
  <2>2. HandedOver'
    BY <1>2, <1>6, <1>9 DEF HandedOver
  <2> QED
    BY <1>1, <1>6, <1>9, <2>1, <2>2, Stopped
<1>10. CASE count + 1 > Slots \/ frmNum + 1 > 8
  <2>1. pc' = "error" /\ err' = 6 /\ queue' = queue
    BY <1>5, <1>10 DEF Fail
  <2>2. peers # "patient"
    <3>1. count \in Int /\ frmNum \in Int
      BY <1>2 DEF TypeOK
    <3> QED
      BY <1>7, <1>10, <3>1
  <2> QED
    BY <1>9, <2>1, <2>2
<1>11. CASE ~(count + 1 > Slots \/ frmNum + 1 > 8) /\ Len(queue) + 1 > QMax
  <2>1. Len(<<m>>) = 1
    OBVIOUS
  <2>2. pc' = "error" /\ err' = 16 /\ queue' = queue
    BY <1>5, <1>11, <2>1 DEF Return, Fail
  <2> QED
    BY <1>9, <2>2
<1>12. CASE ~(count + 1 > Slots \/ frmNum + 1 > 8) /\ ~(Len(queue) + 1 > QMax)
  <2> DEFINE r == <<m>>
  <2>1. /\ r \in Seq(Message) /\ Elems(r) = {m} /\ Len(r) = 1
        /\ \A k : Has(r, k) <=> m.kind = k
        /\ \A a, b : Never(r, a, b)
        /\ Cardinality(Held(r)) = Pending(m)
    BY OneMessage
  <2>2. pc' = "rx" /\ err' = 0 /\ queue' = After(queue, r)
    BY <1>1, <1>5, <1>12, <2>1 DEF Return, After
  <2> HIDE DEF r
  <2>3. /\ queue' \in Seq(Message) /\ Len(queue') = Len(queue) - 1 + Len(r)
        /\ Elems(queue) = {Head(queue)} \cup Elems(Tail(queue))
        /\ Elems(queue') = Elems(Tail(queue)) \cup Elems(r)
        /\ \A k : Has(queue, k) <=> Head(queue).kind = k \/ Has(Tail(queue), k)
        /\ \A k : Has(queue', k) <=> Has(Tail(queue), k) \/ Has(r, k)
        /\ \A a, b :
             Never(queue, a, b) /\ Never(r, a, b) /\ (~Has(Tail(queue), a) \/ ~Has(r, b))
               => Never(queue', a, b)
        /\ Cardinality(Held(queue)) \in Nat
        /\ Cardinality(Held(queue'))
             = Cardinality(Held(queue)) - Pending(Head(queue)) + Cardinality(Held(r))
    <3>1. Service(queue, r, After(queue, r))
      BY <1>2, <2>1, Served
    <3>2. Service(queue, r, queue')
      BY <2>2, <3>1
    <3> QED
      BY <3>2 DEF Service
  <2>4. /\ \A k : Has(queue', k) <=> Has(Tail(queue), k) \/ k = "ind"
        /\ \A a, b : Never(queue, a, b) /\ (~Has(Tail(queue), a) \/ b # "ind") => Never(queue', a, b)
        /\ Elems(queue') = Elems(Tail(queue)) \cup {m}
    BY <1>4, <2>1, <2>3
  <2>5. TypeOK'
    <3>1. Len(queue) \in Nat /\ Len(queue) <= QMax
      BY <1>2 DEF TypeOK
    <3>2. queue' \in Seq(Message) /\ Len(queue') <= QMax
      <4>1. Len(queue') = Len(queue)
        BY <2>1, <2>3, <3>1
      <4> QED
        BY <1>12, <2>3, <3>1, <4>1
    <3>3. /\ getDataEnd' \in BOOLEAN /\ pc' \in {"serve", "reopen", "rx", "error"}
          /\ err' \in {0, 5, 6, 16}
      BY <1>6, <2>2
    <3> QED
      BY <1>2, <1>6, <1>7, <1>8, <3>2, <3>3 DEF TypeOK
  <2>6. OrderOK'
    BY <1>2, <1>6, <2>2, <2>4 DEF OrderOK
  <2>7. HandedOver'
    <3>1. \A i \in Elems(queue) : i.kind = "data" => comBuf = i.from
      BY <1>2 DEF HandedOver, Elems
    <3>2. \A i \in Elems(queue') : i.kind = "data" => comBuf' = i.from
      BY <1>4, <1>6, <2>3, <2>4, <3>1
    <3> QED
      BY <3>2 DEF HandedOver, Elems
  <2>8. (count = frmNum + Cardinality(Held(queue)) /\ tail = Wrap(head + count)
          /\ count <= Slots)'
    <3> DEFINE held == Cardinality(Held(queue))
    <3>1. held \in Nat /\ count = frmNum + held /\ count \in Nat /\ frmNum \in Nat
      BY <1>2, <2>3 DEF TypeOK
    <3>2. Cardinality(Held(queue')) = held - 0 + (frmNum + 1)
      BY <1>2, <1>4, <2>1, <2>3
    <3> HIDE DEF held
    <3>3. held - 0 + (frmNum + 1) = count + 1 /\ count + 1 <= Slots
      BY <1>12, <3>1, SMTT(20)
    <3>4. 0 + (count + 1) = count + 1
      BY <3>1
    <3> QED
      BY <1>5, <1>6, <1>7, <3>2, <3>3, <3>4
  <2>9. ASSUME peers = "patient" PROVE PatientOK' /\ WholeFrames'
    <3>1. /\ PatientOK /\ ~dr /\ InFlight /\ Flying = slots[tail]
          /\ \A k \in {"ind", "res", "tx", "data", "other"} : ~Has(queue, k)
          /\ count = frmNum
      BY <1>1, <2>9, InHand
    <3>2. /\ \A k \in {"res", "tx", "data", "other", "rx"} : ~Has(queue', k)
          /\ \A i \in Elems(queue') : i.kind \in {"ind", "res"} => i = m
      <4>1. \A k \in {"ind", "res", "tx", "data", "other"} : ~Has(Tail(queue), k)
        BY <2>3, <3>1
      <4> QED
        BY <1>2, <2>4, <4>1 DEF Has
    <3>3. ~InFlight' /\ \A k : Place(k)' = Place(k)
      BY <1>6, <2>2, <3>1 DEF InFlight, Place
    <3>4. /\ frmNum \in Nat /\ cur \in Nat /\ head \in 0 .. Slots - 1
          /\ nxt = 0 /\ cur = slots[tail].msg + 1 /\ lossRun = 0
      BY <1>2, <3>1 DEF TypeOK, PatientOK, FlightOK
    <3>5. TurnsOK'
      BY <1>2, <1>5, <1>6, <2>2, <3>1, <3>2, <3>4 DEF TurnsOK, Dealing
    <3>6. Whole(Content(m))'
      <4>1. Content(m)' = [k \in 1 .. frmNum + 1 |-> Place(k - 1)]
        <5>1. \A k \in 1 .. frmNum + 1 : head + k - 1 = head + (k - 1)
          BY <3>4
        <5> QED
          BY <1>4, <1>6, <5>1 DEF Content, Place
      <4> DEFINE c == [k \in 1 .. frmNum + 1 |-> Place(k - 1)]
      <4>2. ASSUME NEW k \in 1 .. frmNum + 1
            PROVE  c[k] = [msg |-> c[1].msg, idx |-> k - 1, last |-> k = frmNum + 1]
        <5>1. k - 1 \in 0 .. frmNum /\ (k - 1 = frmNum <=> k = frmNum + 1)
          BY <3>4
        <5>2. Place(k - 1) = [msg |-> Place(0).msg, idx |-> k - 1,
                              last |-> k - 1 = frmNum /\ slots[tail].last]
          BY <1>7, <2>9, <5>1
        <5>3. (k - 1 = frmNum /\ slots[tail].last) = (k = frmNum + 1)
          BY <5>1
        <5>4. c[k] = Place(k - 1) /\ c[1] = Place(0)
          BY <3>4
        <5> QED
          BY <5>2, <5>3, <5>4
      <4>3. c # <<>> /\ Len(c) = frmNum + 1
        <5>1. \A k \in 0 .. frmNum : Place(k) \in Packet
          <6>1. \A k \in 0 .. frmNum : head + k \in 0 .. 2 * Slots - 1
            BY <1>3, <3>4
          <6> QED
            BY <1>2, <6>1, WrapType DEF TypeOK, Place
        <5>2. c \in [1 .. frmNum + 1 -> Packet]
          <6>1. \A k \in 1 .. frmNum + 1 : k - 1 \in 0 .. frmNum
            BY <3>4
          <6> QED
            BY <5>1, <6>1
        <5>3. frmNum + 1 \in Nat \ {0}
          BY <3>4
        <5> HIDE DEF c
        <5> QED
          BY <5>2, <5>3, FunctionList
      <4> HIDE DEF c
      <4>4. Whole(c)
        BY <4>2, <4>3 DEF Whole
      <4> QED
        <5>1. Content(m)' = c
          BY <4>1 DEF c
        <5> QED
          BY <4>4, <5>1 DEF Whole
    <3>7. IndicatedOK'
      <4>1. AtHead(m)'
        BY <1>4, <1>5, <1>6, <3>1, <3>4 DEF AtHead
      <4>2. ~Has(Tail(queue), "ind") /\ ~Has(Tail(queue), "res")
        BY <2>3, <3>1
      <4>3. /\ Never(queue, "ind", "res") /\ Never(queue, "res", "res")
            /\ Never(queue, "res", "ind")
        BY <3>1 DEF PatientOK, IndicatedOK
      <4>4. (Never(queue, "ind", "res") /\ Never(queue, "res", "res") /\ Never(queue, "res", "ind"))'
        BY <2>4, <4>2, <4>3
      <4> QED
        BY <3>2, <3>6, <4>1, <4>4 DEF IndicatedOK
    <3>8. CollectedOK' /\ FlightOK' /\ PeersOK'
      BY <1>5, <1>6, <3>1, <3>3 DEF PatientOK, CollectedOK, FlightOK, PeersOK
    <3>9. LossOK'
      <4>1. slots[m.hd].msg = slots[tail].msg
        BY <1>4, <1>7, <2>9, <3>4 DEF Place, Wrap
      <4>2. m \in Elems(queue')
        BY <2>4
      <4>3. ASSUME NEW n \in 1 .. cur - 1
            PROVE  \/ n \in delivered \/ ~Intact(n)
                   \/ \E i \in Elems(queue') : i.kind = "ind" /\ slots[i.hd].msg = n
        BY <1>4, <3>1, <4>1, <4>2 DEF PatientOK, LossOK, Has
      <4> QED
        BY <1>6, <3>3, <3>4, <4>3 DEF LossOK, Intact
    <3>10. WholeFrames'
      BY <3>7 DEF IndicatedOK, WholeFrames, Elems
    <3> QED
      BY <3>5, <3>7, <3>8, <3>9, <3>10 DEF PatientOK
  <2>10. RingAccount' /\ WholeFrames' /\ Running'
    BY <1>6, <2>2, <2>5, <2>6, <2>8, <2>9 DEF RingAccount, Running, WholeFrames
  <2> QED
    BY <2>2, <2>7, <2>10 DEF IInv
<1> QED
  BY <1>10, <1>11, <1>12

LEMMA RxReadyStep == ASSUME IInv, RxReadyHandled PROVE IInv'
<1>1. CASE frmNum # slots[tail].idx
  BY <1>1, DiscardStep
<1>2. CASE frmNum = slots[tail].idx /\ slots[tail].last
  BY <1>2, CollectLast
<1>3. CASE frmNum = slots[tail].idx /\ ~slots[tail].last
  BY <1>3, CollectMore
<1> QED
  BY <1>1, <1>2, <1>3

(* A message other than EMN_RF_RX_READY is at the head: what its handler    *)
(* knows.                                                                   *)
LEMMA AtWork ==
  ASSUME IInv, NEW k \in {"ind", "res", "tx", "data", "other"}, Serving(k)
  PROVE  /\ TypeOK /\ OrderOK /\ HandedOver /\ WholeFrames /\ err = 0 /\ pc = "serve"
         /\ count = frmNum + Cardinality(Held(queue)) /\ tail = Wrap(head + count)
         /\ count <= Slots /\ queue # <<>> /\ queue \in Seq(Message)
         /\ Head(queue) \in Message /\ Head(queue).kind = k
         /\ peers = "patient" =>
              /\ PatientOK /\ nxt = 0 /\ ~dr /\ ~rxReady /\ getDataEnd /\ ~InFlight
              /\ ~Has(queue, "rx")
<1>1. /\ TypeOK /\ OrderOK /\ HandedOver /\ WholeFrames /\ err = 0 /\ pc = "serve"
      /\ count = frmNum + Cardinality(Held(queue)) /\ tail = Wrap(head + count)
      /\ count <= Slots /\ queue # <<>> /\ queue \in Seq(Message) /\ Head(queue).kind = k
  BY DEF IInv, RingAccount, Running, TypeOK, Serving
<1>2. Head(queue) \in Message /\ Has(queue, k)
  BY <1>1, ServedList, ElemsServed DEF Has
<1>3. peers = "patient" => PatientOK /\ Dealing
  BY <1>1, <1>2 DEF IInv, Running, Dealing
<1> QED
  BY <1>1, <1>2, <1>3 DEF PatientOK, TurnsOK, InFlight

LEMMA TxPacketStep == ASSUME IInv, TxPacket PROVE IInv'
<1> USE DEF TxPacket, ringVars, macVars, sentVars, peerVars
<1>1. /\ TypeOK /\ OrderOK /\ HandedOver /\ WholeFrames /\ err = 0 /\ pc = "serve"
      /\ count = frmNum + Cardinality(Held(queue)) /\ tail = Wrap(head + count)
      /\ count <= Slots /\ queue # <<>> /\ queue \in Seq(Message)
      /\ Head(queue) \in Message /\ Head(queue).kind = "tx"
      /\ peers = "patient" =>
           /\ PatientOK /\ nxt = 0 /\ ~dr /\ ~rxReady /\ getDataEnd /\ ~InFlight
           /\ ~Has(queue, "rx")
  BY AtWork
<1> PICK m \in Message : m = Msg("other") /\ m.kind = "other" /\ Pending(m) = 0
  BY MsgType
<1> DEFINE r == <<m>>
<1>2. /\ r \in Seq(Message) /\ Elems(r) = {m} /\ Len(r) = 1
      /\ \A k : Has(r, k) <=> m.kind = k
      /\ \A a, b : Never(r, a, b)
      /\ Cardinality(Held(r)) = Pending(m)
  BY OneMessage
<1>3. Return(r)
  OBVIOUS
<1>4. dr' \in BOOLEAN /\ lost' \subseteq 0 .. MaxMsg
  BY <1>1 DEF TypeOK, Packet
<1>5. /\ UNCHANGED <<ringVars, macVars, payload, rxReady, getDataEnd, peerVars, requests, delivered>>
      /\ ~dr => ~dr' /\ lost' = lost
  <2>1. dr' = dr \/ dr' = FALSE
    OBVIOUS
  <2>2. dr = TRUE \/ dr = FALSE
    BY <1>1 DEF TypeOK
  <2>3. ~dr => ~dr'
    BY <2>1, <2>2
  <2> QED
    BY <2>3
<1> HIDE DEF TxPacket, r
<1>6. CASE Len(queue) + Len(r) > QMax
  <2>1. pc' = "error" /\ err' = 16 /\ queue' = queue
    BY <1>3, <1>6 DEF Return, Fail
  <2>2. TypeOK'
    BY <1>1, <1>4, <1>5, <2>1 DEF TypeOK
  <2>3. HandedOver'
    BY <1>1, <1>5, <2>1 DEF HandedOver
  <2> QED
    BY <1>1, <1>5, <2>1, <2>2, <2>3, Stopped
<1>7. CASE ~(Len(queue) + Len(r) > QMax)
  <2>1. pc' = "rx" /\ err' = 0 /\ queue' = After(queue, r)
    BY <1>1, <1>3, <1>7 DEF Return, After
  <2>2. Service(queue, r, queue')
    BY <1>1, <1>2, <2>1, Served
  <2>3. TypeOK'
    <3>1. Len(queue) \in Nat /\ Len(queue') = Len(queue) /\ queue' \in Seq(Message)
      BY <1>1, <1>2, <2>2 DEF Service
    <3>2. Len(queue') <= QMax
      BY <1>2, <1>7, <3>1
    <3> QED
      BY <1>1, <1>4, <1>5, <2>1, <3>1, <3>2 DEF TypeOK
  <2>4. /\ Elems(queue) = {Head(queue)} \cup Elems(Tail(queue))
        /\ Elems(queue') = Elems(Tail(queue)) \cup {m}
        /\ \A k : Has(queue, k) <=> Head(queue).kind = k \/ Has(Tail(queue), k)
        /\ \A k : Has(queue', k) <=> Has(Tail(queue), k) \/ k = "other"
        /\ \A a, b : Never(queue, a, b) /\ b # "other" => Never(queue', a, b)
    BY <1>2, <2>2 DEF Service
  <2>5. OrderOK'
    BY <1>1, <1>5, <2>1, <2>4 DEF OrderOK
  <2>6. HandedOver'
    <3>1. \A i \in Elems(queue) : i.kind = "data" => comBuf = i.from
      BY <1>1 DEF HandedOver, Elems
    <3>2. \A i \in Elems(queue') : i.kind = "data" => comBuf' = i.from
      BY <1>5, <2>4, <3>1
    <3> QED
      BY <3>2 DEF HandedOver, Elems
  <2>7. (count = frmNum + Cardinality(Held(queue)) /\ tail = Wrap(head + count)
          /\ count <= Slots)'
    <3>1. Pending(Head(queue)) = 0
      BY <1>1 DEF Pending
    <3>2. Cardinality(Held(queue')) = Cardinality(Held(queue))
      BY <1>2, <2>2, <3>1 DEF Service
    <3> QED
      BY <1>1, <1>5, <3>2
  <2>8. ASSUME peers = "patient" PROVE PatientOK' /\ WholeFrames'
    <3>1. PatientOK /\ nxt = 0 /\ ~dr /\ ~rxReady /\ getDataEnd /\ ~InFlight /\ ~Has(queue, "rx")
      BY <1>1, <2>8
    <3>2. InFlight' = InFlight /\ UNCHANGED <<slots, head, tail, frmNum, dr, payload, sentVars, lost, delivered>>
      BY <1>1, <1>4, <1>5, <2>1, <3>1 DEF InFlight, TypeOK
    <3>3. CollectedOK' /\ FlightOK' /\ PeersOK' /\ LossOK'
      BY <1>1, <2>4, <3>1, <3>2, SameRing
    <3>4. TurnsOK'
      BY <1>5, <2>1, <2>4, <3>1, <3>2 DEF PatientOK, TurnsOK, Dealing
    <3>5. \A i : Content(i)' = Content(i)
      BY <3>2 DEF Content
    <3>6. IndicatedOK'
      BY <1>5, <2>4, <3>1, <3>2, <3>5 DEF PatientOK, IndicatedOK, AtHead
    <3>7. WholeFrames'
      BY <3>6 DEF IndicatedOK, WholeFrames, Elems
    <3> QED
      BY <3>3, <3>4, <3>6, <3>7 DEF PatientOK
  <2>9. RingAccount' /\ WholeFrames' /\ Running'
    BY <1>5, <2>1, <2>3, <2>5, <2>7, <2>8 DEF RingAccount, Running, WholeFrames
  <2> QED
    BY <2>1, <2>6, <2>9 DEF IInv
<1> QED
  BY <1>6, <1>7

LEMMA OtherStep == ASSUME IInv, OtherHandled PROVE IInv'
<1> USE DEF OtherHandled, ringVars, macVars, radioVars, sentVars, peerVars, history
<1>1. PICK k \in {"data", "other"} : Serving(k)
  OBVIOUS
<1>2. /\ TypeOK /\ OrderOK /\ HandedOver /\ WholeFrames /\ err = 0 /\ pc = "serve"
      /\ count = frmNum + Cardinality(Held(queue)) /\ tail = Wrap(head + count)
      /\ count <= Slots /\ queue # <<>> /\ queue \in Seq(Message)
      /\ Head(queue) \in Message /\ Head(queue).kind = k
      /\ peers = "patient" =>
           /\ PatientOK /\ nxt = 0 /\ ~dr /\ ~rxReady /\ getDataEnd /\ ~InFlight
           /\ ~Has(queue, "rx")
  BY <1>1, AtWork
<1>3. Pending(Head(queue)) = 0 /\ Head(queue).kind \in {"data", "other"}
  BY <1>1, <1>2 DEF Pending
<1>4. pc' = "rx" /\ err' = 0 /\ queue' = Tail(queue) \o <<>>
  <2>1. Len(<<>>) = 0 /\ Len(queue) + 0 <= QMax
    BY <1>2, NoMessages DEF TypeOK
  <2> QED
    BY <1>2, <2>1 DEF Return
<1>5. UNCHANGED <<ringVars, macVars, radioVars, peerVars, requests, history>>
  OBVIOUS
<1> HIDE DEF OtherHandled
<1>6. /\ queue' \in Seq(Message) /\ Len(queue') = Len(queue) - 1
      /\ Elems(queue) = {Head(queue)} \cup Elems(queue')
      /\ \A j : Has(queue, j) <=> Head(queue).kind = j \/ Has(queue', j)
      /\ \A a, b : Never(queue, a, b) =>
           Never(queue', a, b) /\ (Head(queue).kind = a => ~Has(queue', b))
      /\ Cardinality(Held(queue')) = Cardinality(Held(queue)) - Pending(Head(queue))
  BY <1>2, <1>4, ServedOnly
<1>7. TypeOK'
  <2>1. queue' \in Seq(Message) /\ Len(queue') <= QMax
    BY <1>2, <1>6 DEF TypeOK
  <2> QED
    BY <1>2, <1>4, <1>5, <2>1 DEF TypeOK
<1>8. OrderOK'
  BY <1>2, <1>4, <1>5, <1>6 DEF OrderOK
<1>9. HandedOver'
  <2>1. \A i \in Elems(queue) : i.kind = "data" => comBuf = i.from
    BY <1>2 DEF HandedOver, Elems
  <2>2. \A i \in Elems(queue') : i.kind = "data" => comBuf' = i.from
    BY <1>5, <1>6, <2>1
  <2> QED
    BY <2>2 DEF HandedOver, Elems
<1>10. (count = frmNum + Cardinality(Held(queue)) /\ tail = Wrap(head + count)
         /\ count <= Slots)'
  <2>1. Cardinality(Held(queue)) \in Nat
    BY <1>2, HeldFinite, FS_CardinalityType
  <2>2. Cardinality(Held(queue')) = Cardinality(Held(queue))
    BY <1>3, <1>6, <2>1
  <2> QED
    BY <1>2, <1>5, <2>2
<1>11. ASSUME peers = "patient" PROVE PatientOK' /\ WholeFrames'
  <2>1. PatientOK /\ nxt = 0 /\ ~dr /\ ~rxReady /\ getDataEnd /\ ~InFlight /\ ~Has(queue, "rx")
    BY <1>2, <1>11
  <2>2. InFlight' = InFlight
    BY <1>2, <1>4, <1>5, <2>1 DEF InFlight
  <2>3. CollectedOK' /\ FlightOK' /\ PeersOK' /\ LossOK'
    BY <1>3, <1>5, <1>6, <2>1, <2>2, SameRing
  <2>4. TurnsOK'
    BY <1>4, <1>5, <1>6, <2>1 DEF PatientOK, TurnsOK, Dealing
  <2>5. \A i : Content(i)' = Content(i)
    BY <1>5 DEF Content
  <2>6. IndicatedOK'
    BY <1>5, <1>6, <2>1, <2>5 DEF PatientOK, IndicatedOK, AtHead
  <2>7. WholeFrames'
    BY <2>6 DEF IndicatedOK, WholeFrames, Elems
  <2> QED
    BY <2>3, <2>4, <2>6, <2>7 DEF PatientOK
<1>12. RingAccount' /\ WholeFrames' /\ Running'
  BY <1>4, <1>5, <1>7, <1>8, <1>10, <1>11 DEF RingAccount, Running, WholeFrames
<1> QED
  BY <1>4, <1>9, <1>12 DEF IInv

(* What the MAC layer answers to an indication: the release of its slots,   *)
(* and with a data frame two acknowledgements and its announcement.         *)
Answer(m, r, c) ==
  /\ r \in Seq(Message)
  /\ \A k : Has(r, k) => k \in {"tx", "data", "res"}
  /\ Never(r, "res", "res")
  /\ \A i \in Elems(r) : i.kind = "res" => i.hd = m.hd /\ i.num = m.num
  /\ \A i \in Elems(r) : i.kind = "data" => i.from = c
  /\ Cardinality(Held(r)) = m.num

LEMMA ReleaseType ==
  ASSUME NEW m \in Message
  PROVE  /\ Release(m) \in Message /\ Release(m).kind = "res"
         /\ Release(m).hd = m.hd /\ Release(m).num = m.num /\ Pending(Release(m)) = m.num
<1>1. m.hd \in 0 .. Slots - 1 /\ m.num \in 0 .. MaxLen
  BY DEF Message
<1>2. Release(m) = Named("res", m.hd, m.num)
  BY DEF Release, Named
<1> QED
  BY <1>1, <1>2, NamedType DEF Pending

LEMMA AnswerShort ==
  ASSUME NEW m \in Message, NEW c
  PROVE  Answer(m, <<Release(m)>>, c)
<1> PICK e \in Message : e = Release(m) /\ e.kind = "res" /\ e.hd = m.hd /\ e.num = m.num
                        /\ Pending(e) = m.num
  BY ReleaseType
<1> DEFINE r == <<e>>
<1>1. /\ r \in Seq(Message) /\ Elems(r) = {e}
      /\ \A k : Has(r, k) <=> e.kind = k
      /\ \A a, b : Never(r, a, b)
      /\ Cardinality(Held(r)) = Pending(e)
  BY OneMessage
<1> HIDE DEF r
<1>2. Answer(m, r, c)
  BY <1>1 DEF Answer
<1> QED
  BY <1>2 DEF r

LEMMA AnswerLong ==
  ASSUME NEW m \in Message, slots[m.hd] \in Packet
  PROVE  Answer(m, <<Msg("tx"), Msg("tx"), DataInd(m), Release(m)>>, slots[m.hd])
<1> PICK e \in Message : e = Release(m) /\ e.kind = "res" /\ e.hd = m.hd /\ e.num = m.num
                        /\ Pending(e) = m.num
  BY ReleaseType
<1> PICK t \in Message : t = Msg("tx") /\ t.kind = "tx" /\ Pending(t) = 0
  BY MsgType
<1> PICK d \in Message : d = DataInd(m) /\ d.kind = "data" /\ d.from = slots[m.hd]
                        /\ Pending(d) = 0
  <2>1. PICK g \in Message : g = Msg("data") /\ g.kind = "data"
    BY MsgType
  <2>2. DataInd(m) = [g EXCEPT !.from = slots[m.hd]]
    BY <2>1 DEF DataInd
  <2>3. /\ [g EXCEPT !.from = slots[m.hd]] \in Message
        /\ [g EXCEPT !.from = slots[m.hd]].kind = "data"
        /\ [g EXCEPT !.from = slots[m.hd]].from = slots[m.hd]
    BY <2>1 DEF Message
  <2> QED
    BY <2>2, <2>3 DEF Pending
<1> DEFINE r == <<t, t, d, e>>
<1>1. r \in Seq(Message) /\ Len(r) = 4 /\ r[1] = t /\ r[2] = t /\ r[3] = d /\ r[4] = e
  OBVIOUS
<1>2. Cardinality(Held(r)) = m.num
  <2> DEFINE t1 == <<t>>
             d1 == <<d>>
             e1 == <<e>>
  <2>1. /\ t1 \in Seq(Message) /\ d1 \in Seq(Message) /\ e1 \in Seq(Message)
        /\ Cardinality(Held(t1)) = 0 /\ Cardinality(Held(d1)) = 0
        /\ Cardinality(Held(e1)) = m.num
    BY HeldOne
  <2>2. r = t1 \o (t1 \o (d1 \o e1))
    OBVIOUS
  <2> HIDE DEF t1, d1, e1, r
  <2>3. d1 \o e1 \in Seq(Message) /\ t1 \o (d1 \o e1) \in Seq(Message)
    BY <2>1
  <2>4. m.num \in Nat
    BY DEF Message
  <2>5. Cardinality(Held(d1 \o e1)) = 0 + m.num
    BY <2>1, HeldPosted
  <2>6. Cardinality(Held(t1 \o (d1 \o e1))) = 0 + (0 + m.num)
    BY <2>1, <2>3, <2>5, HeldPosted
  <2>7. Cardinality(Held(t1 \o (t1 \o (d1 \o e1)))) = 0 + (0 + (0 + m.num))
    BY <2>1, <2>3, <2>6, HeldPosted
  <2> QED
    BY <2>2, <2>4, <2>7
<1> HIDE DEF r
<1>3. \A i \in 1 .. Len(r) : r[i] \in {t, d, e} /\ (r[i].kind = "res" => i = 4)
  BY <1>1
<1>4. Elems(r) \subseteq {t, d, e}
  BY <1>3 DEF Elems
<1>5. Never(r, "res", "res")
  BY <1>1, <1>3 DEF Never
<1>6. Answer(m, r, slots[m.hd])
  BY <1>1, <1>2, <1>4, <1>5 DEF Answer, Has
<1> QED
  BY <1>6 DEF r

LEMMA Absent ==
  ASSUME NEW s, NEW a, NEW b, ~Has(s, a) \/ ~Has(s, b)
  PROVE  Never(s, a, b)
  BY DEF Never, Has, Elems

LEMMA PhyDataIndStep == ASSUME IInv, PhyDataInd PROVE IInv'
<1> USE DEF PhyDataInd, ringVars, radioVars, sentVars, peerVars
<1>1. /\ TypeOK /\ OrderOK /\ HandedOver /\ WholeFrames /\ err = 0 /\ pc = "serve"
      /\ count = frmNum + Cardinality(Held(queue)) /\ tail = Wrap(head + count)
      /\ count <= Slots /\ queue # <<>> /\ queue \in Seq(Message)
      /\ Head(queue) \in Message /\ Head(queue).kind = "ind"
      /\ peers = "patient" =>
           /\ PatientOK /\ nxt = 0 /\ ~dr /\ ~rxReady /\ getDataEnd /\ ~InFlight
           /\ ~Has(queue, "rx")
  BY AtWork
<1> PICK m \in Message : m = Head(queue) /\ m.kind = "ind"
  BY <1>1
<1>2. slots[m.hd] \in Packet /\ slots[m.hd].msg \in 0 .. MaxMsg
  <2>1. slots[m.hd] \in Packet
    BY <1>1 DEF TypeOK, Message
  <2> QED
    BY <2>1 DEF Packet
<1>3. PICK r : Return(r) /\ Answer(m, r, comBuf') /\ comBuf' \in Packet
  <2>1. CASE /\ comBuf' = slots[m.hd]
             /\ Return(<<Msg("tx"), Msg("tx"), DataInd(m), Release(m)>>)
    BY <1>2, <2>1, AnswerLong
  <2>2. CASE UNCHANGED comBuf /\ Return(<<Release(m)>>)
    BY <1>1, <2>2, AnswerShort DEF TypeOK
  <2> QED
    BY <2>1, <2>2
<1>4. /\ UNCHANGED <<ringVars, radioVars, peerVars, requests, lost>>
      /\ delivered \subseteq delivered' /\ delivered' \subseteq delivered \cup {slots[m.hd].msg}
      /\ Whole(Content(m)) => slots[m.hd].msg \in delivered'
  OBVIOUS
<1> HIDE DEF PhyDataInd
<1>5. delivered' \subseteq 0 .. MaxMsg
  BY <1>1, <1>2, <1>4 DEF TypeOK
<1>6. ~Has(Tail(queue), "ind") /\ ~Has(Tail(queue), "data")
  BY <1>1, NeverServed DEF OrderOK
<1>7. \A i \in Elems(queue) : i.kind # "data"
  BY <1>1, <1>6, ElemsServed DEF Has
<1>8. CASE Len(queue) + Len(r) > QMax
  <2>1. pc' = "error" /\ err' = 16 /\ queue' = queue
    BY <1>3, <1>8 DEF Return, Fail
  <2>2. TypeOK'
    BY <1>1, <1>3, <1>4, <1>5, <2>1 DEF TypeOK
  <2>3. HandedOver'
    BY <1>7, <2>1 DEF HandedOver, Elems
  <2> QED
    BY <1>1, <1>4, <2>1, <2>2, <2>3, Stopped
<1>9. CASE ~(Len(queue) + Len(r) > QMax)
  <2>1. pc' = "rx" /\ err' = 0 /\ queue' = After(queue, r)
    BY <1>1, <1>3, <1>9 DEF Return, After
  <2>2. r \in Seq(Message) /\ Len(r) \in Nat
    BY <1>3 DEF Answer
  <2>3. Service(queue, r, queue')
    BY <1>1, <2>1, <2>2, Served
  <2>4. TypeOK'
    <3>1. Len(queue) \in Nat /\ Len(queue') = Len(queue) - 1 + Len(r) /\ queue' \in Seq(Message)
      BY <1>1, <2>3 DEF Service
    <3>2. Len(queue') <= QMax
      BY <1>9, <2>2, <3>1
    <3> QED
      BY <1>1, <1>3, <1>4, <1>5, <2>1, <3>1, <3>2 DEF TypeOK
  <2>5. /\ Elems(queue) = {m} \cup Elems(Tail(queue))
        /\ Elems(queue') = Elems(Tail(queue)) \cup Elems(r)
        /\ \A k : Has(queue, k) <=> k = "ind" \/ Has(Tail(queue), k)
        /\ \A k : Has(queue', k) <=> Has(Tail(queue), k) \/ Has(r, k)
        /\ \A k : Has(r, k) => k \in {"tx", "data", "res"}
        /\ \A a, b :
             Never(queue, a, b) /\ Never(r, a, b) /\ (~Has(Tail(queue), a) \/ ~Has(r, b))
               => Never(queue', a, b)
    BY <1>1, <1>3, <2>3 DEF Service, Answer
  <2>6. \A a, b : a \in {"rx", "ind"} \/ b = "ind" => Never(r, a, b)
    BY <2>5, Absent
  <2>7. OrderOK'
    <3>1. Never(queue', "rx", "rx") /\ Never(queue', "rx", "ind")
      BY <1>1, <2>5, <2>6 DEF OrderOK
    <3>2. Never(queue', "ind", "ind") /\ Never(queue', "ind", "data")
      BY <1>1, <1>6, <2>5, <2>6 DEF OrderOK
    <3> QED
      BY <1>1, <1>4, <2>1, <2>5, <3>1, <3>2 DEF OrderOK
  <2>8. HandedOver'
    <3>1. \A i \in Elems(queue') : i.kind = "data" => comBuf' = i.from
      BY <1>3, <1>6, <2>5 DEF Answer, Has
    <3> QED
      BY <3>1 DEF HandedOver, Elems
  <2>9. (count = frmNum + Cardinality(Held(queue)) /\ tail = Wrap(head + count)
          /\ count <= Slots)'
    <3>1. Pending(Head(queue)) = m.num /\ m.num \in Nat
      BY DEF Pending, Message
    <3>2. Cardinality(Held(queue')) = Cardinality(Held(queue))
      BY <1>3, <2>3, <3>1 DEF Service, Answer
    <3> QED
      BY <1>1, <1>4, <3>2
  <2>10. ASSUME peers = "patient" PROVE PatientOK' /\ WholeFrames'
    <3>1. PatientOK /\ nxt = 0 /\ ~dr /\ ~rxReady /\ getDataEnd /\ ~InFlight /\ ~Has(queue, "rx")
      BY <1>1, <2>10
    <3>2. m \in Elems(queue) /\ AtHead(m) /\ Whole(Content(m)) /\ frmNum = 0
      BY <2>5, <3>1 DEF PatientOK, IndicatedOK, TurnsOK
    <3>3. InFlight' = InFlight
      BY <1>1, <1>4, <2>1, <3>1 DEF InFlight
    <3>4. \A i \in Elems(queue) :
            i.kind = "ind" => i \in Elems(queue') \/ slots[i.hd].msg \in delivered'
      BY <1>4, <1>6, <2>5, <3>2 DEF Has
    <3>5. CollectedOK' /\ FlightOK' /\ PeersOK' /\ LossOK'
      BY <1>4, <3>1, <3>3, <3>4, SameRing
    <3>6. TurnsOK'
      BY <1>4, <2>1, <2>5, <3>1, <3>2 DEF TurnsOK, Dealing
    <3>7. ~Has(Tail(queue), "ind") /\ ~Has(Tail(queue), "res")
      BY <1>1, <1>6, <3>1, NeverServed DEF PatientOK, IndicatedOK
    <3>8. (Never(queue, "ind", "res") /\ Never(queue, "res", "res") /\ Never(queue, "res", "ind"))'
      BY <1>3, <2>5, <2>6, <3>1, <3>7 DEF PatientOK, IndicatedOK, Answer
    <3>9. \A i \in Elems(queue') : i.kind \in {"ind", "res"} => i.kind = "res" /\ AtHead(i)'
      BY <1>3, <1>4, <2>5, <3>2, <3>7 DEF Answer, Has, AtHead
    <3>10. IndicatedOK'
      BY <3>8, <3>9 DEF IndicatedOK
    <3>11. WholeFrames'
      BY <3>9 DEF WholeFrames, Elems
    <3> QED
      BY <3>5, <3>6, <3>10, <3>11 DEF PatientOK
  <2>11. RingAccount' /\ WholeFrames' /\ Running'
    BY <1>4, <2>1, <2>4, <2>7, <2>9, <2>10 DEF RingAccount, Running, WholeFrames
  <2> QED
    BY <2>1, <2>8, <2>11 DEF IInv
<1> QED
  BY <1>8, <1>9

LEMMA RxResStep == ASSUME IInv, RxRes PROVE IInv'
<1> USE DEF RxRes, macVars, radioVars, sentVars, peerVars, history
<1>1. /\ TypeOK /\ OrderOK /\ HandedOver /\ WholeFrames /\ err = 0 /\ pc = "serve"
      /\ count = frmNum + Cardinality(Held(queue)) /\ tail = Wrap(head + count)
      /\ count <= Slots /\ queue # <<>> /\ queue \in Seq(Message)
      /\ Head(queue) \in Message /\ Head(queue).kind = "res"
      /\ peers = "patient" =>
           /\ PatientOK /\ nxt = 0 /\ ~dr /\ ~rxReady /\ getDataEnd /\ ~InFlight
           /\ ~Has(queue, "rx")
  BY AtWork
<1> PICK m \in Message : m = Head(queue) /\ m.kind = "res"
  BY <1>1
<1>2. m.num \in 0 .. MaxLen /\ head \in 0 .. Slots - 1 /\ count \in 0 .. Slots
  BY <1>1, SMTT(20) DEF Message, TypeOK
<1>3. m \in Elems(queue)
  BY <1>1, ElemsServed
<1>4. peers = "patient" => m.hd = head /\ m.num = count /\ m.num > 0
  BY <1>1, <1>3 DEF PatientOK, IndicatedOK, AtHead
<1>5. UNCHANGED <<slots, tail, frmNum, macVars, radioVars, peerVars, requests, history>>
  OBVIOUS
<1>6. CASE m.hd # head \/ count < m.num \/ m.num = 0
  <2>1. pc' = "error" /\ err' \in {5, 6} /\ queue' = queue /\ UNCHANGED <<head, count>>
    BY <1>6 DEF Fail
  <2>2. peers # "patient"
    BY <1>2, <1>4, <1>6
  <2>3. TypeOK'
    BY <1>1, <1>5, <2>1 DEF TypeOK
  <2>4. HandedOver'
    BY <1>1, <1>5, <2>1 DEF HandedOver
  <2> QED
    BY <1>1, <1>5, <2>1, <2>2, <2>3, <2>4, Stopped
<1>7. CASE ~(m.hd # head \/ count < m.num \/ m.num = 0)
  <2>1. head' = Wrap(head + m.num) /\ count' = count - m.num /\ Return(<<>>)
    BY <1>7
  <2> HIDE DEF RxRes
  <2>2. pc' = "rx" /\ err' = 0 /\ queue' = Tail(queue) \o <<>>
    <3>1. Len(<<>>) = 0 /\ Len(queue) + 0 <= QMax
      BY <1>1, NoMessages DEF TypeOK
    <3> QED
      BY <1>1, <2>1, <3>1 DEF Return
  <2>3. /\ queue' \in Seq(Message) /\ Len(queue') = Len(queue) - 1
        /\ Elems(queue) = {Head(queue)} \cup Elems(queue')
        /\ \A j : Has(queue, j) <=> Head(queue).kind = j \/ Has(queue', j)
        /\ \A a, b : Never(queue, a, b) =>
             Never(queue', a, b) /\ (Head(queue).kind = a => ~Has(queue', b))
        /\ Cardinality(Held(queue')) = Cardinality(Held(queue)) - Pending(Head(queue))
    BY <1>1, <2>2, ServedOnly
  <2>4. m.num \in 1 .. count
    BY <1>2, <1>7
  <2>5. head' \in 0 .. Slots - 1 /\ count' \in 0 .. Slots /\ tail = Wrap(head' + count')
    <3>1. head + m.num \in 0 .. 2 * Slots - 1 /\ count' \in 0 .. Slots
      BY <1>2, <2>1, <2>4
    <3>2. Wrap(Wrap(head + m.num) + (count - m.num)) = Wrap(head + count)
      BY <1>2, <2>4 DEF Wrap
    <3> QED
      BY <1>1, <2>1, <3>1, <3>2, WrapType
  <2>6. TypeOK'
    <3>1. queue' \in Seq(Message) /\ Len(queue') <= QMax
      BY <1>1, <2>3 DEF TypeOK
    <3>2. count' \in 0 .. Slots + 1
      BY <2>5
    <3> QED
      BY <1>1, <1>5, <2>2, <2>5, <3>1, <3>2 DEF TypeOK
  <2>7. OrderOK'
    BY <1>1, <1>5, <2>2, <2>3 DEF OrderOK
  <2>8. HandedOver'
    <3>1. \A i \in Elems(queue) : i.kind = "data" => comBuf = i.from
      BY <1>1 DEF HandedOver, Elems
    <3>2. \A i \in Elems(queue') : i.kind = "data" => comBuf' = i.from
      BY <1>5, <2>3, <3>1
    <3> QED
      BY <3>2 DEF HandedOver, Elems
  <2>9. (count = frmNum + Cardinality(Held(queue)) /\ tail = Wrap(head + count)
          /\ count <= Slots)'
    <3> DEFINE held == Cardinality(Held(queue))
    <3>1. held \in Nat /\ count = frmNum + held /\ frmNum \in Nat
      BY <1>1, HeldFinite, FS_CardinalityType DEF TypeOK
    <3>2. Cardinality(Held(queue')) = held - m.num
      BY <2>3 DEF Pending
    <3> HIDE DEF held
    <3>3. count - m.num = frmNum + (held - m.num) /\ count - m.num <= Slots
      BY <1>2, <3>1
    <3> QED
      BY <1>5, <2>1, <2>5, <3>2, <3>3
  <2>10. ASSUME peers = "patient" PROVE PatientOK' /\ WholeFrames'
    <3>1. PatientOK /\ nxt = 0 /\ ~dr /\ ~rxReady /\ getDataEnd /\ ~InFlight /\ ~Has(queue, "rx")
      BY <1>1, <2>10
    <3>2. Has(queue, "res") /\ frmNum = 0
      BY <1>1, <2>3, <3>1 DEF PatientOK, TurnsOK
    <3>3. ~Has(queue', "ind") /\ ~Has(queue', "res")
      BY <1>1, <2>3, <3>1 DEF PatientOK, IndicatedOK
    <3>4. \A i \in Elems(queue) : i.kind # "ind"
      BY <1>1, <2>3, <3>3 DEF Has
    <3>5. ~InFlight'
      BY <1>5, <2>2, <3>1 DEF InFlight
    <3>6. CollectedOK' /\ FlightOK' /\ PeersOK'
      BY <1>5, <3>1, <3>2, <3>5 DEF PatientOK, CollectedOK, FlightOK, PeersOK
    <3>7. LossOK'
      <4>1. \A n \in 1 .. cur - 1 : n \in delivered \/ ~Intact(n)
        BY <3>1, <3>4 DEF PatientOK, LossOK
      <4>2. lossRun = 1 => IF nxt > 0 THEN cur \in lost ELSE cur - 1 \in lost
        BY <3>1 DEF PatientOK, LossOK
      <4> QED
        BY <1>5, <3>1, <3>5, <4>1, <4>2 DEF LossOK, Intact
    <3>8. TurnsOK'
      BY <1>5, <2>2, <2>3, <3>1, <3>2 DEF TurnsOK, Dealing
    <3>9. IndicatedOK'
      BY <2>3, <3>1, <3>3 DEF PatientOK, IndicatedOK, Has
    <3>10. WholeFrames'
      BY <3>3 DEF WholeFrames, Has, Elems
    <3> QED
      BY <3>6, <3>7, <3>8, <3>9, <3>10 DEF PatientOK
  <2>11. RingAccount' /\ WholeFrames' /\ Running'
    BY <1>5, <2>2, <2>6, <2>7, <2>9, <2>10 DEF RingAccount, Running, WholeFrames
  <2> QED
    BY <2>2, <2>8, <2>11 DEF IInv
<1> QED
  BY <1>6, <1>7

LEMMA StutterStep == ASSUME IInv, UNCHANGED vars PROVE IInv'
<1> USE DEF vars, ringVars, macVars, radioVars, osVars, sentVars, peerVars, history
<1>1. TypeOK' /\ RingAccount'
  BY DEF IInv, RingAccount, TypeOK
<1>2. HandedOver'
  BY DEF IInv, HandedOver
<1>3. \A i : Content(i)' = Content(i)
  BY DEF Content
<1>4. WholeFrames'
  BY <1>3 DEF IInv, WholeFrames
<1>5. ASSUME err = 0 PROVE Running'
  <2>1. OrderOK'
    BY <1>5 DEF IInv, Running, OrderOK
  <2>2. ASSUME peers = "patient", PatientOK PROVE PatientOK'
    <3>1. InFlight' = InFlight
      BY DEF InFlight
    <3>2. CollectedOK' /\ FlightOK' /\ PeersOK' /\ LossOK'
      BY <2>2, <3>1, SameRing
    <3>3. TurnsOK'
      BY <2>2 DEF PatientOK, TurnsOK, Dealing
    <3>4. IndicatedOK'
      BY <2>2, <1>3 DEF PatientOK, IndicatedOK, AtHead
    <3> QED
      BY <3>2, <3>3, <3>4 DEF PatientOK
  <2> QED
    BY <1>5, <2>1, <2>2 DEF IInv, Running
<1> QED
  BY <1>1, <1>2, <1>4, <1>5 DEF IInv

-----------------------------------------------------------------------------
(* IInv is inductive.                                                       *)
THEOREM IInvNext == IInv /\ [Next]_vars => IInv'
<1> SUFFICES ASSUME IInv, [Next]_vars PROVE IInv'
  OBVIOUS
<1>1. CASE Arrive
  BY <1>1, ArriveStep
<1>2. CASE Lose
  BY <1>2, LoseStep
<1>3. CASE Request
  BY <1>3, RequestStep
<1>4. CASE RxCheck
  BY <1>4, RxCheckStep
<1>5. CASE RxPacket
  BY <1>5, RxPacketStep
<1>6. CASE RxReadyHandled
  BY <1>6, RxReadyStep
<1>7. CASE TxPacket
  BY <1>7, TxPacketStep
<1>8. CASE PhyDataInd
  BY <1>8, PhyDataIndStep
<1>9. CASE RxRes
  BY <1>9, RxResStep
<1>10. CASE OtherHandled
  BY <1>10, OtherStep
<1>11. CASE UNCHANGED vars
  BY <1>11, StutterStep
<1> QED
  BY <1>1, <1>2, <1>3, <1>4, <1>5, <1>6, <1>7, <1>8, <1>9, <1>10, <1>11 DEF Next, RfStep

THEOREM Invariance == Spec => []IInv
  BY IInvInit, IInvNext, PTL DEF Spec

(* No slot of EMN_PHY_RxBuf leaks and none is released twice, and with      *)
(* patient peers the assertions of network_phy.c hold.                      *)
THEOREM RingAccountCorrect == Spec => []RingAccount
<1>1. IInv => RingAccount
  BY DEF IInv
<1> QED
  BY <1>1, Invariance, PTL

(* The NWK layer reads the frame it was told of in MAC_ComBuf.              *)
THEOREM HandedOverCorrect == Spec => []HandedOver
<1>1. IInv => HandedOver
  BY DEF IInv
<1> QED
  BY <1>1, Invariance, PTL

(* EMN_PHY_RX_IND names the packets of one logical frame, whole.            *)
THEOREM WholeFramesCorrect == Spec => []WholeFrames
<1>1. IInv => WholeFrames
  BY DEF IInv
<1> QED
  BY <1>1, Invariance, PTL

(* A lost packet costs its own frame and the next, no other.                *)
THEOREM LossContainedCorrect == Spec => []LossContained
<1>1. IInv => LossContained
  <2> SUFFICES ASSUME IInv, peers = "patient", Quiet, nxt = 0, NEW m \in 1 .. cur - 1
               PROVE  m \in delivered \/ m \in lost \/ m - 1 \in lost
    BY DEF LossContained
  <2>1. PatientOK /\ ~InFlight
    BY DEF IInv, Running, Quiet, InFlight
  <2>2. Elems(queue) = {}
    BY NoMessages DEF Quiet
  <2> QED
    BY <2>1, <2>2 DEF PatientOK, LossOK, Intact
<1> QED
  BY <1>1, Invariance, PTL

=============================================================================

