--------------------------- MODULE MacLayerProofs ---------------------------
(***************************************************************************)
(* What the MAC layer guarantees for any number of stations, any channel   *)
(* and any traffic: types, repetitions dropped, new frames delivered,      *)
(* losses counted, and packets that come out in order as they were put in  *)
(* (PacketDelivery).                                                       *)
(*                                                                         *)
(* A block's state is tied to the PDUs it has handled: its last sequence   *)
(* number is that of the last PDU of a kind (with a header, for            *)
(* ether_encap; with data, for parse_mac), and what it put out it put out  *)
(* for such PDUs.  These ties are stated on values, so that one lemma      *)
(* covers each way in which the PDUs or the state grow.                    *)
(***************************************************************************)
EXTENDS MacLayer, ModuloLemmas

-----------------------------------------------------------------------------
(* Frames of the stations: numbered from the low bits of their position. *)

Own(f, least) == /\ f.kind = "Data" /\ f.n > 0 /\ f.len >= least
                 /\ f.field = 16 * ((f.n - 1) % SEQ_MOD)

SentOK(h) == \A k \in DOMAIN h : h[k].from \in Stations => Own(h[k], HEADER + LLC)

(* ether_encap, with the PDUs h, e of them handled, l last and o put out. *)
Fresh(h, k) ==
    \/ NoneBefore(k, Headed(h)) /\ h[k].field # 123
    \/ \E j \in Headed(h) : LastBefore(j, k, Headed(h)) /\ h[j].field # h[k].field

EncapOK(h, e, l, o) ==
    /\ e \in 0 .. Len(h)
    /\ \/ NoneBefore(e + 1, Headed(h)) /\ l = 123
       \/ \E j \in Headed(h) : LastBefore(j, e + 1, Headed(h)) /\ l = h[j].field
    /\ \A d \in DOMAIN o :
          /\ o[d].at \in Headed(h) /\ o[d].at <= e
          /\ o[d].from = h[o[d].at].from /\ o[d].n = h[o[d].at].n
          /\ Fresh(h, o[d].at)
    /\ \A c, d \in DOMAIN o : c < d => o[c].at < o[d].at
    /\ \A k \in Headed(h) : (k <= e /\ Carries(h[k]) /\ Fresh(h, k))
                               => \E d \in DOMAIN o : o[d].at = k

(* parse_mac, with the PDUs h, e of them handled, l last and o put out. *)
Counted(h, k, lost) ==
    \/ NoneBefore(k, DataAt(h)) /\ lost = LostFrames(-1, h[k])
    \/ \E j \in DataAt(h) : /\ LastBefore(j, k, DataAt(h))
                            /\ lost = LostFrames(SeqNo(h[j]), h[k])

ParseOK(h, e, l, o) ==
    /\ e \in 0 .. Len(h)
    /\ \/ NoneBefore(e + 1, DataAt(h)) /\ l = -1
       \/ \E j \in DataAt(h) : LastBefore(j, e + 1, DataAt(h)) /\ l = SeqNo(h[j])
    /\ \A d \in DOMAIN o : /\ o[d].at \in DataAt(h) /\ o[d].at <= e
                           /\ Counted(h, o[d].at, o[d].lost)

StationOK(s) ==
    /\ \A k \in DOMAIN tapIn[s] : tapIn[s][k] >= ETHERNET
    /\ seqNr[s] = Len(aired[s]) % COUNTER_MOD
    /\ \A n \in DOMAIN aired[s] : Own(aired[s][n], HEADER + LLC + 4)
    /\ SentOK(heard[s])
    /\ EncapOK(heard[s], encapRead[s], lastSeq[s], tapOut[s])
    /\ ParseOK(heard[s], parseRead[s], lastSeqNo[s], reports[s])

MacLayerInv == TypeOK /\ \A s \in Stations : StationOK(s)

-----------------------------------------------------------------------------
(* The components of a frame, and what becomes of it when it is published. *)
LEMMA FrameFields ==
    ASSUME NEW f \in Frame
    PROVE  /\ f.from \in Stations \cup {OTHERS} /\ f.n \in Nat /\ f.kind \in Kinds
           /\ f.len \in Nat /\ f.field \in Field
  BY DEF Frame

LEMMA FrameLength ==
    ASSUME NEW f \in Frame, NEW len \in Nat
    PROVE  [f EXCEPT !.len = len] \in Frame
  BY DEF Frame

LEMMA Numbers ==
    /\ 123 \in Field /\ -1 \in LastNumber
    /\ \A x \in Field : x \div 16 \in LastNumber /\ x \div 16 \in Int
    /\ \A x \in LastNumber : x \in Int
    /\ \A x \in 0 .. SEQ_MOD - 1 : 16 * x \in Field
<1>1. 123 \in Field /\ -1 \in LastNumber
  BY DEF Field, LastNumber
<1>2. ASSUME NEW x \in Field PROVE x \div 16 \in LastNumber /\ x \div 16 \in Int
  <2>1. x \in Int /\ 0 <= x /\ x <= 65535
    BY DEF Field
  <2>2. PICK q \in Int, r \in 0 .. 16 - 1 : x = 16 * q + r /\ q = x \div 16
    BY <2>1, DivMod
  <2>3. -1 <= q /\ q <= 4095
    BY <2>1, <2>2
  <2> QED
    BY <2>2, <2>3 DEF LastNumber
<1>3. ASSUME NEW x \in 0 .. SEQ_MOD - 1 PROVE 16 * x \in Field
  <2>1. x \in Nat /\ x <= 4095
    BY MacAssumption
  <2> QED
    BY <2>1 DEF Field
<1>4. ASSUME NEW x \in LastNumber PROVE x \in Int
  BY DEF LastNumber
<1> QED
  BY <1>1, <1>2, <1>3, <1>4

(* Growing the set of PDUs that count by a newer one changes nothing for    *)
(* the older ones.                                                          *)
LEMMA NewerIsNotBefore ==
    ASSUME NEW N \in Nat, NEW K \in SUBSET (1 .. N), NEW L,
           L = K \/ L = K \cup {N + 1},
           NEW k \in 1 .. N + 1, NEW j \in 1 .. N
    PROVE  /\ NoneBefore(k, L) <=> NoneBefore(k, K)
           /\ LastBefore(j, k, L) <=> LastBefore(j, k, K)
<1>1. \A i \in L : i < k => i \in K
  OBVIOUS
<1>2. \A i \in K : i \in L /\ i \in Int
  OBVIOUS
<1>3. \A i \in L : i \in Int
  <2>1. \A i \in L : i \in K \/ i = N + 1
    OBVIOUS
  <2>2. N + 1 \in Int
    OBVIOUS
  <2>3. ASSUME NEW i \in L PROVE i \in Int
    <3>1. i \in K \/ i = N + 1
      BY <2>1
    <3> QED
      BY <1>2, <2>2, <3>1
  <2> QED
    BY <2>3
<1>4. j # N + 1
  OBVIOUS
<1> QED
  BY <1>1, <1>2, <1>3, <1>4 DEF NoneBefore, LastBefore

(* A PDU that has been handled is either of the kind that counts, and then  *)
(* the last one, or the last one is the same as before.                     *)
LEMMA LastHandled ==
    ASSUME NEW N \in Nat, NEW K \in SUBSET (1 .. N), NEW k \in 1 .. N
    PROVE  /\ k \in K => LastBefore(k, k + 1, K)
           /\ k \notin K => /\ NoneBefore(k + 1, K) <=> NoneBefore(k, K)
                            /\ \A j \in K : LastBefore(j, k + 1, K)
                                              <=> LastBefore(j, k, K)
<1>1. \A i \in K : i \in Int
  OBVIOUS
<1> QED
  BY <1>1 DEF NoneBefore, LastBefore

(* There is one last PDU before k. *)
LEMMA LastUnique ==
    ASSUME NEW K \in SUBSET Nat, NEW k \in Nat, NEW i \in K, NEW j \in K,
           LastBefore(i, k, K)
    PROVE  /\ ~NoneBefore(k, K)
           /\ LastBefore(j, k, K) => i = j
  BY DEF NoneBefore, LastBefore

(* The frame decoded last comes behind all others. *)
LEMMA HeardGrows ==
    ASSUME NEW h \in Seq(Frame), NEW f \in Frame
    PROVE  /\ Append(h, f) \in Seq(Frame)
           /\ Len(Append(h, f)) = Len(h) + 1
           /\ \A k \in 1 .. Len(h) : Append(h, f)[k] = h[k]
           /\ Append(h, f)[Len(h) + 1] = f
           /\ Headed(h) \in SUBSET (1 .. Len(h)) /\ DataAt(h) \in SUBSET (1 .. Len(h))
           /\ \/ Headed(Append(h, f)) = Headed(h)
              \/ Headed(Append(h, f)) = Headed(h) \cup {Len(h) + 1}
           /\ \/ DataAt(Append(h, f)) = DataAt(h)
              \/ DataAt(Append(h, f)) = DataAt(h) \cup {Len(h) + 1}
<1> DEFINE g == Append(h, f)
<1>1. /\ g \in Seq(Frame) /\ Len(g) = Len(h) + 1 /\ Len(h) \in Nat
      /\ \A k \in 1 .. Len(h) : g[k] = h[k]
      /\ g[Len(h) + 1] = f
      /\ DOMAIN h = 1 .. Len(h) /\ DOMAIN g = 1 .. Len(h) + 1
  OBVIOUS
<1> HIDE DEF g
<1>2. \A k : k \in DOMAIN g <=> k \in DOMAIN h \/ k = Len(h) + 1
  BY <1>1
<1>3. Len(h) + 1 \notin DOMAIN h
  BY <1>1
<1>4. /\ g[Len(h) + 1].len >= HEADER => Headed(g) = Headed(h) \cup {Len(h) + 1}
      /\ ~(g[Len(h) + 1].len >= HEADER) => Headed(g) = Headed(h)
  BY <1>1, <1>2, <1>3 DEF Headed
<1>5. /\ IsData(g[Len(h) + 1]) => DataAt(g) = DataAt(h) \cup {Len(h) + 1}
      /\ ~IsData(g[Len(h) + 1]) => DataAt(g) = DataAt(h)
  BY <1>1, <1>2, <1>3 DEF DataAt
<1>6. Headed(h) \in SUBSET (1 .. Len(h)) /\ DataAt(h) \in SUBSET (1 .. Len(h))
  BY <1>1 DEF Headed, DataAt
<1> QED
  BY <1>1, <1>4, <1>5, <1>6 DEF g

-----------------------------------------------------------------------------
(* The ties survive a PDU that is decoded and not handled yet. *)

LEMMA FreshGrows ==
    ASSUME NEW h \in Seq(Frame), NEW f \in Frame, NEW k \in 1 .. Len(h)
    PROVE  Fresh(Append(h, f), k) <=> Fresh(h, k)
<1> DEFINE g == Append(h, f)
<1>1. /\ \A j \in 1 .. Len(h) : g[j] = h[j]
      /\ Headed(h) \in SUBSET (1 .. Len(h))
      /\ Headed(g) = Headed(h) \/ Headed(g) = Headed(h) \cup {Len(h) + 1}
  BY HeardGrows
<1>2. Len(h) \in Nat
  OBVIOUS
<1> HIDE DEF g
<1>3. /\ NoneBefore(k, Headed(g)) <=> NoneBefore(k, Headed(h))
      /\ \A j \in 1 .. Len(h) :
            LastBefore(j, k, Headed(g)) <=> LastBefore(j, k, Headed(h))
  <2>1. k \in 1 .. Len(h) + 1
    BY <1>2
  <2>2. ASSUME NEW j \in 1 .. Len(h)
        PROVE  /\ NoneBefore(k, Headed(g)) <=> NoneBefore(k, Headed(h))
               /\ LastBefore(j, k, Headed(g)) <=> LastBefore(j, k, Headed(h))
    BY <1>1, <1>2, <2>1, NewerIsNotBefore
  <2> QED
    BY <2>2
<1>4. ASSUME NEW j, LastBefore(j, k, Headed(g))
      PROVE  j \in 1 .. Len(h)
  <2>1. j \in Headed(g) /\ j < k
    BY <1>4 DEF LastBefore
  <2>2. j # Len(h) + 1
    BY <1>2, <2>1
  <2> QED
    BY <1>1, <2>1, <2>2
<1>5. Fresh(g, k) <=> Fresh(h, k)
  BY <1>1, <1>3, <1>4 DEF Fresh
<1> QED
  BY <1>5 DEF g

LEMMA EncapHears ==
    ASSUME NEW h \in Seq(Frame), NEW f \in Frame, NEW e, NEW l, NEW o,
           EncapOK(h, e, l, o)
    PROVE  EncapOK(Append(h, f), e, l, o)
<1> DEFINE g == Append(h, f)
<1>1. /\ Len(g) = Len(h) + 1 /\ Len(h) \in Nat
      /\ \A j \in 1 .. Len(h) : g[j] = h[j]
      /\ Headed(h) \in SUBSET (1 .. Len(h))
      /\ Headed(g) = Headed(h) \/ Headed(g) = Headed(h) \cup {Len(h) + 1}
  BY HeardGrows
<1>2. \A k \in 1 .. Len(h) : Fresh(g, k) <=> Fresh(h, k)
  BY FreshGrows
<1>3. e \in 0 .. Len(h)
  BY DEF EncapOK
<1> HIDE DEF g
<1>4. e \in 0 .. Len(g) /\ e + 1 \in 1 .. Len(h) + 1
  BY <1>1, <1>3
<1>5. \/ NoneBefore(e + 1, Headed(g)) /\ l = 123
      \/ \E j \in Headed(g) : LastBefore(j, e + 1, Headed(g)) /\ l = g[j].field
  <2>1. CASE NoneBefore(e + 1, Headed(h)) /\ l = 123
    <3>1. \A i \in Headed(g) : i \in Headed(h) \/ i = Len(h) + 1
      BY <1>1
    <3>2. Len(h) + 1 >= e + 1
      BY <1>1, <1>3
    <3> QED
      BY <2>1, <3>1, <3>2 DEF NoneBefore
  <2>2. CASE \E j \in Headed(h) : LastBefore(j, e + 1, Headed(h)) /\ l = h[j].field
    <3>1. PICK j \in Headed(h) : LastBefore(j, e + 1, Headed(h)) /\ l = h[j].field
      BY <2>2
    <3>2. j \in 1 .. Len(h) /\ j \in Headed(g)
      BY <1>1
    <3>3. LastBefore(j, e + 1, Headed(g))
      BY <1>1, <1>4, <3>1, <3>2, NewerIsNotBefore
    <3> QED
      BY <1>1, <3>1, <3>2, <3>3
  <2> QED
    BY <2>1, <2>2 DEF EncapOK
<1>6. ASSUME NEW d \in DOMAIN o
      PROVE  /\ o[d].at \in Headed(g) /\ o[d].at <= e
             /\ o[d].from = g[o[d].at].from /\ o[d].n = g[o[d].at].n
             /\ Fresh(g, o[d].at)
  <2>1. /\ o[d].at \in Headed(h) /\ o[d].at <= e
        /\ o[d].from = h[o[d].at].from /\ o[d].n = h[o[d].at].n
        /\ Fresh(h, o[d].at)
    BY DEF EncapOK
  <2>2. o[d].at \in 1 .. Len(h)
    BY <1>1, <2>1
  <2> QED
    BY <1>1, <1>2, <2>1, <2>2
<1>7. ASSUME NEW k \in Headed(g), k <= e, Carries(g[k]), Fresh(g, k)
      PROVE  \E d \in DOMAIN o : o[d].at = k
  <2>1. k \in Headed(h) /\ k \in 1 .. Len(h)
    <3>1. k # Len(h) + 1
      BY <1>1, <1>3, <1>7
    <3> QED
      BY <1>1, <3>1
  <2> QED
    BY <1>1, <1>2, <1>7, <2>1 DEF EncapOK
<1>8. EncapOK(g, e, l, o)
  BY <1>4, <1>5, <1>6, <1>7 DEF EncapOK
<1> QED
  BY <1>8 DEF g

LEMMA ParseHears ==
    ASSUME NEW h \in Seq(Frame), NEW f \in Frame, NEW e, NEW l, NEW o,
           ParseOK(h, e, l, o)
    PROVE  ParseOK(Append(h, f), e, l, o)
<1> DEFINE g == Append(h, f)
<1>1. /\ Len(g) = Len(h) + 1 /\ Len(h) \in Nat
      /\ \A j \in 1 .. Len(h) : g[j] = h[j]
      /\ DataAt(h) \in SUBSET (1 .. Len(h))
      /\ DataAt(g) = DataAt(h) \/ DataAt(g) = DataAt(h) \cup {Len(h) + 1}
  BY HeardGrows
<1>2. e \in 0 .. Len(h)
  BY DEF ParseOK
<1> HIDE DEF g
<1>3. e \in 0 .. Len(g) /\ e + 1 \in 1 .. Len(h) + 1
  BY <1>1, <1>2
<1>4. ASSUME NEW k \in 1 .. Len(h) + 1
      PROVE  /\ NoneBefore(k, DataAt(h)) => NoneBefore(k, DataAt(g))
             /\ \A j \in DataAt(h) :
                   LastBefore(j, k, DataAt(h)) => /\ LastBefore(j, k, DataAt(g))
                                                  /\ j \in DataAt(g) /\ g[j] = h[j]
  <2>1. NoneBefore(k, DataAt(h)) => NoneBefore(k, DataAt(g))
    <3>1. \A i \in DataAt(g) : i \in DataAt(h) \/ i = Len(h) + 1
      BY <1>1
    <3>2. Len(h) + 1 >= k
      BY <1>1
    <3> QED
      BY <3>1, <3>2 DEF NoneBefore
  <2>2. ASSUME NEW j \in DataAt(h), LastBefore(j, k, DataAt(h))
        PROVE  /\ LastBefore(j, k, DataAt(g))
               /\ j \in DataAt(g) /\ g[j] = h[j]
    <3>1. j \in 1 .. Len(h) /\ j \in DataAt(g)
      BY <1>1
    <3> QED
      BY <1>1, <2>2, <3>1, NewerIsNotBefore
  <2> QED
    BY <2>1, <2>2
<1>5. \/ NoneBefore(e + 1, DataAt(g)) /\ l = -1
      \/ \E j \in DataAt(g) : LastBefore(j, e + 1, DataAt(g)) /\ l = SeqNo(g[j])
  <2>1. CASE NoneBefore(e + 1, DataAt(h)) /\ l = -1
    BY <1>3, <1>4, <2>1
  <2>2. CASE \E j \in DataAt(h) : LastBefore(j, e + 1, DataAt(h)) /\ l = SeqNo(h[j])
    <3>1. PICK j \in DataAt(h) : LastBefore(j, e + 1, DataAt(h)) /\ l = SeqNo(h[j])
      BY <2>2
    <3>2. LastBefore(j, e + 1, DataAt(g)) /\ j \in DataAt(g) /\ g[j] = h[j]
      BY <1>3, <1>4, <3>1
    <3> QED
      BY <3>1, <3>2
  <2> QED
    BY <2>1, <2>2 DEF ParseOK
<1>6. ASSUME NEW d \in DOMAIN o
      PROVE  /\ o[d].at \in DataAt(g) /\ o[d].at <= e
             /\ Counted(g, o[d].at, o[d].lost)
  <2>1. /\ o[d].at \in DataAt(h) /\ o[d].at <= e
        /\ Counted(h, o[d].at, o[d].lost)
    BY DEF ParseOK
  <2>2. o[d].at \in 1 .. Len(h) + 1 /\ g[o[d].at] = h[o[d].at]
    BY <1>1, <2>1
  <2>3. o[d].at \in DataAt(g)
    BY <1>1, <2>1
  <2>4. Counted(g, o[d].at, o[d].lost)
    <3>1. CASE /\ NoneBefore(o[d].at, DataAt(h))
               /\ o[d].lost = LostFrames(-1, h[o[d].at])
      BY <1>4, <2>2, <3>1 DEF Counted
    <3>2. CASE \E j \in DataAt(h) :
                  /\ LastBefore(j, o[d].at, DataAt(h))
                  /\ o[d].lost = LostFrames(SeqNo(h[j]), h[o[d].at])
      <4>1. PICK j \in DataAt(h) :
               /\ LastBefore(j, o[d].at, DataAt(h))
               /\ o[d].lost = LostFrames(SeqNo(h[j]), h[o[d].at])
        BY <3>2
      <4>2. LastBefore(j, o[d].at, DataAt(g)) /\ j \in DataAt(g) /\ g[j] = h[j]
        BY <1>4, <2>2, <4>1
      <4> QED
        BY <2>2, <4>1, <4>2 DEF Counted
    <3> QED
      BY <2>1, <3>1, <3>2 DEF Counted
  <2> QED
    BY <2>1, <2>3, <2>4
<1>7. ParseOK(g, e, l, o)
  BY <1>3, <1>5, <1>6 DEF ParseOK
<1> QED
  BY <1>7 DEF g

-----------------------------------------------------------------------------
(* The ties survive from_wifi. *)

(* The last sequence number tells a fresh PDU. *)
LEMMA FreshIsUnlikeLast ==
    ASSUME NEW h \in Seq(Frame), NEW e, NEW l, NEW o, EncapOK(h, e, l, o),
           e < Len(h), e + 1 \in Headed(h)
    PROVE  Fresh(h, e + 1) <=> h[e + 1].field # l
<1>1. Headed(h) \in SUBSET Nat /\ e + 1 \in Nat
  BY DEF Headed, EncapOK
<1>2. CASE NoneBefore(e + 1, Headed(h)) /\ l = 123
  BY <1>1, <1>2, LastUnique DEF Fresh
<1>3. CASE \E j \in Headed(h) : LastBefore(j, e + 1, Headed(h)) /\ l = h[j].field
  <2>1. PICK j \in Headed(h) : LastBefore(j, e + 1, Headed(h)) /\ l = h[j].field
    BY <1>3
  <2>2. /\ ~NoneBefore(e + 1, Headed(h))
        /\ \A i \in Headed(h) : LastBefore(i, e + 1, Headed(h)) => j = i
    BY <1>1, <2>1, LastUnique
  <2> QED
    BY <2>1, <2>2 DEF Fresh
<1> QED
  BY <1>2, <1>3 DEF EncapOK

(* A PDU without a whole header leaves everything as it was. *)
LEMMA EncapSkipsShort ==
    ASSUME NEW h \in Seq(Frame), NEW e, NEW l, NEW o, EncapOK(h, e, l, o),
           e < Len(h), e + 1 \notin Headed(h)
    PROVE  EncapOK(h, e + 1, l, o)
<1>1. /\ e \in 0 .. Len(h) /\ e + 1 \in 0 .. Len(h) /\ e + 1 \in 1 .. Len(h)
      /\ Headed(h) \in SUBSET (1 .. Len(h)) /\ Len(h) \in Nat
  BY DEF EncapOK, Headed
<1>2. /\ NoneBefore(e + 1 + 1, Headed(h)) <=> NoneBefore(e + 1, Headed(h))
      /\ \A j \in Headed(h) : LastBefore(j, e + 1 + 1, Headed(h))
                                <=> LastBefore(j, e + 1, Headed(h))
  BY <1>1, LastHandled
<1>3. \A k \in Headed(h) : k <= e + 1 <=> k <= e
  BY <1>1
<1> QED
  BY <1>1, <1>2, <1>3 DEF EncapOK

(* A PDU with a header is the last one from then on, and is put out if its  *)
(* number is not that of the last one and it carries data.                  *)
LEMMA EncapTakesHeaded ==
    ASSUME NEW h \in Seq(Frame), NEW e, NEW l, NEW S, NEW o \in Seq(S), NEW q \in Seq(S),
           EncapOK(h, e, l, o), e < Len(h), e + 1 \in Headed(h),
           \/ q = o /\ (h[e + 1].field = l \/ ~Carries(h[e + 1]))
           \/ /\ h[e + 1].field # l
              /\ \E p : /\ q = Append(o, p)
                        /\ p.at = e + 1
                        /\ p.from = h[e + 1].from /\ p.n = h[e + 1].n
    PROVE  EncapOK(h, e + 1, h[e + 1].field, q)
<1>1. /\ e \in 0 .. Len(h) /\ e + 1 \in 0 .. Len(h) /\ e + 1 \in 1 .. Len(h)
      /\ Headed(h) \in SUBSET (1 .. Len(h)) /\ Len(h) \in Nat
  BY DEF EncapOK, Headed
<1>2. LastBefore(e + 1, e + 1 + 1, Headed(h))
  BY <1>1, LastHandled
<1>3. Fresh(h, e + 1) <=> h[e + 1].field # l
  BY FreshIsUnlikeLast
<1>4. \A k \in Headed(h) : k <= e + 1 <=> k <= e \/ k = e + 1
  BY <1>1
<1>5. /\ \A d \in DOMAIN o :
            /\ o[d].at \in Headed(h) /\ o[d].at <= e
            /\ o[d].from = h[o[d].at].from /\ o[d].n = h[o[d].at].n
            /\ Fresh(h, o[d].at)
      /\ \A c, d \in DOMAIN o : c < d => o[c].at < o[d].at
      /\ \A k \in Headed(h) : (k <= e /\ Carries(h[k]) /\ Fresh(h, k))
                                 => \E d \in DOMAIN o : o[d].at = k
  BY DEF EncapOK
<1>6. CASE q = o /\ (h[e + 1].field = l \/ ~Carries(h[e + 1]))
  <2>1. \A k \in Headed(h) : (k <= e + 1 /\ Carries(h[k]) /\ Fresh(h, k))
                                => \E d \in DOMAIN q : q[d].at = k
    BY <1>3, <1>4, <1>5, <1>6
  <2>2. \A d \in DOMAIN q :
            /\ q[d].at \in Headed(h) /\ q[d].at <= e + 1
            /\ q[d].from = h[q[d].at].from /\ q[d].n = h[q[d].at].n
            /\ Fresh(h, q[d].at)
    BY <1>4, <1>5, <1>6
  <2> QED
    BY <1>1, <1>2, <1>5, <1>6, <2>1, <2>2 DEF EncapOK
<1>7. CASE /\ h[e + 1].field # l
           /\ \E p : /\ q = Append(o, p)
                     /\ p.at = e + 1
                     /\ p.from = h[e + 1].from /\ p.n = h[e + 1].n
  <2>1. PICK p : /\ q = Append(o, p)
                 /\ p.at = e + 1
                 /\ p.from = h[e + 1].from /\ p.n = h[e + 1].n
    BY <1>7
  <2>2. /\ Len(o) \in Nat /\ DOMAIN o = 1 .. Len(o) /\ DOMAIN q = 1 .. Len(o) + 1
        /\ \A d \in DOMAIN o : q[d] = o[d]
        /\ q[Len(o) + 1] = p
    BY <2>1
  <2>3. \A d \in DOMAIN q : d \in DOMAIN o \/ d = Len(o) + 1
    BY <2>2
  <2>4. \A d \in DOMAIN q :
            /\ q[d].at \in Headed(h) /\ q[d].at <= e + 1
            /\ q[d].from = h[q[d].at].from /\ q[d].n = h[q[d].at].n
            /\ Fresh(h, q[d].at)
    <3> SUFFICES ASSUME NEW d \in DOMAIN q
                 PROVE  /\ q[d].at \in Headed(h) /\ q[d].at <= e + 1
                        /\ q[d].from = h[q[d].at].from /\ q[d].n = h[q[d].at].n
                        /\ Fresh(h, q[d].at)
      OBVIOUS
    <3>1. CASE d \in DOMAIN o
      BY <1>4, <1>5, <2>2, <3>1
    <3>2. CASE d = Len(o) + 1
      <4>1. q[d] = p
        BY <2>2, <3>2
      <4>2. Fresh(h, e + 1)
        BY <1>3, <1>7
      <4>3. e + 1 <= e + 1
        BY <1>1
      <4> QED
        BY <2>1, <4>1, <4>2, <4>3
    <3> QED
      BY <2>3, <3>1, <3>2
  <2>5. ASSUME NEW c \in DOMAIN q, NEW d \in DOMAIN q, c < d
        PROVE  q[c].at < q[d].at
    <3>1. c \in DOMAIN o
      BY <2>2, <2>5
    <3>2. CASE d \in DOMAIN o
      BY <1>5, <2>2, <2>5, <3>1, <3>2
    <3>3. CASE d = Len(o) + 1
      <4>1. q[c] = o[c] /\ o[c].at <= e /\ o[c].at \in Headed(h) /\ q[d].at = e + 1
        BY <1>5, <2>1, <2>2, <3>1, <3>3
      <4> QED
        BY <1>1, <4>1
    <3> QED
      BY <2>3, <3>2, <3>3
  <2>6. ASSUME NEW k \in Headed(h), k <= e + 1, Carries(h[k]), Fresh(h, k)
        PROVE  \E d \in DOMAIN q : q[d].at = k
    <3>1. CASE k <= e
      <4>1. PICK d \in DOMAIN o : o[d].at = k
        BY <1>5, <2>6, <3>1
      <4>2. d \in DOMAIN q /\ q[d] = o[d]
        BY <2>2
      <4> QED
        BY <4>1, <4>2
    <3>2. CASE k = e + 1
      <4>1. Len(o) + 1 \in DOMAIN q
        BY <2>2
      <4> QED
        BY <2>1, <2>2, <3>2, <4>1
    <3> QED
      BY <1>4, <2>6, <3>1, <3>2
  <2> QED
    BY <1>1, <1>2, <2>4, <2>5, <2>6 DEF EncapOK
<1> QED
  BY <1>6, <1>7

(* The ties survive parse. *)

LEMMA ParseSkips ==
    ASSUME NEW h \in Seq(Frame), NEW e, NEW l, NEW o, ParseOK(h, e, l, o),
           e < Len(h), e + 1 \notin DataAt(h)
    PROVE  ParseOK(h, e + 1, l, o)
<1>1. /\ e \in 0 .. Len(h) /\ e + 1 \in 0 .. Len(h) /\ e + 1 \in 1 .. Len(h)
      /\ DataAt(h) \in SUBSET (1 .. Len(h)) /\ Len(h) \in Nat
  BY DEF ParseOK, DataAt
<1>2. /\ NoneBefore(e + 1 + 1, DataAt(h)) <=> NoneBefore(e + 1, DataAt(h))
      /\ \A j \in DataAt(h) : LastBefore(j, e + 1 + 1, DataAt(h))
                                <=> LastBefore(j, e + 1, DataAt(h))
  BY <1>1, LastHandled
<1>3. \A k \in DataAt(h) : k <= e => k <= e + 1
  BY <1>1
<1> QED
  BY <1>1, <1>2, <1>3 DEF ParseOK

LEMMA ParseTakesData ==
    ASSUME NEW h \in Seq(Frame), NEW e, NEW l, NEW S, NEW o \in Seq(S),
           ParseOK(h, e, l, o), e < Len(h), e + 1 \in DataAt(h), NEW r,
           r.at = e + 1, r.lost = LostFrames(l, h[e + 1])
    PROVE  ParseOK(h, e + 1, SeqNo(h[e + 1]), Append(o, r))
<1> DEFINE q == Append(o, r)
<1>1. /\ e \in 0 .. Len(h) /\ e + 1 \in 0 .. Len(h) /\ e + 1 \in 1 .. Len(h)
      /\ DataAt(h) \in SUBSET (1 .. Len(h)) /\ Len(h) \in Nat
  BY DEF ParseOK, DataAt
<1>2. LastBefore(e + 1, e + 1 + 1, DataAt(h))
  BY <1>1, LastHandled
<1>3. Counted(h, e + 1, r.lost)
  BY DEF ParseOK, Counted
<1>4. /\ \A d \in DOMAIN o : q[d] = o[d]
      /\ q[Len(o) + 1] = r
      /\ \A d \in DOMAIN q : d \in DOMAIN o \/ d = Len(o) + 1
  OBVIOUS
<1> HIDE DEF q
<1>5. \A d \in DOMAIN o : /\ o[d].at \in DataAt(h) /\ o[d].at <= e
                          /\ Counted(h, o[d].at, o[d].lost)
  BY DEF ParseOK
<1>6. \A k \in DataAt(h) : k <= e => k <= e + 1
  BY <1>1
<1>7. \A d \in DOMAIN q : /\ q[d].at \in DataAt(h) /\ q[d].at <= e + 1
                          /\ Counted(h, q[d].at, q[d].lost)
  BY <1>1, <1>3, <1>4, <1>5, <1>6
<1>8. ParseOK(h, e + 1, SeqNo(h[e + 1]), q)
  BY <1>1, <1>2, <1>7 DEF ParseOK
<1> QED
  BY <1>8 DEF q

-----------------------------------------------------------------------------
(* Sequence numbers. *)

(* The numbers of a station's frames are the low bits of their position:    *)
(* d_seq_nr wraps, at a multiple of how many numbers there are.             *)
LEMMA CounterWraps ==
    ASSUME NEW n \in Nat
    PROVE  /\ (n % COUNTER_MOD) % SEQ_MOD = n % SEQ_MOD
           /\ ((n % COUNTER_MOD) + 1) % COUNTER_MOD = (n + 1) % COUNTER_MOD
           /\ n % COUNTER_MOD \in 0 .. COUNTER_MOD - 1
<1>1. /\ COUNTER_MOD \in Nat \ {0} /\ SEQ_MOD \in Nat \ {0}
      /\ COUNTER_MOD % SEQ_MOD = 0
  BY MacAssumption
<1>2. PICK q \in Int, r \in 0 .. COUNTER_MOD - 1 :
         n = COUNTER_MOD * q + r /\ n % COUNTER_MOD = r
  <2>1. n \in Int
    OBVIOUS
  <2> QED
    BY <1>1, <2>1, Recompose
<1>3. PICK c \in Int : COUNTER_MOD = SEQ_MOD * c
  <2>1. COUNTER_MOD \in Int
    BY <1>1
  <2>2. PICK c \in Int, z \in 0 .. SEQ_MOD - 1 :
           COUNTER_MOD = SEQ_MOD * c + z /\ COUNTER_MOD % SEQ_MOD = z
    BY <1>1, <2>1, Recompose
  <2>3. SEQ_MOD * c \in Int /\ z = 0
    BY <1>1, <2>2
  <2> QED
    BY <2>2, <2>3
<1>4. PICK p \in Int, t \in 0 .. SEQ_MOD - 1 : r = SEQ_MOD * p + t /\ r % SEQ_MOD = t
  <2>1. r \in Int
    BY <1>1
  <2> QED
    BY <1>1, <2>1, Recompose
<1>5. n = SEQ_MOD * (c * q + p) + t
  <2>1. COUNTER_MOD * q = SEQ_MOD * (c * q)
    BY <1>1, <1>3
  <2>2. c * q \in Int
    OBVIOUS
  <2>3. SEQ_MOD * (c * q + p) = SEQ_MOD * (c * q) + SEQ_MOD * p
    BY <1>1, <2>2
  <2>4. SEQ_MOD * (c * q) \in Int /\ SEQ_MOD * p \in Int
    BY <1>1, <2>2
  <2> QED
    BY <1>2, <1>4, <2>1, <2>3, <2>4
<1>6. n % SEQ_MOD = t
  <2>1. c * q + p \in Int
    OBVIOUS
  <2> QED
    BY <1>1, <1>5, <2>1, ModUnique
<1>7. r % COUNTER_MOD = n % COUNTER_MOD
  <2>1. r = COUNTER_MOD * 0 + r
    BY <1>1
  <2> QED
    BY <1>1, <1>2, <2>1, ModUnique
<1>8. (r + 1) % COUNTER_MOD = (n + 1) % COUNTER_MOD
  <2>1. r \in Int /\ n \in Int
    BY <1>1
  <2>2. r % COUNTER_MOD = n % COUNTER_MOD
    BY <1>7
  <2> QED
    BY <1>1, <2>1, <2>2, ModSucc, Zenon
<1> QED
  BY <1>2, <1>4, <1>6, <1>8

(* From one frame of a station to another, the number grows by how many     *)
(* frames there are, or by that less how many numbers there are.            *)
LEMMA NumberDifference ==
    ASSUME NEW a \in Nat, NEW d \in 1 .. SEQ_MOD - 1
    PROVE  /\ a % SEQ_MOD \in 0 .. SEQ_MOD - 1
           /\ (a + d) % SEQ_MOD \in 0 .. SEQ_MOD - 1
           /\ \/ (a + d) % SEQ_MOD = (a % SEQ_MOD) + d
              \/ (a + d) % SEQ_MOD = (a % SEQ_MOD) + d - SEQ_MOD
           /\ a < SEQ_MOD => a % SEQ_MOD = a
<1>1. SEQ_MOD \in Nat \ {0}
  BY MacAssumption
<1>2. PICK q \in Int, r \in 0 .. SEQ_MOD - 1 : a = SEQ_MOD * q + r /\ a % SEQ_MOD = r
  <2>1. a \in Int
    OBVIOUS
  <2> QED
    BY <1>1, <2>1, Recompose
<1>3. CASE r + d < SEQ_MOD
  <2>1. a + d = SEQ_MOD * q + (r + d) /\ r + d \in 0 .. SEQ_MOD - 1 /\ a + d \in Int
    BY <1>1, <1>2, <1>3
  <2>2. (a + d) % SEQ_MOD = r + d
    BY <1>1, <2>1, ModUnique
  <2>3. a < SEQ_MOD => a % SEQ_MOD = a
    <3>1. a = SEQ_MOD * 0 + a
      BY <1>1
    <3> QED
      BY <1>1, <3>1, ModUnique
  <2> QED
    BY <1>2, <2>1, <2>2, <2>3
<1>4. CASE r + d >= SEQ_MOD
  <2>1. /\ a + d = SEQ_MOD * (q + 1) + (r + d - SEQ_MOD) /\ q + 1 \in Int
        /\ r + d - SEQ_MOD \in 0 .. SEQ_MOD - 1 /\ a + d \in Int
    BY <1>1, <1>2, <1>4
  <2>2. (a + d) % SEQ_MOD = r + d - SEQ_MOD
    BY <1>1, <2>1, ModUnique
  <2>3. a < SEQ_MOD => a % SEQ_MOD = a
    <3>1. a = SEQ_MOD * 0 + a
      BY <1>1
    <3> QED
      BY <1>1, <3>1, ModUnique
  <2> QED
    BY <1>2, <2>1, <2>2, <2>3
<1> QED
  BY <1>1, <1>2, <1>3, <1>4

(* A station's frame has a sequence control field of 16 bits, which is not  *)
(* what d_last_seq starts from, and its number is what the field says.      *)
LEMMA OwnField ==
    ASSUME NEW f \in Frame, NEW least, Own(f, least)
    PROVE  /\ f.n - 1 \in Nat
           /\ (f.n - 1) % SEQ_MOD \in 0 .. SEQ_MOD - 1
           /\ SeqNo(f) = (f.n - 1) % SEQ_MOD
           /\ f.field # 123
<1>1. f.n \in Nat /\ f.n > 0
  <2>1. f.n \in Nat
    BY FrameFields
  <2> QED
    BY <2>1 DEF Own
<1>2. SEQ_MOD \in Nat \ {0}
  BY MacAssumption
<1>3. PICK r \in 0 .. SEQ_MOD - 1 : r = (f.n - 1) % SEQ_MOD
  BY <1>1, <1>2, DivMod
<1>4. f.field = 16 * r
  BY <1>3 DEF Own
<1>5. (16 * r) \div 16 = r /\ 16 * r # 123
  BY <1>2
<1> QED
  BY <1>1, <1>3, <1>4, <1>5 DEF SeqNo

(* Of two frames of a station, fewer apart than there are numbers, the      *)
(* fields differ, and parse_mac counts the frames in between.               *)
LEMMA NumbersApart ==
    ASSUME NEW g \in Frame, NEW f \in Frame, NEW least,
           Own(g, least), Own(f, least), f.n - g.n \in 1 .. SEQ_MOD - 1
    PROVE  /\ f.field # g.field
           /\ LostFrames(SeqNo(g), f) = f.n - g.n - 1
<1>1. f.n \in Nat /\ g.n \in Nat /\ SEQ_MOD \in Nat
  <2>1. f.n \in Nat /\ g.n \in Nat
    BY FrameFields
  <2> QED
    BY <2>1, MacAssumption
<1>2. PICK a \in Nat, d \in 1 .. SEQ_MOD - 1 :
         a = g.n - 1 /\ d = f.n - g.n /\ f.n - 1 = a + d
  BY <1>1, OwnField
<1>3. /\ a % SEQ_MOD \in 0 .. SEQ_MOD - 1
      /\ (a + d) % SEQ_MOD \in 0 .. SEQ_MOD - 1
      /\ \/ (a + d) % SEQ_MOD = (a % SEQ_MOD) + d
         \/ (a + d) % SEQ_MOD = (a % SEQ_MOD) + d - SEQ_MOD
  BY NumberDifference
<1>4. SeqNo(g) = a % SEQ_MOD /\ SeqNo(f) = (a + d) % SEQ_MOD
  BY <1>2, OwnField
<1>5. PICK x \in 0 .. SEQ_MOD - 1, y \in 0 .. SEQ_MOD - 1 :
         x = a % SEQ_MOD /\ y = (a + d) % SEQ_MOD
  BY <1>3
<1>6. y = x + d \/ y = x + d - SEQ_MOD
  BY <1>3, <1>5
<1>7. f.field # g.field
  <2>1. f.field = 16 * y /\ g.field = 16 * x
    BY <1>2, <1>5 DEF Own
  <2> QED
    BY <1>1, <1>6, <2>1
<1>8. LostFrames(SeqNo(g), f) = d - 1
  <2>1. LostFrames(SeqNo(g), f) = IF y - x - 1 < 0 THEN y - x - 1 + SEQ_MOD
                                                   ELSE y - x - 1
    BY <1>4, <1>5 DEF LostFrames
  <2> QED
    BY <1>1, <1>6, <2>1
<1> QED
  BY <1>2, <1>7, <1>8

(* The first frame that a station hears: those before it were lost.         *)
LEMMA FirstLost ==
    ASSUME NEW f \in Frame, NEW least, Own(f, least), f.n <= SEQ_MOD
    PROVE  LostFrames(-1, f) = f.n - 1
<1>1. f.n \in Nat /\ f.n - 1 \in Nat /\ SEQ_MOD \in Nat /\ 2 <= SEQ_MOD /\ SEQ_MOD <= 4096
  <2>1. f.n \in Nat
    BY FrameFields
  <2> QED
    BY <2>1, MacAssumption, OwnField
<1>2. (f.n - 1) % SEQ_MOD = f.n - 1
  <2>1. f.n - 1 \in Nat /\ f.n - 1 < SEQ_MOD /\ 1 \in 1 .. SEQ_MOD - 1
    BY <1>1
  <2> QED
    BY <2>1, NumberDifference, Zenon
<1>3. SeqNo(f) = f.n - 1
  BY <1>2, OwnField
<1> QED
  BY <1>1, <1>3 DEF LostFrames

-----------------------------------------------------------------------------
(* The invariant holds at the start, and every step keeps it. *)

LEMMA InitInv == Init => MacLayerInv
<1> SUFFICES ASSUME Init PROVE MacLayerInv
  OBVIOUS
<1> USE DEF Init, AirInit, EncapInit, MacInit, ParseInit
<1>1. COUNTER_MOD \in Nat \ {0}
  BY MacAssumption
<1>2. AirTypeOK
  BY DEF AirTypeOK
<1>3. EncapTypeOK
  BY Numbers DEF EncapTypeOK
<1>4. MacTypeOK
  BY <1>1 DEF MacTypeOK
<1>5. ParseTypeOK
  BY Numbers DEF ParseTypeOK
<1>6. ASSUME NEW s \in Stations PROVE StationOK(s)
  <2>1. /\ tapIn[s] = << >> /\ aired[s] = << >> /\ heard[s] = << >>
        /\ tapOut[s] = << >> /\ reports[s] = << >>
        /\ encapRead[s] = 0 /\ parseRead[s] = 0
        /\ lastSeq[s] = 123 /\ lastSeqNo[s] = -1 /\ seqNr[s] = 0
    OBVIOUS
  <2>2. 0 % COUNTER_MOD = 0
    <3>1. 0 = COUNTER_MOD * 0 + 0 /\ 0 \in 0 .. COUNTER_MOD - 1
      BY <1>1
    <3> QED
      BY <1>1, <3>1, ModUnique
  <2>3. Headed(<< >>) = {} /\ DataAt(<< >>) = {}
    BY DEF Headed, DataAt
  <2>4. SentOK(<< >>)
    BY DEF SentOK
  <2>5. EncapOK(<< >>, 0, 123, << >>)
    BY <2>3 DEF EncapOK, NoneBefore
  <2>6. ParseOK(<< >>, 0, -1, << >>)
    BY <2>3 DEF ParseOK, NoneBefore
  <2> QED
    BY <2>1, <2>2, <2>4, <2>5, <2>6 DEF StationOK
<1> QED
  BY <1>2, <1>3, <1>4, <1>5, <1>6 DEF MacLayerInv, TypeOK

(* The parts of TypeOK are kept by steps that leave their variables alone.  *)
LEMMA TypesKept ==
    ASSUME TypeOK
    PROVE  /\ UNCHANGED airVars => AirTypeOK'
           /\ UNCHANGED encapVars => EncapTypeOK'
           /\ UNCHANGED <<aired, macVars>> => MacTypeOK'
           /\ UNCHANGED parseVars => ParseTypeOK'
<1>1. AirTypeOK /\ EncapTypeOK /\ MacTypeOK /\ ParseTypeOK
  BY DEF TypeOK
<1>2. UNCHANGED airVars => AirTypeOK'
  BY <1>1 DEF AirTypeOK, airVars
<1>3. UNCHANGED encapVars => EncapTypeOK'
  BY <1>1 DEF EncapTypeOK, encapVars
<1>4. UNCHANGED <<aired, macVars>> => MacTypeOK'
  BY <1>1 DEF MacTypeOK, macVars
<1>5. UNCHANGED parseVars => ParseTypeOK'
  <2>1. SUFFICES ASSUME parseRead' = parseRead, lastSeqNo' = lastSeqNo,
                        reports' = reports
                 PROVE  ParseTypeOK'
    BY DEF parseVars
  <2> QED
    BY <1>1, <2>1 DEF ParseTypeOK
<1> QED
  BY <1>2, <1>3, <1>4, <1>5

LEMMA TapKeeps ==
    ASSUME MacLayerInv, NEW s \in Stations, TapStep(s)
    PROVE  MacLayerInv'
<1>1. PICK len \in TapLengths : FromTap(s, len)
  BY DEF TapStep
<1>2. /\ tapIn' = [tapIn EXCEPT ![s] = Append(@, len)] /\ len \in Nat /\ len >= ETHERNET
      /\ UNCHANGED <<airVars, encapRead, lastSeq, tapOut, macVars, parseVars>>
  BY <1>1, TapAssumption DEF TapStep, FromTap
<1>3. TypeOK'
  <2>1. AirTypeOK' /\ MacTypeOK' /\ ParseTypeOK'
    BY <1>2, TypesKept DEF MacLayerInv, airVars
  <2>2. EncapTypeOK'
    <3>1. tapIn \in [Stations -> Seq(Nat)]
      BY DEF MacLayerInv, TypeOK, EncapTypeOK
    <3>2. tapIn' \in [Stations -> Seq(Nat)]
      BY <1>2, <3>1
    <3>3. encapRead' = encapRead /\ lastSeq' = lastSeq /\ tapOut' = tapOut
      BY <1>2
    <3> QED
      BY <3>2, <3>3 DEF MacLayerInv, TypeOK, EncapTypeOK
  <2> QED
    BY <2>1, <2>2 DEF TypeOK
<1>4. ASSUME NEW t \in Stations PROVE StationOK(t)'
  <2>1. StationOK(t) /\ tapIn \in [Stations -> Seq(Nat)]
    BY DEF MacLayerInv, TypeOK, EncapTypeOK
  <2>2. \A k \in DOMAIN tapIn[t] : tapIn[t][k] >= ETHERNET
    BY <2>1 DEF StationOK
  <2>3. \A k \in DOMAIN tapIn'[t] : tapIn'[t][k] >= ETHERNET
    BY <1>2, <2>1, <2>2
  <2> QED
    BY <1>2, <2>1, <2>3 DEF StationOK, airVars, macVars, parseVars
<1> QED
  BY <1>3, <1>4 DEF MacLayerInv

(* A frame that is published is one of a station, as it was sent, or is not *)
(* of a station at all.                                                     *)
LEMMA PublishKeeps ==
    ASSUME MacLayerInv, NEW s \in Stations, NEW f \in Frame, Publish(s, f), f.len >= 4,
           f.from \in Stations => Own(f, HEADER + LLC + 4),
           UNCHANGED <<encapVars, macVars, parseVars>>
    PROVE  MacLayerInv'
<1> DEFINE g == [f EXCEPT !.len = f.len - 4]
<1>1. g \in Frame
  <2>1. f.len - 4 \in Nat
    BY FrameFields
  <2> QED
    BY <2>1, FrameLength
<1>2. heard' = [heard EXCEPT ![s] = Append(@, g)] /\ UNCHANGED aired
  BY DEF Publish
<1>3. g.from \in Stations => Own(g, HEADER + LLC)
  <2>1. /\ g.from = f.from /\ g.n = f.n /\ g.kind = f.kind /\ g.field = f.field
        /\ g.len = f.len - 4 /\ f.len \in Nat
    BY FrameFields DEF Frame
  <2> HIDE DEF g
  <2> QED
    BY <2>1 DEF Own, HEADER, LLC
<1> HIDE DEF g
<1>4. TypeOK'
  <2>1. EncapTypeOK' /\ MacTypeOK' /\ ParseTypeOK'
    BY <1>2, TypesKept DEF MacLayerInv
  <2>2. AirTypeOK'
    BY <1>1, <1>2 DEF MacLayerInv, TypeOK, AirTypeOK
  <2> QED
    BY <2>1, <2>2 DEF TypeOK
<1>5. ASSUME NEW t \in Stations PROVE StationOK(t)'
  <2>1. StationOK(t) /\ heard \in [Stations -> Seq(Frame)]
    BY DEF MacLayerInv, TypeOK, AirTypeOK
  <2>2. CASE t # s
    <3>1. heard'[t] = heard[t]
      BY <1>2, <2>1, <2>2
    <3> QED
      BY <1>2, <2>1, <3>1 DEF StationOK, encapVars, macVars, parseVars
  <2>3. CASE t = s
    <3>1. heard'[t] = Append(heard[t], g) /\ heard[t] \in Seq(Frame)
      BY <1>2, <2>1, <2>3
    <3>2. SentOK(heard'[t])
      <4>1. SentOK(heard[t])
        BY <2>1 DEF StationOK
      <4>2. /\ \A k \in DOMAIN heard[t] : heard'[t][k] = heard[t][k]
            /\ heard'[t][Len(heard[t]) + 1] = g
            /\ \A k \in DOMAIN heard'[t] : k \in DOMAIN heard[t] \/ k = Len(heard[t]) + 1
        BY <3>1
      <4> QED
        BY <1>3, <4>1, <4>2 DEF SentOK
    <3>3. EncapOK(heard'[t], encapRead[t], lastSeq[t], tapOut[t])
      BY <1>1, <2>1, <3>1, EncapHears DEF StationOK
    <3>4. ParseOK(heard'[t], parseRead[t], lastSeqNo[t], reports[t])
      BY <1>1, <2>1, <3>1, ParseHears DEF StationOK
    <3> QED
      BY <1>2, <2>1, <3>2, <3>3, <3>4 DEF StationOK, encapVars, macVars, parseVars
  <2> QED
    BY <2>2, <2>3
<1> QED
  BY <1>4, <1>5 DEF MacLayerInv

LEMMA AirKeeps ==
    ASSUME MacLayerInv, NEW s \in Stations, AirStep(s)
    PROVE  MacLayerInv'
<1>1. UNCHANGED <<encapVars, macVars, parseVars>>
  BY DEF AirStep
<1>2. ASSUME NEW p \in Stations, HearStation(s, p) PROVE MacLayerInv'
  <2>1. PICK n \in DOMAIN aired[p] : Publish(s, aired[p][n])
    BY <1>2 DEF HearStation
  <2>2. StationOK(p) /\ aired[p] \in Seq(Frame)
    BY DEF MacLayerInv, TypeOK, AirTypeOK
  <2>3. aired[p][n] \in Frame /\ Own(aired[p][n], HEADER + LLC + 4)
    BY <2>1, <2>2 DEF StationOK
  <2>4. aired[p][n].len >= 4
    <3>1. aired[p][n].len \in Nat
      BY <2>3, FrameFields
    <3> QED
      BY <2>3, <3>1 DEF Own, HEADER, LLC
  <2> QED
    BY <1>1, <2>1, <2>3, <2>4, PublishKeeps
<1>3. ASSUME NEW f \in Foreign, HearForeign(s, f) PROVE MacLayerInv'
  <2>1. f \in Frame /\ f.len >= 4 /\ f.from \notin Stations
    BY AirAssumption
  <2>2. Publish(s, f)
    BY <1>3 DEF HearForeign
  <2> QED
    BY <1>1, <2>1, <2>2, PublishKeeps
<1> QED
  BY <1>2, <1>3 DEF AirStep

LEMMA FromWifiKeeps ==
    ASSUME MacLayerInv, NEW s \in Stations, EncapStep(s)
    PROVE  MacLayerInv'
<1> DEFINE h == heard[s]
           e == encapRead[s]
           S == [at : Nat, from : Stations \cup {OTHERS}, n : Nat, len : Nat]
<1>1. /\ StationOK(s)
      /\ h \in Seq(Frame) /\ e \in Nat /\ tapOut[s] \in Seq(S)
      /\ encapRead \in [Stations -> Nat] /\ lastSeq \in [Stations -> Field]
      /\ tapOut \in [Stations -> Seq(S)] /\ tapIn \in [Stations -> Seq(Nat)]
  BY DEF MacLayerInv, TypeOK, AirTypeOK, EncapTypeOK
<1>2. e < Len(h) /\ encapRead' = [encapRead EXCEPT ![s] = e + 1] /\ UNCHANGED tapIn
  BY DEF EncapStep, FromWifi, SkipShort, SkipSeen, SkipOther, Unwrap, IsNew, ToUnwrap,
         PduHandled
<1>3. UNCHANGED <<airVars, macVars, parseVars>>
  BY DEF EncapStep
<1>4. h[e + 1] \in Frame /\ NextPdu(s) = h[e + 1]
  BY <1>1, <1>2 DEF NextPdu
<1>5. EncapOK(h, e, lastSeq[s], tapOut[s])
  BY <1>1 DEF StationOK
<1>6. e + 1 \in Headed(h) <=> h[e + 1].len >= HEADER
  BY <1>1, <1>2 DEF Headed
(* It suffices to look at what d_last_seq and the frames handed out become. *)
<1>7. ASSUME NEW l \in Field, NEW o \in Seq(S), EncapOK(h, e + 1, l, o),
             lastSeq' = [lastSeq EXCEPT ![s] = l], tapOut' = [tapOut EXCEPT ![s] = o]
      PROVE  MacLayerInv'
  <2> HIDE DEF S
  <2>1. TypeOK'
    <3>1. AirTypeOK' /\ MacTypeOK' /\ ParseTypeOK'
      BY <1>3, TypesKept DEF MacLayerInv, airVars
    <3>2. encapRead' \in [Stations -> Nat]
      BY <1>1, <1>2
    <3>3. lastSeq' \in [Stations -> Field]
      BY <1>1, <1>7
    <3>4. tapOut' \in [Stations -> Seq(S)]
      BY <1>1, <1>7
    <3>5. EncapTypeOK'
      BY <1>1, <1>2, <3>2, <3>3, <3>4 DEF EncapTypeOK, S
    <3> QED
      BY <3>1, <3>5 DEF TypeOK
  <2>2. ASSUME NEW t \in Stations PROVE StationOK(t)'
    <3>1. StationOK(t)
      BY DEF MacLayerInv
    <3>2. EncapOK(heard[t], encapRead'[t], lastSeq'[t], tapOut'[t])
      <4>1. CASE t = s
        BY <1>1, <1>2, <1>7, <4>1
      <4>2. CASE t # s
        BY <1>1, <1>2, <1>7, <3>1, <4>2 DEF StationOK
      <4> QED
        BY <4>1, <4>2
    <3> QED
      BY <1>2, <1>3, <3>1, <3>2 DEF StationOK, airVars, macVars, parseVars
  <2> QED
    BY <2>1, <2>2 DEF MacLayerInv
<1>8. h[e + 1].field \in Field /\ h[e + 1].from \in Stations \cup {OTHERS}
      /\ h[e + 1].n \in Nat /\ h[e + 1].len \in Nat
  BY <1>4, FrameFields
<1> HIDE DEF h, e, S
<1>9. /\ lastSeq = [lastSeq EXCEPT ![s] = lastSeq[s]] /\ lastSeq[s] \in Field
      /\ tapOut = [tapOut EXCEPT ![s] = tapOut[s]]
  BY <1>1
<1>10. CASE SkipShort(s)
  <2>1. e + 1 \notin Headed(h) /\ UNCHANGED <<lastSeq, tapOut>>
    <3>1. h[e + 1].len < HEADER /\ UNCHANGED <<lastSeq, tapOut>>
      BY <1>4, <1>10 DEF SkipShort
    <3> QED
      BY <1>6, <1>8, <3>1 DEF HEADER
  <2>2. EncapOK(h, e + 1, lastSeq[s], tapOut[s])
    BY <1>1, <1>2, <1>5, <2>1, EncapSkipsShort
  <2> QED
    BY <1>1, <1>7, <1>9, <2>1, <2>2
<1>11. CASE SkipSeen(s)
  <2>1. e + 1 \in Headed(h) /\ h[e + 1].field = lastSeq[s] /\ UNCHANGED <<lastSeq, tapOut>>
    BY <1>4, <1>6, <1>11 DEF SkipSeen
  <2>2. EncapOK(h, e + 1, h[e + 1].field, tapOut[s])
    BY <1>1, <1>2, <1>5, <2>1, EncapTakesHeaded
  <2> QED
    BY <1>1, <1>7, <1>9, <2>1, <2>2
<1>12. CASE SkipOther(s)
  <2>1. /\ e + 1 \in Headed(h) /\ ~Carries(h[e + 1])
        /\ lastSeq' = [lastSeq EXCEPT ![s] = h[e + 1].field] /\ UNCHANGED tapOut
    BY <1>4, <1>6, <1>12 DEF SkipOther, IsNew
  <2>2. EncapOK(h, e + 1, h[e + 1].field, tapOut[s])
    BY <1>1, <1>2, <1>5, <2>1, EncapTakesHeaded
  <2> QED
    BY <1>1, <1>7, <1>8, <1>9, <2>1, <2>2
<1>13. CASE Unwrap(s)
  <2> DEFINE p == Unwrapped(s)
  <2>1. /\ e + 1 \in Headed(h) /\ Carries(h[e + 1]) /\ h[e + 1].field # lastSeq[s]
        /\ lastSeq' = [lastSeq EXCEPT ![s] = h[e + 1].field]
        /\ tapOut' = [tapOut EXCEPT ![s] = Append(tapOut[s], p)]
    BY <1>1, <1>4, <1>6, <1>13 DEF Unwrap, IsNew
  <2>2. p.at = e + 1 /\ p.from = h[e + 1].from /\ p.n = h[e + 1].n
    BY <1>4 DEF Unwrapped, e
  <2>3. p \in S
    <3>1. ETHERNET + (h[e + 1].len - PayloadOffset(h[e + 1])) \in Nat
      BY <1>8, <2>1 DEF Carries, PayloadOffset, ETHERNET, HEADER, LLC
    <3>2. e + 1 \in Nat
      BY <1>1
    <3> QED
      BY <1>4, <1>8, <3>1, <3>2 DEF Unwrapped, S, e
  <2> HIDE DEF p
  <2>4. Append(tapOut[s], p) \in Seq(S)
    BY <1>1, <2>3
  <2>5. EncapOK(h, e + 1, h[e + 1].field, Append(tapOut[s], p))
    BY <1>1, <1>2, <1>5, <2>1, <2>2, <2>4, EncapTakesHeaded
  <2> QED
    BY <1>7, <1>8, <2>1, <2>4, <2>5
<1> QED
  BY <1>10, <1>11, <1>12, <1>13 DEF EncapStep, FromWifi

LEMMA ParseKeeps ==
    ASSUME MacLayerInv, NEW s \in Stations, ParseStep(s)
    PROVE  MacLayerInv'
<1> DEFINE h == heard[s]
           e == parseRead[s]
           S == [at : Nat, lost : Int]
<1>1. /\ StationOK(s)
      /\ h \in Seq(Frame) /\ e \in Nat /\ reports[s] \in Seq(S)
      /\ parseRead \in [Stations -> Nat] /\ lastSeqNo \in [Stations -> LastNumber]
      /\ reports \in [Stations -> Seq(S)]
  <2>1. heard \in [Stations -> Seq(Frame)] /\ StationOK(s)
    BY DEF MacLayerInv, TypeOK, AirTypeOK
  <2>2. /\ parseRead \in [Stations -> Nat] /\ lastSeqNo \in [Stations -> LastNumber]
        /\ reports \in [Stations -> Seq(S)]
    BY DEF MacLayerInv, TypeOK, ParseTypeOK
  <2> HIDE DEF S
  <2> QED
    BY <2>1, <2>2
<1>2. e < Len(h) /\ parseRead' = [parseRead EXCEPT ![s] = e + 1]
  BY DEF ParseStep, Parse, ParseData, ParseOther, ToParse
<1>3. UNCHANGED <<airVars, encapVars, macVars>>
  BY DEF ParseStep
<1>4. h[e + 1] \in Frame /\ NextParsed(s) = h[e + 1]
  BY <1>1, <1>2 DEF NextParsed
<1>5. ParseOK(h, e, lastSeqNo[s], reports[s])
  BY <1>1 DEF StationOK
<1>6. e + 1 \in DataAt(h) <=> IsData(h[e + 1])
  BY <1>1, <1>2 DEF DataAt
(* It suffices to look at what d_last_seq_no and the reports become. *)
<1>7. ASSUME NEW l \in LastNumber, NEW o \in Seq(S), ParseOK(h, e + 1, l, o),
             lastSeqNo' = [lastSeqNo EXCEPT ![s] = l],
             reports' = [reports EXCEPT ![s] = o]
      PROVE  MacLayerInv'
  <2> HIDE DEF S
  <2>1. TypeOK'
    <3>1. AirTypeOK' /\ EncapTypeOK' /\ MacTypeOK'
      BY <1>3, TypesKept DEF MacLayerInv, airVars
    <3>2. parseRead' \in [Stations -> Nat]
      BY <1>1, <1>2
    <3>3. lastSeqNo' \in [Stations -> LastNumber]
      BY <1>1, <1>7
    <3>4. reports' \in [Stations -> Seq(S)]
      BY <1>1, <1>7
    <3>5. ParseTypeOK'
      BY <3>2, <3>3, <3>4 DEF ParseTypeOK, S
    <3> QED
      BY <3>1, <3>5 DEF TypeOK
  <2>2. ASSUME NEW t \in Stations PROVE StationOK(t)'
    <3>1. StationOK(t)
      BY DEF MacLayerInv
    <3>2. ParseOK(heard[t], parseRead'[t], lastSeqNo'[t], reports'[t])
      <4>1. CASE t = s
        BY <1>1, <1>2, <1>7, <4>1
      <4>2. CASE t # s
        BY <1>1, <1>2, <1>7, <3>1, <4>2 DEF StationOK
      <4> QED
        BY <4>1, <4>2
    <3> QED
      BY <1>3, <3>1, <3>2 DEF StationOK, airVars, encapVars, macVars
  <2> QED
    BY <2>1, <2>2 DEF MacLayerInv
<1>8. h[e + 1].field \in Field
  BY <1>4, FrameFields
<1> HIDE DEF h, e, S
<1>9. SeqNo(h[e + 1]) \in LastNumber /\ SeqNo(h[e + 1]) \in Int
  BY <1>8, Numbers DEF SeqNo
<1>10. CASE ParseOther(s)
  <2>1. e + 1 \notin DataAt(h) /\ UNCHANGED <<lastSeqNo, reports>>
    BY <1>4, <1>6, <1>10 DEF ParseOther
  <2>2. ParseOK(h, e + 1, lastSeqNo[s], reports[s])
    BY <1>1, <1>2, <1>5, <2>1, ParseSkips
  <2>3. /\ lastSeqNo = [lastSeqNo EXCEPT ![s] = lastSeqNo[s]] /\ lastSeqNo[s] \in LastNumber
        /\ reports = [reports EXCEPT ![s] = reports[s]]
    BY <1>1
  <2> QED
    BY <1>1, <1>7, <2>1, <2>2, <2>3
<1>11. CASE ParseData(s)
  <2> DEFINE r == [at |-> parseRead'[s], lost |-> LostFrames(lastSeqNo[s], h[e + 1])]
  <2>1. /\ e + 1 \in DataAt(h)
        /\ lastSeqNo' = [lastSeqNo EXCEPT ![s] = SeqNo(h[e + 1])]
        /\ reports' = [reports EXCEPT ![s] = Append(reports[s], r)]
    BY <1>1, <1>4, <1>6, <1>11 DEF ParseData
  <2>2. r.at = e + 1 /\ r.lost = LostFrames(lastSeqNo[s], h[e + 1])
    BY <1>1, <1>2
  <2>3. r \in S
    <3>1. e + 1 \in Nat /\ parseRead'[s] = e + 1
      BY <1>1, <1>2
    <3>2. LostFrames(lastSeqNo[s], h[e + 1]) \in Int
      <4>1. lastSeqNo[s] \in Int /\ SEQ_MOD \in Int
        BY <1>1, Numbers, MacAssumption
      <4> QED
        BY <1>9, <4>1 DEF LostFrames
    <3> QED
      BY <3>1, <3>2 DEF S
  <2> HIDE DEF r
  <2>4. Append(reports[s], r) \in Seq(S)
    BY <1>1, <2>3
  <2>5. ParseOK(h, e + 1, SeqNo(h[e + 1]), Append(reports[s], r))
    BY <1>1, <1>2, <1>5, <2>1, <2>2, <2>4, ParseTakesData
  <2> QED
    BY <1>7, <1>9, <2>1, <2>4, <2>5
<1> QED
  BY <1>10, <1>11 DEF ParseStep, Parse

(* A station's next frame is numbered from its position, and is as long as  *)
(* its MSDU and the headers.                                                *)
LEMMA DataFrameIsOwn ==
    ASSUME MacLayerInv, NEW s \in Stations, ToSend(s)
    PROVE  /\ DataFrame(s) \in Frame
           /\ Own(DataFrame(s), HEADER + LLC + 4)
           /\ DataFrame(s).len = NextMsdu(s) + HEADER + 4
           /\ NextMsdu(s) \in Nat
<1> DEFINE n == Len(aired[s])
<1>1. /\ StationOK(s) /\ aired[s] \in Seq(Frame) /\ tapIn[s] \in Seq(Nat)
  BY DEF MacLayerInv, TypeOK, AirTypeOK, EncapTypeOK
<1>2. n \in Nat /\ n < Len(tapIn[s]) /\ n + 1 \in DOMAIN tapIn[s]
  BY <1>1 DEF ToSend
<1>3. tapIn[s][n + 1] \in Nat /\ tapIn[s][n + 1] >= ETHERNET
  BY <1>1, <1>2 DEF StationOK
<1>4. NextMsdu(s) \in Nat /\ NextMsdu(s) >= LLC
  BY <1>3, SMTT(60) DEF NextMsdu, MsduLen, LLC, ETHERNET
<1>5. seqNr[s] % SEQ_MOD = n % SEQ_MOD
  <2>1. seqNr[s] = n % COUNTER_MOD
    BY <1>1 DEF StationOK
  <2>2. (n % COUNTER_MOD) % SEQ_MOD = n % SEQ_MOD
    BY <1>2, CounterWraps
  <2> QED
    BY <2>1, <2>2, Zenon
<1>6. n % SEQ_MOD \in 0 .. SEQ_MOD - 1
  <2> HIDE DEF n
  <2>1. SEQ_MOD \in Nat \ {0} /\ n \in Int
    BY <1>2, MacAssumption
  <2> QED
    BY <2>1, DivMod, Zenon
<1> HIDE DEF n
<1>7. 16 * (n % SEQ_MOD) \in Field
  BY <1>6, Numbers
<1>8. /\ DataFrame(s) = [from |-> s, n |-> n + 1, kind |-> "Data",
                         len |-> HEADER + NextMsdu(s) + 4,
                         field |-> 16 * (n % SEQ_MOD)]
      /\ n + 1 - 1 = n
  BY <1>2, <1>5 DEF DataFrame, n
<1>9. HEADER + NextMsdu(s) + 4 \in Nat /\ n + 1 \in Nat /\ "Data" \in Kinds
  BY <1>2, <1>4 DEF HEADER, Kinds
<1>10. DataFrame(s) \in Frame
  BY <1>7, <1>8, <1>9 DEF Frame
<1>11. Own(DataFrame(s), HEADER + LLC + 4)
  <2>1. n + 1 > 0 /\ HEADER + NextMsdu(s) + 4 >= HEADER + LLC + 4
    BY <1>2, <1>4 DEF HEADER, LLC
  <2>2. /\ DataFrame(s).n = n + 1 /\ DataFrame(s).kind = "Data"
        /\ DataFrame(s).len = HEADER + NextMsdu(s) + 4
        /\ DataFrame(s).field = 16 * (n % SEQ_MOD)
    BY <1>8
  <2>3. DataFrame(s).n - 1 = n /\ DataFrame(s).n > 0
    <3> HIDE <1>5, <1>6, <1>7, <1>8
    <3>1. DataFrame(s).n = n + 1
      BY <2>2
    <3> QED
      BY <1>2, <3>1
  <2>4. DataFrame(s).len >= HEADER + LLC + 4
    BY <2>1, <2>2
  <2>5. DataFrame(s).field = 16 * ((DataFrame(s).n - 1) % SEQ_MOD)
    BY <2>2, <2>3, Zenon
  <2> QED
    BY <2>2, <2>3, <2>4, <2>5, Zenon DEF Own
<1>12. DataFrame(s).len = NextMsdu(s) + HEADER + 4
  BY <1>4, <1>8 DEF HEADER
<1> QED
  BY <1>4, <1>10, <1>11, <1>12

LEMMA MacKeeps ==
    ASSUME MacLayerInv, NEW s \in Stations, MacStep(s)
    PROVE  MacLayerInv'
<1>1. UNCHANGED <<encapVars, parseVars>>
  BY DEF MacStep
<1>2. /\ TypeOK /\ \A t \in Stations : StationOK(t)
      /\ aired \in [Stations -> Seq(Frame)] /\ heard \in [Stations -> Seq(Frame)]
      /\ running \in [Stations -> BOOLEAN] /\ phyRead \in [Stations -> Nat]
      /\ seqNr \in [Stations -> 0 .. COUNTER_MOD - 1]
      /\ \A t \in Stations : \A k \in DOMAIN aired[t] :
            aired[t][k].len <= MAX_PAYLOAD_SIZE + HEADER + 4
  BY DEF MacLayerInv, TypeOK, AirTypeOK, MacTypeOK
(* The variables of the other blocks, and in all but one case those of the  *)
(* air and the counter, stay as they are.                                   *)
<1>3. ASSUME UNCHANGED <<airVars, seqNr>>,
             running' \in [Stations -> BOOLEAN], phyRead' \in [Stations -> Nat]
      PROVE  MacLayerInv'
  <2>1. AirTypeOK' /\ EncapTypeOK' /\ ParseTypeOK'
    BY <1>1, <1>2, <1>3, TypesKept
  <2>2. MacTypeOK'
    BY <1>2, <1>3 DEF MacTypeOK, airVars
  <2>3. ASSUME NEW t \in Stations PROVE StationOK(t)'
    <3>1. StationOK(t)
      BY <1>2
    <3> QED
      BY <1>1, <1>3, <3>1 DEF StationOK, airVars, encapVars, parseVars
  <2> QED
    BY <2>1, <2>2, <2>3 DEF MacLayerInv, TypeOK
<1>4. CASE AppIn(s)
  <2> DEFINE f == DataFrame(s)
             n == Len(aired[s])
             C == 0 .. COUNTER_MOD - 1
  <2>1. /\ ToSend(s) /\ NextMsdu(s) <= MAX_PAYLOAD_SIZE
        /\ aired' = [aired EXCEPT ![s] = Append(aired[s], f)]
        /\ seqNr' = [seqNr EXCEPT ![s] = (seqNr[s] + 1) % COUNTER_MOD]
        /\ UNCHANGED <<heard, running, phyRead>>
    BY <1>4 DEF AppIn
  <2>2. f \in Frame /\ Own(f, HEADER + LLC + 4) /\ f.len = NextMsdu(s) + HEADER + 4
    BY <2>1, DataFrameIsOwn
  <2>3. f.len <= MAX_PAYLOAD_SIZE + HEADER + 4
    <3>1. NextMsdu(s) \in Nat /\ MAX_PAYLOAD_SIZE \in Nat
      BY <2>1, DataFrameIsOwn, MacAssumption
    <3> HIDE DEF f
    <3> QED
      BY <2>1, <2>2, <3>1 DEF HEADER
  <2> HIDE DEF f
  <2>4. aired[s] \in Seq(Frame) /\ n \in Nat
    BY <1>2
  <2>5. /\ Append(aired[s], f) \in Seq(Frame) /\ Len(Append(aired[s], f)) = n + 1
        /\ \A k \in DOMAIN Append(aired[s], f) :
              \/ k \in DOMAIN aired[s] /\ Append(aired[s], f)[k] = aired[s][k]
              \/ Append(aired[s], f)[k] = f
    BY <2>2, <2>4
  <2>6. aired'[s] = Append(aired[s], f) /\ \A t \in Stations : t # s => aired'[t] = aired[t]
    BY <1>2, <2>1
  <2> HIDE DEF n
  <2>7. /\ (seqNr[s] + 1) % COUNTER_MOD = (n + 1) % COUNTER_MOD
        /\ (n + 1) % COUNTER_MOD \in C
    <3>1. seqNr[s] = n % COUNTER_MOD
      BY <1>2 DEF StationOK, n
    <3>2. n + 1 \in Nat
      BY <2>4
    <3> HIDE DEF C
    <3>3. ((n % COUNTER_MOD) + 1) % COUNTER_MOD = (n + 1) % COUNTER_MOD
      BY <2>4, CounterWraps, Zenon
    <3>4. (n + 1) % COUNTER_MOD \in C
      BY <3>2, CounterWraps, Zenon DEF C
    <3> QED
      BY <3>1, <3>3, <3>4, Zenon
  <2> HIDE DEF C
  <2>8. PICK c \in C : c = (n + 1) % COUNTER_MOD /\ seqNr' = [seqNr EXCEPT ![s] = c]
    BY <2>1, <2>7, Zenon
  <2>9. seqNr \in [Stations -> C]
    BY <1>2 DEF C
  <2>10. /\ seqNr' \in [Stations -> C] /\ seqNr'[s] = c
         /\ \A t \in Stations : t # s => seqNr'[t] = seqNr[t]
    <3> HIDE <2>7
    <3>1. seqNr' = [seqNr EXCEPT ![s] = c]
      BY <2>8
    <3> QED
      BY <2>9, <3>1
  <2>11. TypeOK'
    <3>1. AirTypeOK'
      <4>1. aired' \in [Stations -> Seq(Frame)]
        BY <1>2, <2>1, <2>5
      <4> QED
        BY <1>2, <2>1, <4>1 DEF AirTypeOK
    <3>2. EncapTypeOK' /\ ParseTypeOK'
      BY <1>1, <1>2, TypesKept
    <3>3. MacTypeOK'
      <4>1. ASSUME NEW t \in Stations, NEW k \in DOMAIN aired'[t]
            PROVE  aired'[t][k].len <= MAX_PAYLOAD_SIZE + HEADER + 4
        BY <1>2, <2>3, <2>5, <2>6, <4>1
      <4>2. running' = running /\ phyRead' = phyRead
        BY <2>1
      <4> QED
        BY <1>2, <2>10, <4>1, <4>2 DEF MacTypeOK, C
    <3> QED
      BY <3>1, <3>2, <3>3 DEF TypeOK
  <2>12. ASSUME NEW t \in Stations PROVE StationOK(t)'
    <3>1. StationOK(t)
      BY <1>2
    <3>2. seqNr'[t] = Len(aired'[t]) % COUNTER_MOD
      <4>1. CASE t = s
        BY <2>5, <2>6, <2>8, <2>10, <4>1, Zenon
      <4>2. CASE t # s
        BY <2>6, <2>10, <3>1, <4>2, Zenon DEF StationOK
      <4> QED
        BY <4>1, <4>2
    <3>3. ASSUME NEW k \in DOMAIN aired'[t]
          PROVE  Own(aired'[t][k], HEADER + LLC + 4)
      <4>1. CASE t = s
        BY <2>2, <2>5, <2>6, <3>1, <3>3, <4>1, Zenon DEF StationOK
      <4>2. CASE t # s
        BY <2>6, <3>1, <3>3, <4>2, Zenon DEF StationOK
      <4> QED
        BY <4>1, <4>2
    <3> QED
      BY <1>1, <2>1, <3>1, <3>2, <3>3, Zenon DEF StationOK, encapVars, parseVars
  <2> QED
    BY <2>11, <2>12 DEF MacLayerInv
<1>5. CASE AppInThrow(s)
  <2>1. /\ running' = [running EXCEPT ![s] = FALSE]
        /\ UNCHANGED <<airVars, seqNr, phyRead>>
    BY <1>5 DEF AppInThrow
  <2> QED
    BY <1>2, <1>3, <2>1
<1>6. CASE PhyIn(s)
  <2>1. /\ phyRead' = [phyRead EXCEPT ![s] = @ + 1]
        /\ running' = [running EXCEPT ![s] = heard[s][phyRead'[s]].len >= HEADER]
        /\ UNCHANGED <<airVars, seqNr>>
    BY <1>6 DEF PhyIn
  <2>2. phyRead' \in [Stations -> Nat]
    BY <1>2, <2>1
  <2>3. running' \in [Stations -> BOOLEAN]
    BY <1>2, <2>1
  <2> QED
    BY <1>3, <2>1, <2>2, <2>3
<1> QED
  BY <1>4, <1>5, <1>6 DEF MacStep

(* MacLayerInv is inductive. *)
THEOREM MacLayerInductive == Spec => []MacLayerInv
<1>1. MacLayerInv /\ [Next]_vars => MacLayerInv'
  <2> SUFFICES ASSUME MacLayerInv, [Next]_vars PROVE MacLayerInv'
    OBVIOUS
  <2>1. CASE Next
    <3>1. PICK s \in Stations :
             TapStep(s) \/ AirStep(s) \/ EncapStep(s) \/ MacStep(s) \/ ParseStep(s)
      BY <2>1 DEF Next
    <3> QED
      BY <3>1, TapKeeps, AirKeeps, FromWifiKeeps, MacKeeps, ParseKeeps
  <2>2. CASE UNCHANGED vars
    <3>1. AirTypeOK' /\ EncapTypeOK' /\ MacTypeOK' /\ ParseTypeOK'
      BY <2>2, TypesKept DEF MacLayerInv, vars, airVars
    <3>2. ASSUME NEW t \in Stations PROVE StationOK(t)'
      <4>1. StationOK(t)
        BY DEF MacLayerInv
      <4> QED
        BY <2>2, <4>1 DEF StationOK, vars, airVars, encapVars, macVars, parseVars
    <3> QED
      BY <3>1, <3>2 DEF MacLayerInv, TypeOK
  <2> QED
    BY <2>1, <2>2
<1> QED
  BY InitInv, <1>1, PTL DEF Spec

-----------------------------------------------------------------------------
(* Every variable of the MAC layer keeps its type: the sequence control     *)
(* field of every frame fits its 16 bits, and no frame sent is longer than  *)
(* MAX_PAYLOAD_SIZE and its headers.                                        *)
THEOREM MacLayerTypes == Spec => []TypeOK
<1>1. MacLayerInv => TypeOK
  BY DEF MacLayerInv
<1> QED
  BY <1>1, MacLayerInductive, PTL

(* from_wifi never hands a decoded frame of a station to the tap again      *)
(* unless a frame with another number was decoded in between.               *)
THEOREM RepeatsAreSuppressed == Spec => []RepeatsSuppressed
<1>1. MacLayerInv => RepeatsSuppressed
  <2> SUFFICES ASSUME MacLayerInv, NEW s \in Stations,
                      NEW i \in DOMAIN tapOut[s], NEW j \in DOMAIN tapOut[s],
                      i < j, tapOut[s][i].from \in Stations,
                      tapOut[s][i].from = tapOut[s][j].from,
                      tapOut[s][i].n = tapOut[s][j].n
               PROVE  \E k \in Headed(heard[s]) :
                         /\ tapOut[s][i].at < k /\ k < tapOut[s][j].at
                         /\ heard[s][k].field # heard[s][tapOut[s][j].at].field
    BY DEF RepeatsSuppressed
  <2> DEFINE h == heard[s]
             a == tapOut[s][i].at
             b == tapOut[s][j].at
  <2>1. SentOK(h) /\ EncapOK(h, encapRead[s], lastSeq[s], tapOut[s])
    BY DEF MacLayerInv, StationOK
  <2>2. /\ a \in Headed(h) /\ b \in Headed(h) /\ a < b /\ Fresh(h, b)
        /\ h[a].from = tapOut[s][i].from /\ h[a].n = tapOut[s][i].n
        /\ h[b].from = tapOut[s][j].from /\ h[b].n = tapOut[s][j].n
    BY <2>1 DEF EncapOK
  <2>3. Headed(h) \subseteq DOMAIN h
    BY DEF Headed
  <2>4. \A k \in Headed(h) : k \in Nat
    <3>1. heard[s] \in Seq(Frame)
      BY DEF MacLayerInv, TypeOK, AirTypeOK
    <3> QED
      BY <2>3, <3>1
  <2> HIDE DEF h, a, b
  <2>5. h[a].field = h[b].field
    BY <2>1, <2>2, <2>3, Zenon DEF SentOK, Own
  <2>6. ~NoneBefore(b, Headed(h))
    BY <2>2, <2>4 DEF NoneBefore
  <2>7. PICK k \in Headed(h) : LastBefore(k, b, Headed(h)) /\ h[k].field # h[b].field
    BY <2>2, <2>6 DEF Fresh
  <2>8. a < k /\ k < b
    <3>1. a <= k /\ k < b
      BY <2>2, <2>7 DEF LastBefore
    <3>2. a # k
      BY <2>5, <2>7
    <3>3. a \in Nat /\ k \in Nat
      BY <2>2, <2>4, <2>7
    <3> QED
      BY <3>1, <3>2, <3>3
  <2> QED
    BY <2>7, <2>8 DEF h, a, b
<1> QED
  BY <1>1, MacLayerInductive, PTL

(* from_wifi hands every new frame of a station to the tap: the first one   *)
(* decoded, and one that follows any loss of fewer frames than there are    *)
(* sequence numbers.                                                        *)
THEOREM NewFramesAreDelivered == Spec => []NewFramesDelivered
<1>1. MacLayerInv => NewFramesDelivered
  <2> SUFFICES ASSUME MacLayerInv, NEW s \in Stations, NEW k \in 1 .. encapRead[s],
                      heard[s][k].from \in Stations,
                      \/ NoneBefore(k, Headed(heard[s]))
                      \/ \E j \in Headed(heard[s]) :
                            /\ LastBefore(j, k, Headed(heard[s]))
                            /\ NewAfter(heard[s][k], heard[s][j])
               PROVE  \E d \in DOMAIN tapOut[s] : tapOut[s][d].at = k
    BY DEF NewFramesDelivered
  <2> DEFINE h == heard[s]
  <2>1. /\ SentOK(h) /\ EncapOK(h, encapRead[s], lastSeq[s], tapOut[s])
        /\ h \in Seq(Frame)
    BY DEF MacLayerInv, StationOK, TypeOK, AirTypeOK
  <2>2. k \in DOMAIN h /\ k <= encapRead[s]
    BY <2>1 DEF EncapOK
  <2> HIDE DEF h
  <2>3. h[k] \in Frame /\ Own(h[k], HEADER + LLC)
    BY <2>1, <2>2 DEF SentOK, h
  <2>4. h[k].len \in Nat
    BY <2>3, FrameFields
  <2>5. k \in Headed(h) /\ Carries(h[k])
    BY <2>2, <2>3, <2>4 DEF Own, Headed, Carries, PayloadOffset, HEADER, LLC
  <2>6. Fresh(h, k)
    <3>1. CASE NoneBefore(k, Headed(h))
      BY <2>3, <3>1, OwnField DEF Fresh
    <3>2. CASE \E j \in Headed(h) : LastBefore(j, k, Headed(h)) /\ NewAfter(h[k], h[j])
      <4>1. PICK j \in Headed(h) : LastBefore(j, k, Headed(h)) /\ NewAfter(h[k], h[j])
        BY <3>2
      <4>2. j \in DOMAIN h /\ h[j].from \in Stations
        BY <4>1 DEF Headed, NewAfter, h
      <4>3. h[j] \in Frame /\ Own(h[j], HEADER + LLC)
        BY <2>1, <4>2 DEF SentOK
      <4>4. h[k].field # h[j].field
        BY <2>3, <4>1, <4>3, NumbersApart DEF NewAfter
      <4> QED
        BY <4>1, <4>4 DEF Fresh
    <3> QED
      BY <3>1, <3>2 DEF h
  <2> QED
    BY <2>1, <2>2, <2>5, <2>6 DEF EncapOK
<1> QED
  BY <1>1, MacLayerInductive, PTL

(* parse counts exactly the frames of a station that were lost before a     *)
(* data frame, from its first one on and across the wrap of the numbers.    *)
THEOREM LossIsCounted == Spec => []LossCounted
<1>1. MacLayerInv => LossCounted
  <2> SUFFICES ASSUME MacLayerInv, NEW s \in Stations, NEW r \in DOMAIN reports[s],
                      heard[s][reports[s][r].at].from \in Stations
               PROVE  LET k == reports[s][r].at
                          f == heard[s][k]
                      IN  /\ (NoneBefore(k, DataAt(heard[s])) /\ f.n <= SEQ_MOD)
                                => reports[s][r].lost = f.n - 1
                          /\ \A j \in DataAt(heard[s]) :
                                (/\ LastBefore(j, k, DataAt(heard[s]))
                                 /\ NewAfter(f, heard[s][j]))
                                => reports[s][r].lost = f.n - heard[s][j].n - 1
    BY DEF LossCounted
  <2> DEFINE h == heard[s]
             k == reports[s][r].at
  <2>1. /\ SentOK(h) /\ ParseOK(h, parseRead[s], lastSeqNo[s], reports[s])
        /\ h \in Seq(Frame)
    BY DEF MacLayerInv, StationOK, TypeOK, AirTypeOK
  <2>2. k \in DataAt(h) /\ Counted(h, k, reports[s][r].lost)
    BY <2>1 DEF ParseOK
  <2>3. DataAt(h) \subseteq DOMAIN h /\ DataAt(h) \in SUBSET Nat
    BY <2>1 DEF DataAt
  <2> HIDE DEF h
  <2>4. h[k] \in Frame /\ Own(h[k], HEADER + LLC)
    BY <2>1, <2>2, <2>3 DEF SentOK, h
  <2> HIDE DEF k
  <2>5. ASSUME NoneBefore(k, DataAt(h)), h[k].n <= SEQ_MOD
        PROVE  reports[s][r].lost = h[k].n - 1
    <3>1. reports[s][r].lost = LostFrames(-1, h[k])
      BY <2>2, <2>3, <2>5, LastUnique DEF Counted
    <3> QED
      BY <2>4, <2>5, <3>1, FirstLost
  <2>6. ASSUME NEW j \in DataAt(h), LastBefore(j, k, DataAt(h)), NewAfter(h[k], h[j])
        PROVE  reports[s][r].lost = h[k].n - h[j].n - 1
    <3>1. reports[s][r].lost = LostFrames(SeqNo(h[j]), h[k])
      BY <2>2, <2>3, <2>6, LastUnique DEF Counted
    <3>2. j \in DOMAIN h /\ h[j].from \in Stations
      BY <2>3, <2>6 DEF NewAfter, h, k
    <3>3. h[j] \in Frame /\ Own(h[j], HEADER + LLC)
      BY <2>1, <3>2 DEF SentOK
    <3> QED
      BY <2>4, <2>6, <3>1, <3>3, NumbersApart DEF NewAfter
  <2> QED
    BY <2>5, <2>6 DEF h, k
<1> QED
  BY <1>1, MacLayerInductive, PTL
-----------------------------------------------------------------------------
(* Packets come out as they were put in.  What a station sends are its      *)
(* MSDUs in order, and what it hears of another are that one's frames, as   *)
(* long as they were sent less the FCS, none older than one before it.      *)

SentAre(s, a, t) ==
    /\ Len(a) <= Len(t)
    /\ \A n \in DOMAIN a : /\ a[n].from = s /\ a[n].n = n
                          /\ a[n].len = HEADER + MsduLen(t[n]) + 4

HeardAre(h, a, t) ==
    /\ \A k \in DOMAIN h : \A p \in Stations : h[k].from = p =>
          /\ h[k].n \in DOMAIN a[p]
          /\ h[k].len = HEADER + MsduLen(t[p][h[k].n])
    /\ \A i, j \in DOMAIN h :
          (i < j /\ h[i].from \in Stations /\ h[i].from = h[j].from)
          => h[i].n <= h[j].n

PacketInv == \A s \in Stations : /\ SentAre(s, aired[s], tapIn[s])
                                /\ HeardAre(heard[s], aired, tapIn)

LEMMA PacketInit == Init => PacketInv
<1> SUFFICES ASSUME Init, NEW s \in Stations
             PROVE  SentAre(s, aired[s], tapIn[s]) /\ HeardAre(heard[s], aired, tapIn)
  BY Zenon DEF PacketInv
<1>1. aired[s] = <<>> /\ heard[s] = <<>> /\ tapIn[s] = <<>>
  BY DEF Init, AirInit, EncapInit
<1> QED
  BY <1>1 DEF SentAre, HeardAre

(* What was sent and heard stays so when stations send and put in more.     *)
LEMMA PacketsGrow ==
    ASSUME MacLayerInv, PacketInv, heard' = heard,
           \A p \in Stations : \A n \in DOMAIN aired[p] :
              n \in DOMAIN aired'[p] /\ tapIn'[p][n] = tapIn[p][n]
    PROVE  \A s \in Stations : HeardAre(heard'[s], aired', tapIn')
<1> SUFFICES ASSUME NEW s \in Stations PROVE HeardAre(heard'[s], aired', tapIn')
  OBVIOUS
<1>1. HeardAre(heard[s], aired, tapIn)
  BY DEF PacketInv
<1>2. ASSUME NEW k \in DOMAIN heard[s], NEW p \in Stations, heard[s][k].from = p
      PROVE  /\ heard[s][k].n \in DOMAIN aired'[p]
             /\ heard[s][k].len = HEADER + MsduLen(tapIn'[p][heard[s][k].n])
  <2>1. /\ heard[s][k].n \in DOMAIN aired[p]
        /\ heard[s][k].len = HEADER + MsduLen(tapIn[p][heard[s][k].n])
    BY <1>1, <1>2, Zenon DEF HeardAre
  <2>2. tapIn'[p][heard[s][k].n] = tapIn[p][heard[s][k].n]
    BY <2>1
  <2> QED
    BY <2>1, <2>2
<1> QED
  BY <1>1, <1>2, Zenon DEF HeardAre, MsduLen

LEMMA TapKeepsPackets ==
    ASSUME MacLayerInv, PacketInv, NEW s \in Stations, TapStep(s)
    PROVE  PacketInv'
<1>1. PICK len \in TapLengths : tapIn' = [tapIn EXCEPT ![s] = Append(@, len)]
  BY DEF TapStep, FromTap
<1>2. aired' = aired /\ heard' = heard
  BY DEF TapStep, airVars
<1>3. tapIn \in [Stations -> Seq(Nat)] /\ aired \in [Stations -> Seq(Frame)]
  BY DEF MacLayerInv, TypeOK, AirTypeOK, EncapTypeOK
<1>4. ASSUME NEW p \in Stations
      PROVE  /\ Len(aired[p]) <= Len(tapIn'[p])
             /\ \A n \in DOMAIN aired[p] : tapIn'[p][n] = tapIn[p][n]
  <2>1. Len(aired[p]) <= Len(tapIn[p])
    BY DEF PacketInv, SentAre
  <2>2. tapIn[p] \in Seq(Nat) /\ aired[p] \in Seq(Frame)
    BY <1>3
  <2>3. CASE tapIn'[p] = tapIn[p]
    BY <2>1, <2>3
  <2>4. CASE tapIn'[p] = Append(tapIn[p], len)
    <3>1. Len(tapIn'[p]) = Len(tapIn[p]) + 1
      BY <2>2, <2>4
    <3>2. \A n \in 1 .. Len(tapIn[p]) : tapIn'[p][n] = tapIn[p][n]
      BY <2>2, <2>4
    <3>3. Len(aired[p]) \in Nat /\ Len(tapIn[p]) \in Nat
          /\ DOMAIN aired[p] = 1 .. Len(aired[p])
      BY <2>2
    <3>4. Len(aired[p]) <= Len(tapIn'[p])
      BY <2>1, <3>1, <3>3
    <3>5. ASSUME NEW n \in DOMAIN aired[p] PROVE tapIn'[p][n] = tapIn[p][n]
      <4>1. n \in 1 .. Len(tapIn[p])
        BY <2>1, <3>3
      <4> QED
        BY <3>2, <4>1
    <3> QED
      BY <3>4, <3>5
  <2> QED
    BY <1>1, <1>3, <2>3, <2>4
<1>5. \A p \in Stations : HeardAre(heard'[p], aired', tapIn')
  <2>1. \A p \in Stations : \A n \in DOMAIN aired[p] :
           n \in DOMAIN aired'[p] /\ tapIn'[p][n] = tapIn[p][n]
    BY <1>2, <1>4, Zenon
  <2> QED
    BY <1>2, <2>1, PacketsGrow, Zenon
<1>6. ASSUME NEW p \in Stations PROVE SentAre(p, aired'[p], tapIn'[p])
  <2>1. SentAre(p, aired[p], tapIn[p])
    BY DEF PacketInv
  <2> QED
    BY <1>2, <1>4, <2>1, Zenon DEF SentAre
<1> QED
  BY <1>5, <1>6 DEF PacketInv

(* A station hears g: of another, its n-th frame, if it is no older than    *)
(* those heard from there before.                                           *)
LEMMA HearingKeepsPackets ==
    ASSUME MacLayerInv, PacketInv, NEW s \in Stations, NEW g,
           heard' = [heard EXCEPT ![s] = Append(@, g)],
           UNCHANGED <<aired, tapIn>>,
           \A p \in Stations : g.from = p =>
              /\ g.n \in DOMAIN aired[p]
              /\ g.len = HEADER + MsduLen(tapIn[p][g.n])
              /\ \A k \in DOMAIN heard[s] : heard[s][k].from = p => heard[s][k].n <= g.n
    PROVE  PacketInv'
<1>1. heard \in [Stations -> Seq(Frame)]
  BY DEF MacLayerInv, TypeOK, AirTypeOK
<1>2. \A t \in Stations : SentAre(t, aired[t], tapIn[t]) /\ HeardAre(heard[t], aired, tapIn)
  BY DEF PacketInv
<1>3. \A t \in Stations : SentAre(t, aired'[t], tapIn'[t])
  BY <1>2
<1>4. ASSUME NEW t \in Stations, t # s PROVE HeardAre(heard'[t], aired', tapIn')
  <2>1. heard'[t] = heard[t]
    BY <1>1, <1>4
  <2> QED
    BY <1>2, <2>1
<1>5. HeardAre(heard'[s], aired', tapIn')
  <2> DEFINE h == heard[s]
             q == heard'[s]
             m == Len(heard[s]) + 1
  <2>1. /\ q[m] = g
        /\ \A k \in DOMAIN h : q[k] = h[k] /\ k < m /\ k \in Int
        /\ \A k \in DOMAIN q : k \in DOMAIN h \/ k = m
        /\ m \in Int
    <3>1. h \in Seq(Frame) /\ q = Append(h, g)
      BY <1>1
    <3> QED
      BY <3>1
  <2>2. HeardAre(heard[s], aired, tapIn)
    BY <1>2
  <2>3. /\ \A k \in DOMAIN h : \A p \in Stations : h[k].from = p =>
              /\ h[k].n \in DOMAIN aired[p]
              /\ h[k].len = HEADER + MsduLen(tapIn[p][h[k].n])
        /\ \A i, j \in DOMAIN h :
              (i < j /\ h[i].from \in Stations /\ h[i].from = h[j].from)
              => h[i].n <= h[j].n
    BY <2>2, Zenon DEF HeardAre
  <2> HIDE DEF h, q, m
  <2>4. ASSUME NEW k \in DOMAIN q, NEW p \in Stations, q[k].from = p
        PROVE  /\ q[k].n \in DOMAIN aired[p]
               /\ q[k].len = HEADER + MsduLen(tapIn[p][q[k].n])
    BY <2>1, <2>3, <2>4, Zenon
  <2>5. ASSUME NEW i \in DOMAIN q, NEW j \in DOMAIN q, i < j,
               q[i].from \in Stations, q[i].from = q[j].from
        PROVE  q[i].n <= q[j].n
    <3>1. CASE j \in DOMAIN h
      <4>1. i \in DOMAIN h
        BY <2>1, <2>5, <3>1
      <4> QED
        BY <2>1, <2>3, <2>5, <3>1, <4>1, Zenon
    <3>2. CASE j = m
      <4>1. i \in DOMAIN h
        BY <2>1, <2>5, <3>2
      <4>2. q[j] = g /\ q[i] = h[i] /\ h[i].from = g.from /\ g.from \in Stations
        BY <2>1, <2>5, <3>2, <4>1, Zenon
      <4> QED
        BY <4>1, <4>2, Zenon DEF h
    <3> QED
      BY <2>1, <3>1, <3>2, Zenon
  <2>6. HeardAre(q, aired, tapIn)
    BY <2>4, <2>5, Zenon DEF HeardAre
  <2> QED
    BY <2>6 DEF q
<1> QED
  BY <1>3, <1>4, <1>5, Zenon DEF PacketInv

LEMMA AirKeepsPackets ==
    ASSUME MacLayerInv, PacketInv, NEW s \in Stations, AirStep(s)
    PROVE  PacketInv'
<1>1. tapIn' = tapIn
  BY DEF AirStep, encapVars
<1>2. ASSUME NEW p \in Stations, HearStation(s, p) PROVE PacketInv'
  <2>1. PICK n \in DOMAIN aired[p] :
           /\ \A k \in DOMAIN heard[s] : heard[s][k].from = p => heard[s][k].n <= n
           /\ Publish(s, aired[p][n])
    BY <1>2 DEF HearStation
  <2> DEFINE f == aired[p][n]
             g == [f EXCEPT !.len = f.len - 4]
  <2>2. heard' = [heard EXCEPT ![s] = Append(@, g)] /\ aired' = aired
    BY <2>1 DEF Publish
  <2>3. f.from = p /\ f.n = n /\ f.len = HEADER + MsduLen(tapIn[p][n]) + 4
    BY <2>1 DEF PacketInv, SentAre
  <2>4. f \in Frame /\ tapIn[p][n] \in Nat
    <3>1. aired[p] \in Seq(Frame) /\ tapIn[p] \in Seq(Nat)
      BY DEF MacLayerInv, TypeOK, AirTypeOK, EncapTypeOK
    <3>2. Len(aired[p]) <= Len(tapIn[p])
      BY DEF PacketInv, SentAre
    <3> QED
      BY <2>1, <3>1, <3>2
  <2>5. g.from = p /\ g.n = n /\ g.len = f.len - 4
    BY <2>3, <2>4 DEF Frame
  <2> HIDE DEF g, f
  <2>6. g.len = HEADER + MsduLen(tapIn[p][n])
    BY <2>3, <2>4, <2>5 DEF HEADER, MsduLen, LLC, ETHERNET
  <2>7. \A t \in Stations : g.from = t =>
              /\ g.n \in DOMAIN aired[t]
              /\ g.len = HEADER + MsduLen(tapIn[t][g.n])
              /\ \A k \in DOMAIN heard[s] : heard[s][k].from = t => heard[s][k].n <= g.n
    BY <2>1, <2>5, <2>6, Zenon
  <2> QED
    BY <1>1, <2>2, <2>7, HearingKeepsPackets
<1>3. ASSUME NEW f \in Foreign, HearForeign(s, f) PROVE PacketInv'
  <2> DEFINE g == [f EXCEPT !.len = f.len - 4]
  <2>1. heard' = [heard EXCEPT ![s] = Append(@, g)] /\ aired' = aired
    BY <1>3 DEF HearForeign, Publish
  <2>2. f \in Frame /\ f.from \notin Stations
    BY AirAssumption
  <2>3. g.from \notin Stations
    BY <2>2 DEF Frame
  <2> HIDE DEF g
  <2>4. \A t \in Stations : g.from # t
    BY <2>3
  <2> QED
    BY <1>1, <2>1, <2>4, HearingKeepsPackets
<1> QED
  BY <1>2, <1>3 DEF AirStep

LEMMA MacKeepsPackets ==
    ASSUME MacLayerInv, PacketInv, NEW s \in Stations, MacStep(s)
    PROVE  PacketInv'
<1>1. tapIn' = tapIn
  BY DEF MacStep, encapVars
<1>2. CASE AppIn(s)
  <2> DEFINE f == DataFrame(s)
             m == Len(aired[s]) + 1
  <2>1. ToSend(s) /\ aired' = [aired EXCEPT ![s] = Append(@, f)] /\ heard' = heard
    BY <1>2 DEF AppIn
  <2>2. /\ f.from = s /\ f.n = m /\ f.len = HEADER + MsduLen(tapIn[s][m]) + 4
    BY DEF DataFrame, NextMsdu
  <2> HIDE DEF f
  <2>3. aired \in [Stations -> Seq(Frame)] /\ tapIn \in [Stations -> Seq(Nat)]
    BY DEF MacLayerInv, TypeOK, AirTypeOK, EncapTypeOK
  <2>4. /\ Len(aired'[s]) = m /\ m <= Len(tapIn[s])
        /\ aired'[s][m] = f
        /\ \A n \in DOMAIN aired[s] : n \in DOMAIN aired'[s] /\ aired'[s][n] = aired[s][n]
        /\ \A n \in DOMAIN aired'[s] : n \in DOMAIN aired[s] \/ n = m
    <3>1. aired[s] \in Seq(Frame) /\ tapIn[s] \in Seq(Nat) /\ aired'[s] = Append(aired[s], f)
      BY <2>1, <2>3
    <3>2. Len(aired[s]) < Len(tapIn[s])
      BY <2>1 DEF ToSend
    <3> QED
      BY <3>1, <3>2
  <2> HIDE DEF m
  <2>5. \A t \in Stations : t # s => aired'[t] = aired[t]
    BY <2>1, <2>3
  <2>6. \A p \in Stations : \A n \in DOMAIN aired[p] :
           n \in DOMAIN aired'[p] /\ tapIn'[p][n] = tapIn[p][n]
    BY <1>1, <2>4, <2>5, Zenon
  <2>7. \A p \in Stations : HeardAre(heard'[p], aired', tapIn')
    BY <2>1, <2>6, PacketsGrow
  <2>8. ASSUME NEW p \in Stations PROVE SentAre(p, aired'[p], tapIn'[p])
    <3>1. SentAre(p, aired[p], tapIn[p])
      BY DEF PacketInv
    <3>2. CASE p = s
      <4>1. \A n \in DOMAIN aired'[s] :
               /\ aired'[s][n].from = s /\ aired'[s][n].n = n
               /\ aired'[s][n].len = HEADER + MsduLen(tapIn[s][n]) + 4
        <5>1. \A n \in DOMAIN aired[s] :
                 /\ aired[s][n].from = s /\ aired[s][n].n = n
                 /\ aired[s][n].len = HEADER + MsduLen(tapIn[s][n]) + 4
          BY <3>1, <3>2, Zenon DEF SentAre
        <5>2. ASSUME NEW n \in DOMAIN aired'[s]
              PROVE  /\ aired'[s][n].from = s /\ aired'[s][n].n = n
                     /\ aired'[s][n].len = HEADER + MsduLen(tapIn[s][n]) + 4
          <6>1. CASE n \in DOMAIN aired[s]
            BY <2>4, <5>1, <6>1, Zenon
          <6>2. CASE n = m
            BY <2>2, <2>4, <6>2, Zenon
          <6> QED
            BY <2>4, <6>1, <6>2
        <5> QED
          BY <5>2
      <4>2. SentAre(s, aired'[s], tapIn[s])
        BY <2>4, <4>1 DEF SentAre
      <4> QED
        BY <1>1, <3>2, <4>2
    <3>3. CASE p # s
      BY <1>1, <2>5, <3>1, <3>3
    <3> QED
      BY <3>2, <3>3
  <2> QED
    BY <2>7, <2>8 DEF PacketInv
<1>3. CASE AppInThrow(s) \/ PhyIn(s)
  <2>1. aired' = aired /\ heard' = heard
    BY <1>3 DEF AppInThrow, PhyIn, airVars
  <2> QED
    BY <1>1, <2>1 DEF PacketInv
<1> QED
  BY <1>2, <1>3 DEF MacStep

LEMMA OthersKeepPackets ==
    ASSUME PacketInv, UNCHANGED <<aired, heard, tapIn>>
    PROVE  PacketInv'
<1>1. aired' = aired /\ heard' = heard /\ tapIn' = tapIn
  OBVIOUS
<1> QED
  BY <1>1 DEF PacketInv

LEMMA PacketsInductive == ASSUME MacLayerInv, PacketInv, [Next]_vars PROVE PacketInv'
<1>1. CASE Next
  <2>1. PICK s \in Stations :
           TapStep(s) \/ AirStep(s) \/ EncapStep(s) \/ MacStep(s) \/ ParseStep(s)
    BY <1>1 DEF Next
  <2>2. CASE EncapStep(s)
    BY <2>2, OthersKeepPackets
       DEF EncapStep, FromWifi, SkipShort, SkipSeen, SkipOther, Unwrap, IsNew,
           PduHandled, airVars
  <2>3. CASE ParseStep(s)
    BY <2>3, OthersKeepPackets DEF ParseStep, airVars, encapVars
  <2> QED
    BY <2>1, <2>2, <2>3, TapKeepsPackets, AirKeepsPackets, MacKeepsPackets
<1>2. CASE UNCHANGED vars
  BY <1>2, OthersKeepPackets DEF vars, airVars, encapVars
<1> QED
  BY <1>1, <1>2

-----------------------------------------------------------------------------
(* Each step of the MAC layer is one of PacketDelivery or changes nothing   *)
(* there.                                                                   *)

Packet(d)   == [from |-> d.from, n |-> d.n, len |-> d.len]
DeliveredAt == [s \in Stations |-> [k \in DOMAIN tapOut[s] |-> Packet(tapOut[s][k])]]

LEMMA TapOffers ==
    ASSUME NEW s \in Stations, TapStep(s)
    PROVE  Packets!Offer(s)
<1>1. PICK len \in TapLengths : FromTap(s, len)
  BY DEF TapStep
<1> QED
  BY <1>1 DEF FromTap, Packets!Offer

(* from_wifi hands the tap a packet of another network, or the one put in   *)
(* as the n-th at a station.                                                *)
LEMMA UnwrapDelivers ==
    ASSUME MacLayerInv, PacketInv, NEW s \in Stations, Unwrap(s)
    PROVE  Packets!DeliverForeign(s) \/ \E p \in Stations : Packets!Deliver(s, p)
<1> DEFINE h == heard[s]
           e == encapRead[s]
           f == h[e + 1]
           u == Unwrapped(s)
           o == tapOut[s]
           m == Len(o) + 1
           D == DeliveredAt
<1>1. /\ h \in Seq(Frame) /\ e \in Nat
      /\ tapOut \in [Stations -> Seq([at : Nat, from : Stations \cup {OTHERS},
                                      n : Nat, len : Nat])]
  BY DEF MacLayerInv, TypeOK, AirTypeOK, EncapTypeOK
<1>2. /\ e < Len(h) /\ Carries(f)
      /\ tapOut' = [tapOut EXCEPT ![s] = Append(@, u)] /\ tapIn' = tapIn
  BY DEF Unwrap, IsNew, ToUnwrap, NextPdu, PduHandled
<1>3. f \in Frame /\ e + 1 \in DOMAIN h
  BY <1>1, <1>2
<1>4. /\ Packet(u) = [from |-> f.from, n |-> f.n,
                      len |-> ETHERNET + (f.len - PayloadOffset(f))]
  BY DEF Packet, Unwrapped, NextPdu
<1>5. /\ o \in Seq([at : Nat, from : Stations \cup {OTHERS}, n : Nat, len : Nat])
      /\ tapOut'[s] = Append(o, u)
      /\ \A t \in Stations : t # s => tapOut'[t] = tapOut[t]
  BY <1>1, <1>2
<1>6. /\ m \in Nat /\ DOMAIN o = 1 .. m - 1 /\ DOMAIN Append(o, u) = 1 .. m
      /\ \A k \in 1 .. m - 1 : Append(o, u)[k] = o[k]
      /\ Append(o, u)[m] = u
  BY <1>5
<1>7. SentOK(h) /\ EncapOK(h, e, lastSeq[s], o)
  BY DEF MacLayerInv, StationOK
<1> HIDE DEF h, e, f, u, o, m
<1>8. /\ D[s] = [k \in 1 .. m - 1 |-> Packet(o[k])]
      /\ D'[s] = [k \in 1 .. m |-> Packet(Append(o, u)[k])]
  BY <1>5, <1>6 DEF DeliveredAt, o
<1>9. D' = [D EXCEPT ![s] = Append(@, Packet(u))]
  <2>1. D'[s] = Append(D[s], Packet(u))
    BY <1>6, <1>8
  <2>2. \A t \in Stations : t # s => D'[t] = D[t]
    BY <1>5, Zenon DEF DeliveredAt
  <2> QED
    BY <2>1, <2>2 DEF DeliveredAt
<1>10. CASE f.from \notin Stations
  <2>1. m \in DOMAIN D'[s] /\ D'[s][m] = Packet(u) /\ Packet(u).from \notin Stations
    BY <1>4, <1>6, <1>8, <1>10
  <2> HIDE DEF D
  <2>2. \E k \in DOMAIN D'[s] :
           /\ D'[s][k].from \notin Stations
           /\ D' = [D EXCEPT ![s] = Append(@, D'[s][k])]
    BY <1>9, <2>1
  <2> QED
    BY <1>2, <2>2 DEF Packets!DeliverForeign, D, DeliveredAt, Packet
<1>11. ASSUME NEW p \in Stations, f.from = p PROVE Packets!Deliver(s, p)
  <2>1. /\ f.n \in DOMAIN aired[p]
        /\ f.len = HEADER + MsduLen(tapIn[p][f.n])
    BY <1>3, <1>11, Zenon DEF PacketInv, HeardAre, h, f
  <2>2. f.n \in DOMAIN tapIn[p] /\ tapIn[p][f.n] \in Nat
    <3>1. aired[p] \in Seq(Frame) /\ tapIn[p] \in Seq(Nat)
      BY DEF MacLayerInv, TypeOK, AirTypeOK, EncapTypeOK
    <3>2. Len(aired[p]) <= Len(tapIn[p])
      BY DEF PacketInv, SentAre
    <3> QED
      BY <2>1, <3>1, <3>2
  <2>3. f.kind = "Data"
    BY <1>3, <1>7, <1>11, Zenon DEF SentOK, Own, f
  <2>4. Packet(u) = [from |-> p, n |-> f.n, len |-> tapIn[p][f.n]]
    <3>1. ETHERNET + (f.len - PayloadOffset(f)) = tapIn[p][f.n]
      BY <2>1, <2>2, <2>3 DEF PayloadOffset, MsduLen, ETHERNET, HEADER, LLC
    <3> QED
      BY <1>4, <1>11, <3>1
  <2>5. ASSUME NEW k \in 1 .. m - 1, o[k].from = p PROVE o[k].n <= f.n
    <3>1. /\ o[k].at \in Headed(h) /\ o[k].at <= e
          /\ o[k].from = h[o[k].at].from /\ o[k].n = h[o[k].at].n
      BY <1>6, <1>7 DEF EncapOK
    <3>2. o[k].at \in DOMAIN h
      BY <3>1, Zenon DEF Headed
    <3>3. o[k].at < e + 1
      BY <1>1, <3>1, <3>2
    <3> QED
      BY <1>3, <1>11, <2>5, <3>1, <3>2, <3>3, Zenon DEF PacketInv, HeardAre, h, f
  <2>6. \A k \in DOMAIN D[s] : D[s][k].from = p => D[s][k].n <= f.n
    <3> SUFFICES ASSUME NEW k \in 1 .. m - 1, D[s][k].from = p
                 PROVE  D[s][k].n <= f.n
      BY <1>8
    <3>1. D[s][k] = Packet(o[k])
      BY <1>8
    <3>2. D[s][k].from = o[k].from /\ D[s][k].n = o[k].n
      BY <3>1 DEF Packet
    <3> QED
      BY <2>5, <3>2
  <2> HIDE DEF D
  <2>7. \E n \in DOMAIN tapIn[p] :
           /\ \A k \in DOMAIN D[s] : D[s][k].from = p => D[s][k].n <= n
           /\ D' = [D EXCEPT ![s] = Append(@, [from |-> p, n |-> n, len |-> tapIn[p][n]])]
    BY <1>9, <2>2, <2>4, <2>6, Zenon
  <2> QED
    BY <1>2, <2>7 DEF Packets!Deliver, D, DeliveredAt, Packet
<1> QED
  BY <1>10, <1>11

(* The transceivers implement PacketDelivery: between any two stations,     *)
(* packets come out as long as they were put in and never out of order,     *)
(* whatever is lost, sent again or heard from other networks.               *)
THEOREM PacketsComeOutInOrder == Spec => PacketSpec
<1>1. Init => Packets!Init
  BY DEF Init, EncapInit, Packets!Init
<1>2. ASSUME MacLayerInv, PacketInv, [Next]_vars
      PROVE  [Packets!Next]_<<tapIn, DeliveredAt>>
  <2>1. ASSUME tapIn' = tapIn, tapOut' = tapOut
        PROVE  UNCHANGED <<tapIn, DeliveredAt>>
    BY <2>1 DEF DeliveredAt
  <2>2. ASSUME NEW s \in Stations, TapStep(s) PROVE Packets!Next
    BY <2>2, TapOffers DEF Packets!Next
  <2>3. ASSUME NEW s \in Stations, EncapStep(s), ~Unwrap(s)
        PROVE  tapIn' = tapIn /\ tapOut' = tapOut
    BY <2>3 DEF EncapStep, FromWifi, SkipShort, SkipSeen, SkipOther, IsNew, PduHandled
  <2>4. ASSUME NEW s \in Stations, Unwrap(s) PROVE Packets!Next
    BY <1>2, <2>4, UnwrapDelivers DEF Packets!Next
  <2>5. ASSUME NEW s \in Stations, AirStep(s) \/ MacStep(s) \/ ParseStep(s)
        PROVE  tapIn' = tapIn /\ tapOut' = tapOut
    BY <2>5 DEF AirStep, MacStep, ParseStep, encapVars
  <2>6. CASE UNCHANGED vars
    BY <2>1, <2>6 DEF vars, encapVars
  <2> QED
    BY <1>2, <2>1, <2>2, <2>3, <2>4, <2>5, <2>6, Zenon DEF Next
<1>3. ASSUME MacLayerInv, PacketInv, [Next]_vars PROVE PacketInv'
  BY <1>3, PacketsInductive
<1> QED
  BY <1>1, <1>2, <1>3, PacketInit, MacLayerInductive, PTL
     DEF Spec, PacketSpec, Packets!Spec, DeliveredAt, Packet
=============================================================================
