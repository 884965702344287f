------------------------- MODULE FrameBuilderProofs --------------------------
(***************************************************************************)
(* frame_builder keeps its outputs together and builds every frame with    *)
(* values of its time, for every choice of the parameters, every size of   *)
(* frames and every cut into calls.                                        *)
(***************************************************************************)
EXTENDS FrameBuilder, SequenceTheorems, TLAPS

-----------------------------------------------------------------------------
Configs == [format : Values.format, fec : Values.fec, mcs : Values.mcs, bw : Values.bw]
Kinds == {"none", "stream", "zeros"}
Items == [pdu : Nat, kind : Kinds, index : Nat]
Tags  == [at : Nat, len : Nat \ {0}, pdu : Nat]
Fates == [pdu : Nat, params : Configs, inForce : SUBSET Configs]

BuilderTypes ==
    /\ taken \in Nat /\ nread \in -1 .. 4 /\ offset \in Nat
    /\ config \in Configs /\ params \in Configs /\ inForce \subseteq Configs
    /\ out \in [Outputs -> Seq(Items)] /\ tags \in [Outputs -> Seq(Tags)]
    /\ built \in Seq(Fates)

(* The items of one output that belong to a tag.                            *)
KindOf(ch, p) == IF ch = 1 \/ Mimo(p) THEN "stream" ELSE "zeros"

Content(o, t, ch, p) ==
    \A i \in t.at + 1 .. Len(o) : i <= t.at + t.len =>
        o[i] = [pdu |-> t.pdu, index |-> i - t.at, kind |-> KindOf(ch, p)]

(* What the outputs hold, and how far the last frame is. *)
Same == \A ch \in Outputs : tags[ch] = tags[1] /\ Len(out[ch]) = Len(out[1])

TagsInv ==
    /\ Len(built) = Len(tags[1])
    /\ \A k \in 1 .. Len(tags[1]) :
          /\ built[k].pdu = tags[1][k].pdu /\ tags[1][k].pdu <= taken
          /\ nread >= 0 => tags[1][k].pdu < taken
    /\ \A k \in 1 .. Len(tags[1]) : k < Len(tags[1]) =>
          tags[1][k + 1].at = tags[1][k].at + tags[1][k].len
    /\ \A j, k \in 1 .. Len(tags[1]) : j < k =>
          /\ tags[1][j].at + tags[1][j].len <= tags[1][k].at
          /\ tags[1][j].pdu < tags[1][k].pdu

ContentInv ==
    \A ch \in Outputs : \A k \in 1 .. Len(tags[1]) :
        Content(out[ch], tags[1][k], ch, built[k].params)

(* All that was announced is out, but for the rest of the last frame. *)
ProgressInv ==
    /\ nread >= 0 => Idle
    /\ Idle => /\ Len(tags[1]) = 0 => Len(out[1]) = 0
               /\ Len(tags[1]) > 0 =>
                     Len(out[1]) = tags[1][Len(tags[1])].at + tags[1][Len(tags[1])].len
    /\ ~Idle => /\ Len(tags[1]) > 0
                /\ offset < tags[1][Len(tags[1])].len
                /\ Len(out[1]) = tags[1][Len(tags[1])].at + offset
                /\ ant = [ch \in Outputs |->
                             [pdu |-> tags[1][Len(tags[1])].pdu,
                              kind |-> KindOf(ch, built[Len(tags[1])].params),
                              size |-> tags[1][Len(tags[1])].len]]

OutInv == Same /\ TagsInv /\ ContentInv /\ ProgressInv

(* The parameters read so far come from configurations of the time. *)
ReadInv ==
    /\ nread >= 0 => /\ config \in inForce
                     /\ \A i \in 1 .. nread : \E c \in inForce :
                           params[ReadOrder[i]] = c[ReadOrder[i]]
    /\ BuiltAsConfigured

BuilderInv == BuilderTypes /\ OutInv /\ ReadInv

-----------------------------------------------------------------------------
LEMMA OneOutput == 1 \in Outputs /\ Outputs \subseteq Nat
BY BuilderAssumption DEF Outputs

LEMMA ReadsAll == /\ \A i \in 1 .. 4 : ReadOrder[i] \in Params
                  /\ \A f \in Params : \E i \in 1 .. 4 : ReadOrder[i] = f
                  /\ Len(ReadOrder) = 4
<1>1. ReadOrder[1] = "format" /\ ReadOrder[2] = "fec" /\ ReadOrder[3] = "mcs"
      /\ ReadOrder[4] = "bw" /\ Len(ReadOrder) = 4
  BY DEF ReadOrder
<1>2. 1 \in 1 .. 4 /\ 2 \in 1 .. 4 /\ 3 \in 1 .. 4 /\ 4 \in 1 .. 4
  OBVIOUS
<1>3. \A i \in 1 .. 4 : i = 1 \/ i = 2 \/ i = 3 \/ i = 4
  OBVIOUS
<1> QED
  BY <1>1, <1>2, <1>3, Zenon DEF Params

LEMMA Changed ==
    ASSUME NEW p \in Configs, NEW f \in Params, NEW v \in Values[f]
    PROVE  [p EXCEPT ![f] = v] \in Configs
<1>1. CASE f = "format"
  BY <1>1 DEF Configs
<1>2. CASE f = "fec"
  BY <1>2 DEF Configs
<1>3. CASE f = "mcs"
  BY <1>3 DEF Configs
<1>4. CASE f = "bw"
  BY <1>4 DEF Configs
<1> QED
  BY <1>1, <1>2, <1>3, <1>4 DEF Params

LEMMA ChangedOne ==
    ASSUME NEW p \in Configs, NEW f \in Params, NEW g \in Params, NEW v
    PROVE  [p EXCEPT ![f] = v][g] = IF g = f THEN v ELSE p[g]
<1>1. DOMAIN p = Params
  BY DEF Configs, Params
<1> QED
  BY <1>1

LEMMA ValueOf ==
    ASSUME NEW p \in Configs, NEW f \in Params
    PROVE  p[f] \in Values[f]
<1>1. f = "format" \/ f = "fec" \/ f = "mcs" \/ f = "bw"
  BY DEF Params
<1> QED
  BY <1>1 DEF Configs

LEMMA AppendedTo ==
    ASSUME NEW S, NEW s \in Seq(S), NEW e \in S
    PROVE  /\ Append(s, e) \in Seq(S)
           /\ Len(s) \in Nat
           /\ Len(Append(s, e)) = Len(s) + 1
           /\ \A k \in 1 .. Len(s) : Append(s, e)[k] = s[k]
           /\ Append(s, e)[Len(s) + 1] = e
BY AppendProperties, LenProperties

LEMMA CopiedTo ==
    ASSUME NEW S, NEW s \in Seq(S), NEW n \in Nat, NEW t \in [1 .. n -> S]
    PROVE  /\ s \o t \in Seq(S)
           /\ Len(s) \in Nat
           /\ Len(s \o t) = Len(s) + n
           /\ \A i \in 1 .. Len(s) : (s \o t)[i] = s[i]
           /\ \A i \in 1 .. n : (s \o t)[Len(s) + i] = t[i]
<1>1. t \in Seq(S)
  BY SeqDef
<1>2. Len(t) = n
  <2>1. DOMAIN t = 1 .. Len(t) /\ Len(t) \in Nat
    BY <1>1, LenProperties
  <2> QED
    BY <2>1
<1>3. Len(s) \in Nat
  BY LenProperties
<1>4. /\ s \o t \in Seq(S) /\ Len(s \o t) = Len(s) + n
      /\ \A i \in 1 .. Len(s) + n :
            (s \o t)[i] = IF i <= Len(s) THEN s[i] ELSE t[i - Len(s)]
  BY <1>1, <1>2, ConcatProperties
<1>5. ASSUME NEW i \in 1 .. Len(s) PROVE (s \o t)[i] = s[i]
  BY <1>3, <1>4
<1>6. ASSUME NEW i \in 1 .. n PROVE (s \o t)[Len(s) + i] = t[i]
  <2>1. /\ Len(s) + i \in 1 .. Len(s) + n /\ ~(Len(s) + i <= Len(s))
        /\ Len(s) + i - Len(s) = i
    BY <1>3
  <2> QED
    BY <1>4, <2>1
<1> QED
  BY <1>3, <1>4, <1>5, <1>6

-----------------------------------------------------------------------------
LEMMA InitInv == Init => BuilderInv
<1> SUFFICES ASSUME Init PROVE BuilderInv
  OBVIOUS
<1>1. out = [ch \in Outputs |-> <<>>] /\ tags = [ch \in Outputs |-> <<>>] /\ built = <<>>
  BY DEF Init
<1>2. out[1] = <<>> /\ tags[1] = <<>> /\ Len(built) = 0 /\ Len(tags[1]) = 0 /\ Len(out[1]) = 0
      /\ DOMAIN built = {}
  BY <1>1, OneOutput
<1>3. BuilderTypes
  <2>1. config \in Configs /\ params \in Configs /\ inForce \subseteq Configs
    BY DEF Init, Configs
  <2>2. <<>> \in Seq(Items) /\ <<>> \in Seq(Tags) /\ <<>> \in Seq(Fates)
    BY EmptySeq
  <2> QED
    BY <1>1, <2>1, <2>2 DEF Init, BuilderTypes
<1>4. Same
  BY <1>1, OneOutput DEF Same
<1>5. TagsInv /\ ContentInv
  BY <1>2 DEF TagsInv, ContentInv
<1>6. ProgressInv
  <2>1. Idle /\ nread = -1
    BY OneOutput DEF Init, Idle, NoSamples
  <2> QED
    BY <1>2, <2>1 DEF ProgressInv
<1>7. ReadInv
  BY <1>2 DEF ReadInv, BuiltAsConfigured, Init
<1> QED
  BY <1>3, <1>4, <1>5, <1>6, <1>7 DEF BuilderInv, OutInv

(* A message comes, or a setter is called. *)
LEMMA OutsideKeeps == BuilderInv /\ (Post \/ Set) => BuilderInv'
<1> SUFFICES ASSUME BuilderInv, Post \/ Set PROVE BuilderInv'
  OBVIOUS
<1>1. BuilderTypes /\ OutInv /\ ReadInv
  BY DEF BuilderInv
<1>2. UNCHANGED <<taken, nread, params, ant, offset, out, tags, built>>
  BY DEF Post, Set
<1>3. OutInv'
  BY <1>1, <1>2 DEF OutInv, Same, TagsInv, ContentInv, Content, ProgressInv, Idle
<1>4. /\ config' \in Configs /\ inForce' \subseteq Configs /\ inForce \subseteq inForce'
      /\ nread >= 0 => config' \in inForce'
  <2>1. CASE Post
    BY <1>1, <2>1 DEF Post, BuilderTypes, ReadInv
  <2>2. CASE Set
    <3>1. PICK f \in Params : \E v \in Values[f] : config' = [config EXCEPT ![f] = v]
      BY <2>2 DEF Set
    <3>2. config' \in Configs
      BY <1>1, <3>1, Changed DEF BuilderTypes
    <3>3. inForce' = IF nread >= 0 THEN inForce \cup {config'} ELSE inForce
      BY <2>2 DEF Set
    <3> QED
      BY <1>1, <3>2, <3>3 DEF BuilderTypes
  <2> QED
    BY <2>1, <2>2
<1>5. BuilderTypes'
  BY <1>1, <1>2, <1>4 DEF BuilderTypes
<1>6. ReadInv'
  BY <1>1, <1>2, <1>4 DEF ReadInv, BuiltAsConfigured
<1> QED
  BY <1>3, <1>5, <1>6 DEF BuilderInv

LEMMA TakeKeeps == BuilderInv /\ Take => BuilderInv'
<1> SUFFICES ASSUME BuilderInv, Take PROVE BuilderInv'
  OBVIOUS
<1>1. BuilderTypes /\ Same /\ TagsInv /\ ContentInv /\ ProgressInv /\ ReadInv
  BY DEF BuilderInv, OutInv
<1>2. /\ UNCHANGED <<config, params, ant, offset, out, tags, built>>
      /\ taken' = taken + 1 /\ Idle /\ nread = -1
      /\ \/ nread' = 0 /\ inForce' = {config}
         \/ nread' = nread /\ inForce' = inForce
  BY DEF Take
<1>3. BuilderTypes'
  BY <1>1, <1>2 DEF BuilderTypes
<1>4. TagsInv'
  <2>1. \A k \in 1 .. Len(tags[1]) : tags[1][k].pdu <= taken' /\ tags[1][k].pdu < taken'
    <3> SUFFICES ASSUME NEW k \in 1 .. Len(tags[1])
                 PROVE  tags[1][k].pdu <= taken' /\ tags[1][k].pdu < taken'
      OBVIOUS
    <3>1. tags[1] \in Seq(Tags)
      BY <1>1, OneOutput DEF BuilderTypes
    <3>2. tags[1][k] \in Tags
      BY <3>1, ElementOfSeq
    <3> QED
      BY <1>1, <1>2, <3>2 DEF TagsInv, BuilderTypes, Tags
  <2> QED
    BY <1>1, <1>2, <2>1 DEF TagsInv
<1>5. Same' /\ ContentInv' /\ ProgressInv'
  BY <1>1, <1>2 DEF Same, ContentInv, Content, ProgressInv, Idle
<1>6. ReadInv'
  BY <1>1, <1>2 DEF ReadInv, BuiltAsConfigured
<1> QED
  BY <1>3, <1>4, <1>5, <1>6 DEF BuilderInv, OutInv

LEMMA ReadKeeps == BuilderInv /\ Read => BuilderInv'
<1> SUFFICES ASSUME BuilderInv, Read PROVE BuilderInv'
  OBVIOUS
<1>1. BuilderTypes /\ OutInv /\ ReadInv
  BY DEF BuilderInv
<1> DEFINE f == ReadOrder[nread + 1]
<1>2. /\ UNCHANGED <<taken, config, inForce, ant, offset, out, tags, built>>
      /\ nread \in 0 .. 3 /\ nread' = nread + 1
      /\ params' = [params EXCEPT ![f] = config[f]]
  <2>1. nread \in 0 .. 3
    BY ReadsAll DEF Read
  <2> QED
    BY <2>1 DEF Read, Value
<1>3. f \in Params /\ params \in Configs /\ config \in Configs /\ config \in inForce
  <2>1. nread + 1 \in 1 .. 4
    BY <1>2
  <2> QED
    BY <1>1, <1>2, <2>1, ReadsAll DEF BuilderTypes, ReadInv
<1>4. params' \in Configs
  BY <1>2, <1>3, Changed, ValueOf
<1>5. BuilderTypes'
  BY <1>1, <1>2, <1>4 DEF BuilderTypes
<1>6. OutInv'
  BY <1>1, <1>2 DEF OutInv, Same, TagsInv, ContentInv, Content, ProgressInv, Idle
<1>7. ReadInv'
  <2>1. \A i \in 1 .. nread + 1 : \E c \in inForce : params'[ReadOrder[i]] = c[ReadOrder[i]]
    <3> SUFFICES ASSUME NEW i \in 1 .. nread + 1
                 PROVE  \E c \in inForce : params'[ReadOrder[i]] = c[ReadOrder[i]]
      OBVIOUS
    <3>1. i \in 1 .. 4
      BY <1>2
    <3>2. ReadOrder[i] \in Params
      BY <3>1, ReadsAll
    <3>3. params'[ReadOrder[i]] = IF ReadOrder[i] = f THEN config[f] ELSE params[ReadOrder[i]]
      BY <1>2, <1>3, <3>2, ChangedOne
    <3>4. CASE ReadOrder[i] = f
      BY <1>3, <3>3, <3>4
    <3>5. CASE ReadOrder[i] # f
      <4>1. i # nread + 1
        BY <3>5
      <4>2. i \in 1 .. nread
        BY <1>2, <4>1
      <4> QED
        BY <1>1, <1>2, <3>3, <3>5, <4>2 DEF ReadInv
    <3> QED
      BY <3>4, <3>5
  <2> QED
    BY <1>1, <1>2, <1>3, <2>1 DEF ReadInv, BuiltAsConfigured
<1> QED
  BY <1>5, <1>6, <1>7 DEF BuilderInv

(* A frame that is refused leaves the outputs alone. *)
LEMMA DropKeeps ==
    ASSUME BuilderInv, Build, ~Supported(params)
    PROVE  BuilderInv'
<1>1. BuilderTypes /\ Same /\ TagsInv /\ ContentInv /\ ProgressInv /\ ReadInv
  BY DEF BuilderInv, OutInv
<1>2. /\ UNCHANGED <<taken, config, params, inForce, ant, offset, out, tags, built>>
      /\ nread' = -1
  BY DEF Build
<1> QED
  BY <1>1, <1>2 DEF BuilderInv, OutInv, BuilderTypes, Same, TagsInv, ContentInv, Content,
                    ProgressInv, Idle, ReadInv, BuiltAsConfigured

LEMMA BuildKeeps ==
    ASSUME BuilderInv, Build, Supported(params)
    PROVE  BuilderInv'
<1>1. BuilderTypes /\ Same /\ TagsInv /\ ContentInv /\ ProgressInv /\ ReadInv
  BY DEF BuilderInv, OutInv
<1>2. nread = 4 /\ Idle
  BY <1>1, ReadsAll DEF Build, ProgressInv
<1>3. PICK size \in Sizes :
         /\ ant' = [ch \in Outputs |->
                       IF ch = 1 THEN [pdu |-> taken, kind |-> "stream", size |-> size]
                                 ELSE Second(size)]
         /\ offset' = 0
         /\ tags' = [ch \in Outputs |-> Append(tags[ch],
                        [at |-> Len(out[ch]), len |-> size, pdu |-> taken])]
         /\ built' = Append(built, Fate)
  BY DEF Build
<1>4. nread' = -1 /\ UNCHANGED <<taken, config, params, inForce, out>>
  BY DEF Build
<1>5. PICK n \in Nat, L \in Nat : n = Len(tags[1]) /\ L = Len(out[1]) /\ n = Len(built)
  <2>1. tags[1] \in Seq(Tags) /\ out[1] \in Seq(Items)
    BY <1>1, OneOutput DEF BuilderTypes
  <2> QED
    BY <1>1, <2>1, LenProperties DEF TagsInv
<1> DEFINE t == [at |-> L, len |-> size, pdu |-> taken]
<1>6. t \in Tags /\ taken \in Nat /\ size \in Nat /\ size > 0
  BY <1>1, <1>5, BuilderAssumption DEF Tags, BuilderTypes
<1>7. \A ch \in Outputs : tags'[ch] = Append(tags[1], t)
  BY <1>1, <1>3, <1>5 DEF Same
<1> HIDE DEF t
<1>8. tags[1] \in Seq(Tags)
  BY <1>1, OneOutput DEF BuilderTypes
<1>9. /\ Append(tags[1], t) \in Seq(Tags) /\ tags'[1] = Append(tags[1], t)
      /\ Len(tags'[1]) = n + 1
      /\ \A k \in 1 .. n : tags'[1][k] = tags[1][k]
      /\ tags'[1][n + 1] = t
  <2>1. PICK s \in Seq(Tags) : s = tags[1]
    BY <1>8
  <2>2. /\ Append(s, t) \in Seq(Tags) /\ Len(Append(s, t)) = Len(s) + 1
        /\ \A k \in 1 .. Len(s) : Append(s, t)[k] = s[k]
        /\ Append(s, t)[Len(s) + 1] = t
    BY <1>6, AppendedTo
  <2>3. tags'[1] = Append(tags[1], t)
    BY <1>7, OneOutput
  <2> QED
    BY <1>5, <2>1, <2>2, <2>3
<1> DEFINE fate == Fate
<1>10. fate \in Fates /\ fate.pdu = taken /\ fate.params = params /\ fate.inForce = inForce
  BY <1>1 DEF Fate, Fates, BuilderTypes
<1> HIDE DEF fate
<1>11. /\ built' \in Seq(Fates) /\ Len(built') = n + 1
       /\ \A k \in 1 .. n : built'[k] = built[k]
       /\ built'[n + 1] = fate
  <2>1. built \in Seq(Fates) /\ built' = Append(built, fate)
    BY <1>1, <1>3 DEF BuilderTypes, fate
  <2> QED
    BY <1>5, <1>10, <2>1, AppendedTo
<1>12. t.at = L /\ t.len = size /\ t.pdu = taken
  BY DEF t
<1>13. \A k \in 1 .. n : tags[1][k] \in Tags
  BY <1>5, <1>8, ElementOfSeq
<1>14. \A k \in 1 .. n : /\ tags[1][k].at + tags[1][k].len <= L
                         /\ tags[1][k].pdu < taken
                         /\ k = n => tags[1][k].at + tags[1][k].len = L
  <2> SUFFICES ASSUME NEW k \in 1 .. n
               PROVE  /\ tags[1][k].at + tags[1][k].len <= L
                      /\ tags[1][k].pdu < taken
                      /\ k = n => tags[1][k].at + tags[1][k].len = L
    OBVIOUS
  <2>1. n \in 1 .. n /\ n > 0
    BY <1>5
  <2>2. tags[1][n].at + tags[1][n].len = L
    BY <1>1, <1>2, <1>5, <2>1 DEF ProgressInv
  <2>3. tags[1][k].pdu < taken
    BY <1>1, <1>2, <1>5 DEF TagsInv
  <2>4. CASE k < n
    <3>1. tags[1][k].at + tags[1][k].len <= tags[1][n].at
      BY <1>1, <1>5, <2>1, <2>4 DEF TagsInv
    <3>2. tags[1][k] \in Tags /\ tags[1][n] \in Tags
      BY <1>13, <2>1
    <3> QED
      BY <2>2, <2>3, <2>4, <3>1, <3>2 DEF Tags
  <2>5. CASE k = n
    BY <2>2, <2>3, <2>5, <1>13 DEF Tags
  <2> QED
    BY <1>5, <2>4, <2>5
<1>15. \A k \in 1 .. n + 1 : k = n + 1 \/ k \in 1 .. n
  BY <1>5
<1>16. BuilderTypes'
  <2>1. tags' \in [Outputs -> Seq(Tags)]
    BY <1>3, <1>7, <1>9
  <2> QED
    BY <1>1, <1>3, <1>4, <1>11, <2>1 DEF BuilderTypes
<1>17. Same'
  <2> SUFFICES ASSUME NEW ch \in Outputs PROVE tags'[ch] = tags'[1] /\ Len(out'[ch]) = Len(out'[1])
    BY DEF Same
  <2> QED
    BY <1>1, <1>4, <1>7, <1>9 DEF Same
<1>18. TagsInv'
  <2>1. \A k \in 1 .. n + 1 : /\ built'[k].pdu = tags'[1][k].pdu /\ tags'[1][k].pdu <= taken
    <3> SUFFICES ASSUME NEW k \in 1 .. n + 1
                 PROVE  built'[k].pdu = tags'[1][k].pdu /\ tags'[1][k].pdu <= taken
      OBVIOUS
    <3>1. CASE k = n + 1
      BY <1>6, <1>9, <1>10, <1>11, <1>12, <3>1
    <3>2. CASE k \in 1 .. n
      <4>1. built[k].pdu = tags[1][k].pdu
        BY <1>1, <1>5, <3>2 DEF TagsInv
      <4>2. tags[1][k].pdu <= taken
        BY <1>1, <1>5, <3>2 DEF TagsInv
      <4> QED
        BY <1>9, <1>11, <3>2, <4>1, <4>2
    <3> QED
      BY <1>15, <3>1, <3>2
  <2>2. ASSUME NEW k \in 1 .. n + 1, k < n + 1
        PROVE  tags'[1][k + 1].at = tags'[1][k].at + tags'[1][k].len
    <3>1. k \in 1 .. n
      BY <1>15, <2>2
    <3>2. CASE k = n
      BY <1>9, <1>12, <1>14, <3>1, <3>2
    <3>3. CASE k < n
      <4>1. k + 1 \in 1 .. n
        BY <1>5, <3>1, <3>3
      <4> QED
        BY <1>1, <1>5, <1>9, <3>1, <3>3, <4>1 DEF TagsInv
    <3> QED
      BY <1>5, <3>1, <3>2, <3>3
  <2>3. ASSUME NEW j \in 1 .. n + 1, NEW k \in 1 .. n + 1, j < k
        PROVE  /\ tags'[1][j].at + tags'[1][j].len <= tags'[1][k].at
               /\ tags'[1][j].pdu < tags'[1][k].pdu
    <3>1. j \in 1 .. n
      BY <1>5, <2>3
    <3>2. CASE k = n + 1
      BY <1>9, <1>12, <1>14, <3>1, <3>2
    <3>3. CASE k \in 1 .. n
      BY <1>1, <1>5, <1>9, <2>3, <3>1, <3>3 DEF TagsInv
    <3> QED
      BY <1>15, <3>2, <3>3
  <2> QED
    BY <1>4, <1>9, <1>11, <2>1, <2>2, <2>3 DEF TagsInv
<1>19. ContentInv'
  <2> SUFFICES ASSUME NEW ch \in Outputs, NEW k \in 1 .. n + 1
               PROVE  Content(out[ch], tags'[1][k], ch, built'[k].params)
    BY <1>4, <1>9 DEF ContentInv
  <2>1. CASE k \in 1 .. n
    BY <1>1, <1>5, <1>9, <1>11, <2>1 DEF ContentInv
  <2>2. CASE k = n + 1
    <3>1. Len(out[ch]) = L
      BY <1>1, <1>5 DEF Same
    <3>2. \A i \in L + 1 .. L : FALSE
      BY <1>5
    <3> QED
      BY <1>9, <1>12, <2>2, <3>1, <3>2 DEF Content
  <2> QED
    BY <1>15, <2>1, <2>2
<1>20. ProgressInv'
  <2>1. ant' = [ch \in Outputs |-> [pdu |-> taken, kind |-> KindOf(ch, params), size |-> size]]
    <3>1. \A ch \in Outputs :
             (IF ch = 1 THEN [pdu |-> taken, kind |-> "stream", size |-> size] ELSE Second(size))
                 = [pdu |-> taken, kind |-> KindOf(ch, params), size |-> size]
      BY DEF Second, KindOf
    <3> QED
      BY <1>3, <3>1
  <2>2. ant'[1].size = size
    BY <2>1, OneOutput
  <2>3. ~Idle'
    BY <1>6, <2>2 DEF Idle
  <2>4. /\ tags'[1][n + 1].pdu = taken /\ tags'[1][n + 1].len = size
        /\ built'[n + 1].params = params
    BY <1>9, <1>10, <1>11, <1>12
  <2>5. Len(out'[1]) = tags'[1][n + 1].at + offset' /\ offset' < tags'[1][n + 1].len
    BY <1>3, <1>4, <1>5, <1>6, <1>9, <1>12
  <2>6. n + 1 > 0
    BY <1>5
  <2>7. nread' >= 0 => FALSE
    BY <1>4
  <2> QED
    BY <1>9, <2>1, <2>3, <2>4, <2>5, <2>6, <2>7 DEF ProgressInv
<1>21. ReadInv'
  <2>1. DOMAIN built' = 1 .. n + 1 /\ DOMAIN built = 1 .. n
    BY <1>1, <1>5, <1>11, LenProperties DEF BuilderTypes
  <2>2. \A f \in Params : \E c \in inForce : params[f] = c[f]
    <3> SUFFICES ASSUME NEW f \in Params PROVE \E c \in inForce : params[f] = c[f]
      OBVIOUS
    <3>1. PICK i \in 1 .. 4 : ReadOrder[i] = f
      BY ReadsAll
    <3> QED
      BY <1>1, <1>2, <3>1 DEF ReadInv
  <2>3. BuiltAsConfigured'
    <3> SUFFICES ASSUME NEW k \in 1 .. n + 1, NEW f \in Params
                 PROVE  \E c \in built'[k].inForce : built'[k].params[f] = c[f]
      BY <2>1 DEF BuiltAsConfigured
    <3>1. CASE k = n + 1
      BY <1>10, <1>11, <2>2, <3>1
    <3>2. CASE k \in 1 .. n
      BY <1>1, <1>11, <2>1, <3>2 DEF ReadInv, BuiltAsConfigured
    <3> QED
      BY <1>15, <3>1, <3>2
  <2> QED
    BY <1>4, <2>3 DEF ReadInv
<1> QED
  BY <1>16, <1>17, <1>18, <1>19, <1>20, <1>21 DEF BuilderInv, OutInv

LEMMA CopyKeeps ==
    ASSUME BuilderInv, NEW noutput \in Nat \ {0}, Copy(noutput)
    PROVE  BuilderInv'
<1>1. BuilderTypes /\ Same /\ TagsInv /\ ContentInv /\ ProgressInv /\ ReadInv
  BY DEF BuilderInv, OutInv
<1>2. ~Idle /\ nread = -1
  <2>1. ~Idle
    BY DEF Copy
  <2> QED
    BY <1>1, <2>1 DEF ProgressInv, BuilderTypes
<1>3. UNCHANGED <<taken, config, nread, params, inForce, tags, built>>
  BY DEF Copy
<1>4. tags[1] \in Seq(Tags) /\ \A ch \in Outputs : out[ch] \in Seq(Items)
  BY <1>1, OneOutput DEF BuilderTypes
<1>5. PICK n \in Nat : n = Len(tags[1]) /\ n \in 1 .. n
  <2>1. Len(tags[1]) \in Nat
    BY <1>4, LenProperties
  <2> QED
    BY <1>1, <1>2, <2>1 DEF ProgressInv
<1>6. PICK t \in Tags : t = tags[1][n]
  BY <1>4, <1>5, ElementOfSeq
<1> DEFINE p == built[n].params
<1>7. /\ offset \in Nat /\ offset < t.len /\ t.len \in Nat /\ t.at \in Nat /\ t.pdu \in Nat
      /\ ant = [ch \in Outputs |-> [pdu |-> t.pdu, kind |-> KindOf(ch, p), size |-> t.len]]
  BY <1>1, <1>2, <1>5, <1>6 DEF ProgressInv, BuilderTypes, Tags
<1> HIDE DEF p
<1>8. ant[1].size = t.len
  BY <1>7, OneOutput
<1> DEFINE left == t.len - offset
           m == IF noutput < left THEN noutput ELSE left
<1>9. m \in Nat /\ m > 0 /\ offset + m <= t.len
  BY <1>7
<1> DEFINE item(ch, i) == [pdu |-> t.pdu, kind |-> KindOf(ch, p), index |-> offset + i]
<1>10. /\ out' = [ch \in Outputs |-> out[ch] \o [i \in 1 .. m |-> item(ch, i)]]
       /\ IF offset + m = t.len THEN ant' = [ch \in Outputs |-> NoSamples] /\ offset' = 0
                                ELSE offset' = offset + m /\ UNCHANGED ant
  <2>1. \A ch \in Outputs : ant[ch].pdu = t.pdu /\ ant[ch].kind = KindOf(ch, p)
    BY <1>7
  <2>2. out' = [ch \in Outputs |->
                  out[ch] \o [i \in 1 .. m |-> [pdu |-> ant[ch].pdu, kind |-> ant[ch].kind,
                                                index |-> offset + i]]]
    BY <1>8 DEF Copy
  <2>3. \A ch \in Outputs :
           [i \in 1 .. m |-> [pdu |-> ant[ch].pdu, kind |-> ant[ch].kind, index |-> offset + i]]
               = [i \in 1 .. m |-> item(ch, i)]
    BY <2>1
  <2>4. out' = [ch \in Outputs |-> out[ch] \o [i \in 1 .. m |-> item(ch, i)]]
    BY <2>2, <2>3
  <2>5. IF offset + m = t.len THEN ant' = [ch \in Outputs |-> NoSamples] /\ offset' = 0
                              ELSE offset' = offset + m /\ UNCHANGED ant
    BY <1>8 DEF Copy, Finished
  <2> QED
    BY <2>4, <2>5
<1> HIDE DEF m, left
<1>11. ASSUME NEW ch \in Outputs
       PROVE  /\ out'[ch] \in Seq(Items) /\ Len(out[ch]) = t.at + offset
              /\ Len(out'[ch]) = t.at + offset + m
              /\ \A i \in 1 .. t.at + offset : out'[ch][i] = out[ch][i]
              /\ \A i \in 1 .. m : out'[ch][t.at + offset + i] = item(ch, i)
  <2> DEFINE r == [i \in 1 .. m |-> item(ch, i)]
  <2>1. r \in [1 .. m -> Items]
    <3>1. KindOf(ch, p) \in Kinds
      BY DEF KindOf, Kinds
    <3> QED
      BY <1>7, <3>1 DEF Items
  <2>2. \A i \in 1 .. m : r[i] = item(ch, i)
    OBVIOUS
  <2> HIDE DEF r
  <2>3. out'[ch] = out[ch] \o r
    BY <1>10 DEF r
  <2>4. Len(out[ch]) = t.at + offset
    BY <1>1, <1>2, <1>5, <1>6 DEF Same, ProgressInv
  <2>5. PICK s \in Seq(Items), k \in Nat : s = out[ch] /\ k = m
    BY <1>4, <1>9
  <2>6. /\ s \o r \in Seq(Items) /\ Len(s \o r) = Len(s) + k
        /\ \A i \in 1 .. Len(s) : (s \o r)[i] = s[i]
        /\ \A i \in 1 .. k : (s \o r)[Len(s) + i] = r[i]
    <3>1. r \in [1 .. k -> Items]
      <4>1. k = m
        BY <2>5
      <4> QED
        BY <2>1, <4>1, Zenon
    <3> QED
      BY <3>1, CopiedTo, SMTT(30)
  <2> HIDE DEF item
  <2> QED
    BY <2>2, <2>3, <2>4, <2>5, <2>6
<1>12. BuilderTypes'
  <2>1. out' \in [Outputs -> Seq(Items)]
    BY <1>10, <1>11
  <2>2. offset' \in Nat
    BY <1>7, <1>9, <1>10
  <2> QED
    BY <1>1, <1>3, <2>1, <2>2 DEF BuilderTypes
<1>13. Same'
  BY <1>1, <1>3, <1>11, OneOutput DEF Same
<1>14. TagsInv'
  BY <1>1, <1>3 DEF TagsInv
<1>15. ContentInv'
  <2> SUFFICES ASSUME NEW ch \in Outputs, NEW k \in 1 .. n,
                      NEW i \in tags[1][k].at + 1 .. Len(out'[ch]),
                      i <= tags[1][k].at + tags[1][k].len
               PROVE  out'[ch][i] = [pdu |-> tags[1][k].pdu, index |-> i - tags[1][k].at,
                                     kind |-> KindOf(ch, built[k].params)]
    BY <1>3, <1>5 DEF ContentInv, Content
  <2>0. tags[1][k] \in Tags
    BY <1>4, <1>5, ElementOfSeq
  <2>1. PICK u \in Tags : u = tags[1][k] /\ u.at \in Nat /\ u.len \in Nat
    BY <2>0 DEF Tags
  <2>2. i \in Nat /\ i >= 1 /\ i <= t.at + offset + m /\ i > u.at
    <3>1. i \in u.at + 1 .. t.at + offset + m
      BY <1>11, <2>1
    <3>2. t.at + offset + m \in Nat
      BY <1>7, <1>9
    <3> QED
      BY <2>1, <3>1, <3>2
  <2>3. CASE i <= t.at + offset
    <3>1. i \in 1 .. t.at + offset /\ i \in u.at + 1 .. Len(out[ch])
      BY <1>7, <1>11, <2>1, <2>2, <2>3
    <3>2. out[ch][i] = [pdu |-> tags[1][k].pdu, index |-> i - tags[1][k].at,
                        kind |-> KindOf(ch, built[k].params)]
      BY <1>1, <1>5, <2>1, <3>1 DEF ContentInv, Content
    <3> QED
      BY <1>11, <3>1, <3>2
  <2>4. CASE i > t.at + offset
    <3>1. k = n
      <4>1. SUFFICES ASSUME k < n PROVE FALSE
        BY <1>5
      <4>2. u.at + u.len <= t.at
        BY <1>1, <1>5, <1>6, <2>1, <4>1 DEF TagsInv
      <4> QED
        BY <1>7, <2>1, <2>2, <2>4, <4>2, SMTT(60)
    <3>2. PICK j \in 1 .. m : i = t.at + offset + j
      <4>1. i - (t.at + offset) \in 1 .. m /\ i = t.at + offset + (i - (t.at + offset))
        BY <1>7, <1>9, <2>2, <2>4
      <4> QED
        BY <4>1
    <3>3. out'[ch][i] = item(ch, j)
      BY <1>11, <3>2
    <3>4. i - t.at = offset + j
      BY <1>7, <3>2
    <3> QED
      BY <1>6, <3>1, <3>3, <3>4 DEF p
  <2> QED
    BY <1>7, <2>2, <2>3, <2>4
<1>16. ProgressInv'
  <2>1. Len(out'[1]) = t.at + offset + m /\ n > 0
    BY <1>5, <1>11, OneOutput
  <2>2. CASE offset + m = t.len
    <3>1. ant'[1].size = 0
      BY <1>10, <2>2, OneOutput DEF NoSamples
    <3>2. Idle'
      BY <3>1 DEF Idle
    <3>3. Len(out'[1]) = t.at + t.len
      BY <1>7, <1>9, <2>1, <2>2
    <3> QED
      BY <1>2, <1>3, <1>5, <1>6, <2>1, <3>2, <3>3 DEF ProgressInv
  <2>3. CASE offset + m # t.len
    <3>1. offset' = offset + m /\ ant' = ant
      BY <1>10, <2>3
    <3>2. ~Idle' /\ nread' = -1
      BY <1>2, <1>3, <3>1 DEF Idle
    <3>3. offset' < t.len /\ Len(out'[1]) = t.at + offset'
      BY <1>7, <1>9, <2>1, <2>3, <3>1
    <3>4. ant = [ch \in Outputs |-> [pdu |-> t.pdu, kind |-> KindOf(ch, built[n].params),
                                     size |-> t.len]]
      BY <1>7 DEF p
    <3> QED
      BY <1>3, <1>5, <1>6, <2>1, <3>1, <3>2, <3>3, <3>4 DEF ProgressInv
  <2> QED
    BY <2>2, <2>3
<1>17. ReadInv'
  BY <1>1, <1>3 DEF ReadInv, BuiltAsConfigured
<1> QED
  BY <1>12, <1>13, <1>14, <1>15, <1>16, <1>17 DEF BuilderInv, OutInv

-----------------------------------------------------------------------------
(* In every reachable state the outputs hold the frames that were announced *)
(* and as much of the last as its offset says, and the parameters that were *)
(* read come from configurations of the time.                               *)
THEOREM BuilderInductive == Spec => []BuilderInv
<1>1. Init => BuilderInv
  BY InitInv
<1>2. BuilderInv /\ [Next]_vars => BuilderInv'
  <2> SUFFICES ASSUME BuilderInv, [Next]_vars PROVE BuilderInv'
    OBVIOUS
  <2>1. CASE Post \/ Set
    BY <2>1, OutsideKeeps
  <2>2. CASE Take
    BY <2>2, TakeKeeps
  <2>3. CASE Read
    BY <2>3, ReadKeeps
  <2>4. CASE Build
    BY <2>4, BuildKeeps, DropKeeps
  <2>5. ASSUME NEW size \in Sizes, NEW noutput \in 1 .. size, Copy(noutput)
        PROVE  BuilderInv'
    <3>1. noutput \in Nat \ {0}
      BY BuilderAssumption
    <3> QED
      BY <2>5, <3>1, CopyKeeps
  <2>6. CASE UNCHANGED vars
    <3>1. UNCHANGED <<taken, config, nread, params, inForce, ant, offset, out, tags, built>>
      BY <2>6 DEF vars
    <3> QED
      BY <3>1 DEF BuilderInv, OutInv, BuilderTypes, Same, TagsInv, ContentInv, Content,
                  ProgressInv, Idle, ReadInv, BuiltAsConfigured
  <2> QED
    BY <2>1, <2>2, <2>3, <2>4, <2>5, <2>6 DEF Next, Work
<1> QED
  BY <1>1, <1>2, PTL DEF Spec

(* Both outputs carry the same frames at the same items, in the order of    *)
(* the PDUs, and beside a frame of one stream the other antenna is silent.  *)
THEOREM AntennasStayTogether == Spec => []AntennasTogether
<1>1. BuilderInv => AntennasTogether
  <2> SUFFICES ASSUME BuilderInv, NEW ch \in Outputs
               PROVE  /\ tags[ch] = tags[1] /\ Len(out[ch]) = Len(out[1])
                      /\ Len(tags[ch]) = Len(built)
                      /\ \A k \in DOMAIN tags[ch] :
                            LET tag == tags[ch][k]
                                items == tag.at + 1 .. Len(out[ch])
                                rate == built[k].params
                            IN  /\ tag.pdu = built[k].pdu
                                /\ k < Len(tags[ch]) =>
                                      /\ tags[ch][k + 1].at = tag.at + tag.len
                                      /\ tags[ch][k + 1].pdu > tag.pdu
                                /\ \A i \in items : i <= tag.at + tag.len =>
                                      out[ch][i] = [pdu |-> tag.pdu, index |-> i - tag.at,
                                          kind |-> IF ch = 1 \/ Mimo(rate) THEN "stream"
                                                                         ELSE "zeros"]
    BY DEF AntennasTogether
  <2>1. BuilderTypes /\ Same /\ TagsInv /\ ContentInv
    BY DEF BuilderInv, OutInv
  <2>2. tags[ch] = tags[1] /\ Len(out[ch]) = Len(out[1]) /\ Len(tags[ch]) = Len(built)
    BY <2>1 DEF Same, TagsInv
  <2>3. tags[1] \in Seq(Tags)
    BY <2>1, OneOutput DEF BuilderTypes
  <2>4. DOMAIN tags[1] = 1 .. Len(tags[1]) /\ Len(tags[1]) \in Nat
    BY <2>3, LenProperties
  <2>5. ASSUME NEW k \in 1 .. Len(tags[1])
        PROVE  /\ tags[1][k].pdu = built[k].pdu
               /\ k < Len(tags[1]) => /\ tags[1][k + 1].at = tags[1][k].at + tags[1][k].len
                                      /\ tags[1][k + 1].pdu > tags[1][k].pdu
               /\ Content(out[ch], tags[1][k], ch, built[k].params)
    <3>1. k < Len(tags[1]) => k + 1 \in 1 .. Len(tags[1]) /\ k < k + 1
      BY <2>4
    <3>2. \A j \in 1 .. Len(tags[1]) : tags[1][j].pdu \in Nat
      <4>1. \A j \in 1 .. Len(tags[1]) : tags[1][j] \in Tags
        BY <2>3, ElementOfSeq
      <4> QED
        BY <4>1 DEF Tags
    <3> QED
      BY <2>1, <3>1, <3>2 DEF TagsInv, ContentInv
  <2> QED
    BY <2>2, <2>4, <2>5 DEF Content, KindOf
<1> QED
  BY <1>1, BuilderInductive, PTL

(* Every parameter that a frame was built with was in force after its PDU   *)
(* left the queue, although nothing keeps the setters out while the four    *)
(* are read.                                                                *)
THEOREM ParametersOfTheTime == Spec => []BuiltAsConfigured
<1>1. BuilderInv => BuiltAsConfigured
  BY DEF BuilderInv, ReadInv
<1> QED
  BY <1>1, BuilderInductive, PTL
=============================================================================
