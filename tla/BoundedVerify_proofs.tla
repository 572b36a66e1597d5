------------------------ MODULE BoundedVerify_proofs ------------------------
(***************************************************************************)
(* A bounded verification stays below its ceiling, also while it decodes,  *)
(* refuses no string of the library's own, and the two decoders agree, for *)
(* every string, every ceiling and every bound of the machine.             *)
(***************************************************************************)
EXTENDS BoundedVerify, WellFoundedInduction, Numbers, TLAPS

LEMMA Division ==
  ASSUME NEW a \in Int, NEW b \in Nat \ {0}
  PROVE  /\ a \div b \in Int
         /\ (a \div b) * b <= a
         /\ a < (a \div b) * b + b
  BY SMT

LEMMA DivisionOfNat ==
  ASSUME NEW a \in Nat, NEW b \in Nat \ {0}
  PROVE  a \div b \in Nat
  BY SMT

LEMMA NoWrap ==
  ASSUME NEW a \in Nat, a < Word
  PROVE  a % Word = a
  BY ParamsAssumption, SMT

-----------------------------------------------------------------------------
(* Parameters *)

\* What BuildError says of the parameters it accepts.
LEMMA BuiltParams ==
  ASSUME NEW p \in Params, BuildError(p) = "none"
  PROVE  /\ p.tag \in Nat /\ p.tag >= MinOutLen
         /\ p.t \in Nat /\ p.t >= 1
         /\ p.lanes \in 1 .. MaxLanes
         /\ p.threads \in 1 .. MaxLanes
         /\ p.m \in Nat /\ p.m < Word
         /\ MinMemory * p.lanes <= p.m
  <1>1. ValidateInputs(p.tag, MinSaltLen, 0, p.m, p.t, p.lanes, p.threads) = "none"
    BY DEF BuildError
  <1>2. /\ p.tag \in U32 /\ p.t \in U32 /\ p.m \in U32 /\ p.lanes \in U32 /\ p.threads \in U32
    BY DEF Params
  <1>3. /\ ~(p.tag < MinOutLen) /\ ~(p.t < 1)
        /\ ~(p.lanes < 1) /\ ~(p.lanes > MaxLanes)
        /\ ~(p.threads < 1) /\ ~(p.threads > MaxLanes)
        /\ ~(p.m < (MinMemory * p.lanes) % Word)
    BY <1>1 DEF ValidateInputs
  <1>4. p.lanes \in 1 .. MaxLanes /\ p.threads \in 1 .. MaxLanes
    BY <1>2, <1>3, ParamsAssumption, SMT DEF U32
  <1>5. MinMemory * p.lanes \in Nat /\ MinMemory * p.lanes < Word
    BY <1>4, ParamsAssumption, SMT DEF MinMemory, SyncPoints
  <1>6. (MinMemory * p.lanes) % Word = MinMemory * p.lanes
    BY <1>5, NoWrap
  <1>7. MinMemory * p.lanes <= p.m
    BY <1>2, <1>3, <1>5, <1>6, SMT DEF U32
  <1>8. p.tag \in Nat /\ p.tag >= MinOutLen /\ p.t \in Nat /\ p.t >= 1
    BY <1>2, <1>3, ParamsAssumption, SMT DEF U32, MinOutLen
  <1>9. p.m \in Nat /\ p.m < Word
    BY <1>2, ParamsAssumption, SMT DEF U32
  <1> QED  BY <1>4, <1>7, <1>8, <1>9

\* The layout of accepted parameters: no product of memory_layout overflows, a
\* segment has the two blocks index_alpha needs, and the matrix is no larger than
\* the memory that was asked for (the comment on Params::memory_layout).
THEOREM LayoutFits ==
  ASSUME NEW p \in Params, BuildError(p) = "none"
  PROVE  /\ MinBlocks(p) < Word
         /\ SegmentLength(p) \in Nat /\ SegmentLength(p) >= 2
         /\ MemoryBlocks(p) \in Nat /\ MemoryBlocks(p) <= p.m
  <1> DEFINE d == p.lanes * SyncPoints
             q == p.m \div d
  <1>1. p.lanes \in 1 .. MaxLanes /\ p.m \in Nat /\ p.m < Word /\ 8 * p.lanes <= p.m
    BY BuiltParams DEF MinMemory, SyncPoints
  <1>2. d \in Nat \ {0} /\ 2 * d <= p.m
    BY <1>1, ParamsAssumption, SMT DEF SyncPoints
  <1>3. MinBlocks(p) = 8 * p.lanes /\ BlocksAsked(p) = p.m
    BY <1>1, ParamsAssumption, SMT DEF MinBlocks, BlocksAsked, SyncPoints
  <1>4. MinBlocks(p) < Word
    BY <1>1, <1>3, ParamsAssumption, SMT
  <1>5. SegmentLength(p) = q /\ MemoryBlocks(p) = q * d
    BY <1>3 DEF SegmentLength, MemoryBlocks
  <1> HIDE DEF d
  <1>6. q \in Int /\ q * d <= p.m /\ p.m < q * d + d
    <2>1. p.m \in Int
      BY <1>1, SMT
    <2> QED  BY <2>1, <1>2, Division
  <1>7. q \in Nat
    BY <1>1, <1>2, DivisionOfNat
  <1> HIDE DEF q
  <1>8. q >= 2
    <2>1. SUFFICES ASSUME q < 2  PROVE FALSE
      BY <1>7, SMT
    <2>2. CASE q = 0
      <3>1. q * d = 0
        BY <2>2, <1>2, SMT
      <3> QED  BY <3>1, <1>1, <1>2, <1>6, SMT
    <2>3. CASE q = 1
      <3>1. q * d = d
        BY <2>3, <1>2, SMT
      <3> QED  BY <3>1, <1>1, <1>2, <1>6, SMT
    <2> QED  BY <2>1, <2>2, <2>3, <1>7, SMT
  <1>9. q * d \in Nat
    BY <1>2, <1>7, SMT
  <1> QED  BY <1>4, <1>5, <1>6, <1>7, <1>8, <1>9

\* Clamping the threads of accepted parameters keeps them acceptable.
LEMMA ClampBuilds ==
  ASSUME NEW p \in Params, BuildError(p) = "none", NEW n \in 1 .. MaxLanes
  PROVE  LET c == [p EXCEPT !.threads = n]
         IN  c \in Params /\ BuildError(c) = "none"
  <1> DEFINE c == [p EXCEPT !.threads = n]
  <1>1. /\ c.m = p.m /\ c.t = p.t /\ c.lanes = p.lanes /\ c.tag = p.tag
        /\ c.threads = n
    BY DEF Params
  <1>2. n \in U32
    BY ParamsAssumption, SMT DEF U32, MinMemory, SyncPoints
  <1>3. c \in Params
    BY <1>2 DEF Params
  <1>4. ~(n < 1) /\ ~(n > MaxLanes)
    BY ParamsAssumption, SMT
  <1>5. BuildError(c) = "none"
    BY <1>1, <1>4 DEF BuildError, ValidateInputs
  <1> QED  BY <1>3, <1>5

-----------------------------------------------------------------------------
(* Decoding *)

\* What decode_string accepts is built from the three fields.
LEMMA StrictDecodes ==
  ASSUME NEW s \in Text, NEW name \in Names, Decodes(DecodeString(s, name))
  PROVE  LET p == StrictCosts(s)
         IN  /\ StrictHead(s, name)
             /\ s.salt \in Nat /\ s.tag \in Nat /\ ~s.junk
             /\ s.version = Absent \/ s.version \in Versions
             /\ ValidateInputs(s.tag, s.salt, 0, p.m, p.t, p.lanes, p.threads) = "none"
             /\ BuildError(p) = "none"
             /\ p \in Params
             /\ DecodeString(s, name) = Decoded(name, s.version, p, s.salt, 0)
             /\ DecodeString(s, name).params = p
             /\ DecodeString(s, name) \in Decodings
  <1> DEFINE p == StrictCosts(s)
             r == DecodeString(s, name)
             v == ValidateInputs(s.tag, s.salt, 0, p.m, p.t, p.lanes, p.threads)
  <1>1. r.error = "none"
    BY DEF Decodes
  <1>2. StrictHead(s, name) /\ s.salt # Malformed /\ s.tag # Malformed
    BY <1>1 DEF DecodeString, Fail
  <1>3. v = "none"
    <2>1. v # "none" => r = Fail(v)
      BY <1>2 DEF DecodeString
    <2> QED  BY <1>1, <2>1 DEF Fail
  <1>4. ~s.junk
    <2>1. s.junk => r = Fail("DecodingFail")
      BY <1>2, <1>3 DEF DecodeString
    <2> QED  BY <1>1, <2>1 DEF Fail
  <1>5. r = Decoded(name, s.version, p, s.salt, 0)
    BY <1>2, <1>3, <1>4 DEF DecodeString
  <1>6. s.salt \in Nat /\ s.tag \in Nat
    BY <1>2 DEF Text
  <1> HIDE DEF p, r, v
  <1>7. s.version = Absent \/ s.version \in Versions
    BY <1>1, <1>5 DEF Decoded, Fail
  <1>8. BuildError(p) = "none"
    <2>1. BuildError(p) # "none" => r = Fail(BuildError(p))
      BY <1>5, <1>7 DEF Decoded
    <2> QED  BY <1>1, <2>1 DEF Fail
  <1>9. r = [error |-> "none", name |-> name,
             version |-> IF s.version = Absent THEN 16 ELSE s.version,
             params |-> p, salt |-> s.salt, ad |-> 0]
    BY <1>5, <1>7, <1>8 DEF Decoded
  <1>10. p \in Params
    <2>1. /\ s.fields[1].value \in U32 /\ s.fields[2].value \in U32
          /\ s.fields[3].value \in U32
      BY <1>2, SMT DEF StrictHead, StrictFields, Numeral
    <2>2. s.tag < Word
      <3>1. p.tag = s.tag
        BY DEF p, StrictCosts, CostParams
      <3>2. ~(p.tag >= Word)
        BY <1>8 DEF BuildError
      <3> QED  BY <3>1, <3>2, <1>6, ParamsAssumption, SMT
    <2>3. s.tag \in U32
      BY <2>2, <1>6, ParamsAssumption, SMT DEF U32
    <2> QED  BY <2>1, <2>3 DEF p, StrictCosts, CostParams, Params
  <1>11. r \in Decodings
    <2>1. (IF s.version = Absent THEN 16 ELSE s.version) \in Versions
      BY <1>7 DEF Versions
    <2> QED  BY <1>6, <1>9, <1>10, <2>1 DEF Decodings
  <1>12. r.params = p
    BY <1>9
  <1> QED  BY <1>2, <1>3, <1>4, <1>5, <1>6, <1>7, <1>8, <1>10, <1>11, <1>12 DEF p, r, v
\* In the strict order each cost occurs once, so decode_phc takes the same value.
LEMMA OneOfEach ==
  ASSUME NEW fields, Len(fields) = 3, fields \in Seq(Field),
         \A i \in 1 .. 3 : fields[i].key = <<"m", "t", "p">>[i]
  PROVE  /\ With(fields, "m") = {1} /\ With(fields, "t") = {2} /\ With(fields, "p") = {3}
         /\ With(fields, "data") = {}
         /\ LastValue(fields, "m", Absent) = fields[1].value
         /\ LastValue(fields, "t", Absent) = fields[2].value
         /\ LastValue(fields, "p", Absent) = fields[3].value
         /\ LastValue(fields, "data", 0) = 0
  <1>1. DOMAIN fields = 1 .. 3
    BY SMT
  <1>2. fields[1].key = "m" /\ fields[2].key = "t" /\ fields[3].key = "p"
    <2>1. /\ fields[1].key = <<"m", "t", "p">>[1]
          /\ fields[2].key = <<"m", "t", "p">>[2]
          /\ fields[3].key = <<"m", "t", "p">>[3]
      BY SMT
    <2> QED  BY <2>1
  <1>3. /\ With(fields, "m") = {1} /\ With(fields, "t") = {2} /\ With(fields, "p") = {3}
        /\ With(fields, "data") = {}
    BY <1>1, <1>2, SMT DEF With
  <1>4. ASSUME NEW i \in Int, NEW S, S = {i}
        PROVE  (CHOOSE k \in S : \A j \in S : j <= k) = i
    BY <1>4, SMT
  <1>5. /\ LastValue(fields, "m", Absent) = fields[1].value
        /\ LastValue(fields, "t", Absent) = fields[2].value
        /\ LastValue(fields, "p", Absent) = fields[3].value
    <2>1. /\ With(fields, "m") # {} /\ With(fields, "t") # {} /\ With(fields, "p") # {}
      BY <1>3
    <2>2. (CHOOSE k \in With(fields, "m") : \A j \in With(fields, "m") : j <= k) = 1
      BY <1>3, <1>4
    <2>3. (CHOOSE k \in With(fields, "t") : \A j \in With(fields, "t") : j <= k) = 2
      BY <1>3, <1>4
    <2>4. (CHOOSE k \in With(fields, "p") : \A j \in With(fields, "p") : j <= k) = 3
      BY <1>3, <1>4
    <2> QED  BY <2>1, <2>2, <2>3, <2>4 DEF LastValue
  <1>6. LastValue(fields, "data", 0) = 0
    BY <1>3 DEF LastValue
  <1> QED  BY <1>3, <1>5, <1>6

\* The fields encode_string writes are read back by decode_string, unless the text is
\* too long.
LEMMA WrittenHead ==
  ASSUME NEW name, NEW version, version # Malformed, NEW p \in Params,
         NEW salt, NEW tag
  PROVE  LET s == EncodeString(name, version, p, salt, tag)
         IN  /\ StrictHead(s, name) = ~TooLong(s)
             /\ s.fields[1].value = p.m /\ s.fields[2].value = p.t
             /\ s.fields[3].value = p.lanes
             /\ s.salt = salt /\ s.tag = tag /\ s.version = version /\ ~s.junk
  <1> DEFINE s == EncodeString(name, version, p, salt, tag)
  <1>1. /\ s.name = name /\ s.salt = salt /\ s.tag = tag /\ s.version = version
        /\ ~s.junk
        /\ s.fields = << [key |-> "m", value |-> p.m], [key |-> "t", value |-> p.t],
                         [key |-> "p", value |-> p.lanes] >>
    BY DEF EncodeString
  <1> HIDE DEF s
  <1>2. /\ Len(s.fields) = 3
        /\ s.fields[1] = [key |-> "m", value |-> p.m]
        /\ s.fields[2] = [key |-> "t", value |-> p.t]
        /\ s.fields[3] = [key |-> "p", value |-> p.lanes]
    BY <1>1
  <1>3. p.m \in U32 /\ p.t \in U32 /\ p.lanes \in U32
    BY DEF Params
  <1>4. ASSUME NEW i \in 1 .. 3
        PROVE  s.fields[i].key = <<"m", "t", "p">>[i] /\ Numeral(s.fields[i].value)
    <2>1. i = 1 \/ i = 2 \/ i = 3
      BY SMT
    <2> QED  BY <1>2, <1>3, <2>1 DEF Numeral
  <1>5. StrictHead(s, name) = ~TooLong(s)
    BY <1>1, <1>2, <1>4 DEF StrictHead, StrictFields, TooLong
  <1> QED  BY <1>1, <1>2, <1>5 DEF s

\* Whatever decode_string accepts, decode_phc accepts with the same meaning.
LEMMA StrictIsPhc ==
  ASSUME NEW s \in Text, NEW name \in Names, Decodes(DecodeString(s, name))
  PROVE  DecodePhc(s) = DecodeString(s, name)
  <1> DEFINE p == StrictCosts(s)
  <1>1. /\ StrictHead(s, name)
        /\ s.salt \in Nat /\ s.tag \in Nat /\ ~s.junk
        /\ ValidateInputs(s.tag, s.salt, 0, p.m, p.t, p.lanes, p.threads) = "none"
        /\ DecodeString(s, name) = Decoded(name, s.version, p, s.salt, 0)
    BY StrictDecodes
  <1>2. s.fields \in Seq(Field)
    BY DEF Text
  <1>3. /\ s.name = name /\ s.version # Malformed /\ ~TooLong(s) /\ Len(s.fields) = 3
        /\ \A i \in 1 .. 3 : s.fields[i].key = <<"m", "t", "p">>[i]
        /\ \A i \in 1 .. 3 : Numeral(s.fields[i].value)
    BY <1>1 DEF StrictHead, StrictFields
  <1>4. /\ With(s.fields, "m") = {1} /\ With(s.fields, "t") = {2} /\ With(s.fields, "p") = {3}
        /\ LastValue(s.fields, "m", Absent) = s.fields[1].value
        /\ LastValue(s.fields, "t", Absent) = s.fields[2].value
        /\ LastValue(s.fields, "p", Absent) = s.fields[3].value
        /\ LastValue(s.fields, "data", 0) = 0
    BY <1>2, <1>3, OneOfEach
  <1>5. Detected(s.name) = s.name
    BY <1>3 DEF Names, Detected, IsPrefixName
  <1>6. FieldsParse(s.fields)
    <2>1. DOMAIN s.fields = 1 .. 3
      BY <1>2, <1>3, SMT
    <2>2. ASSUME NEW i \in DOMAIN s.fields
          PROVE  FieldParses(s.fields, i)
      <3>1. i = 1 \/ i = 2 \/ i = 3
        BY <2>1, SMT
      <3>2. s.fields[i].key \in {"m", "t", "p"}
        BY <1>3, <2>1, <3>1
      <3>3. Numeral(s.fields[i].value)
        BY <1>3, <2>1
      <3> QED  BY <3>2, <3>3 DEF FieldParses
    <2>3. \A key \in Costs : With(s.fields, key) # {}
      BY <1>4 DEF Costs
    <2> QED  BY <2>2, <2>3 DEF FieldsParse
  <1>7. s.salt # Malformed /\ s.tag # Malformed
    BY <1>1, SMT DEF Malformed
  <1>8. DecodePhc(s) = Decoded(s.name, s.version, p, s.salt, 0)
    BY <1>1, <1>3, <1>4, <1>5, <1>6, <1>7 DEF DecodePhc, StrictCosts
  <1> QED  BY <1>1, <1>3, <1>8
\* A non-empty set of positions of a sequence has a last one.
LEMMA LastOfKey ==
  ASSUME NEW n \in Nat, NEW D, D = 1 .. n, NEW S \in SUBSET D, S # {}
  PROVE  \E k \in S : \A j \in S : j <= k
  <1> DEFINE Back == {n - k : k \in S}
  <1>1. S \subseteq Int /\ \A k \in S : k <= n
    BY SMT
  <1>2. Back \subseteq Nat /\ Back # {}
    <2>1. \A k \in S : n - k \in Nat
      BY <1>1, SMT
    <2>2. PICK k \in S : TRUE
      OBVIOUS
    <2>3. n - k \in Back
      BY <2>2
    <2> QED  BY <2>1, <2>3
  <1>3. PICK x \in Back : \A y \in Back : <<y, x>> \notin OpToRel(<, Nat)
    BY <1>2, NatLessThanWellFounded, WFMin
  <1>4. \A y \in Back : ~(y < x)
    BY <1>2, <1>3 DEF OpToRel
  <1>5. PICK k \in S : x = n - k
    BY <1>3
  <1>6. ASSUME NEW j \in S  PROVE j <= k
    <2>1. n - j \in Back
      BY <1>6
    <2>2. ~(n - j < n - k)
      BY <2>1, <1>4, <1>5
    <2>3. j \in Int /\ k \in Int
      BY <1>1, <1>6
    <2> QED  BY <2>2, <2>3, SMT
  <1> QED  BY <1>6

\* What decode_phc accepts is built from the last field of each cost.
LEMMA PhcDecodes ==
  ASSUME NEW s \in Text, Decodes(DecodePhc(s))
  PROVE  LET r == DecodePhc(s)
         IN  /\ r = [error |-> "none", name |-> r.name, version |-> r.version,
                     params |-> r.params, salt |-> r.salt, ad |-> r.ad]
             /\ r.name = s.name /\ r.version \in Versions
             /\ r.params \in Params /\ BuildError(r.params) = "none"
             /\ r.params.threads = r.params.lanes
             /\ r.salt # Malformed /\ r.params.tag # Malformed
             /\ ValidateInputs(r.params.tag, r.salt, 0, r.params.m, r.params.t,
                               r.params.lanes, r.params.threads) = "none"
  <1> DEFINE r == DecodePhc(s)
             m == LastValue(s.fields, "m", Absent)
             t == LastValue(s.fields, "t", Absent)
             l == LastValue(s.fields, "p", Absent)
             ad == LastValue(s.fields, "data", 0)
             p == CostParams(m, t, l, s.tag)
             v == ValidateInputs(s.tag, s.salt, ad, p.m, p.t, p.lanes, p.threads)
  <1>1. r.error = "none"
    BY DEF Decodes
  <1>2. /\ s.version # Malformed /\ FieldsParse(s.fields)
        /\ s.salt # Malformed /\ s.tag # Malformed
    BY <1>1 DEF DecodePhc, Fail
  <1>3. ~(TooLong(s) \/ Detected(s.name) # s.name \/ s.version = Malformed \/ ~FieldsParse(s.fields)
           \/ s.salt = Malformed \/ s.tag = Malformed \/ s.junk)
    BY <1>1 DEF DecodePhc, Fail
  <1>4. r = IF v # "none" THEN Fail(v) ELSE Decoded(s.name, s.version, p, s.salt, ad)
    BY <1>3 DEF DecodePhc
  <1>5. \A key \in Costs : LastValue(s.fields, key, Absent) \in U32
    <2> TAKE key \in Costs
    <2>1. With(s.fields, key) # {} /\ With(s.fields, key) \subseteq DOMAIN s.fields
      BY <1>2 DEF FieldsParse, With
    <2>2. \A i \in With(s.fields, key) : s.fields[i].value \in U32
      BY <1>2 DEF FieldsParse, FieldParses, With, Numeral
    <2>3. PICK n \in Nat : DOMAIN s.fields = 1 .. n
      BY DEF Text
    <2>4. \E k \in With(s.fields, key) : \A j \in With(s.fields, key) : j <= k
      BY <2>1, <2>3, LastOfKey
    <2> QED  BY <2>1, <2>2, <2>4 DEF LastValue
  <1>6. m \in U32 /\ t \in U32 /\ l \in U32
    BY <1>5 DEF Costs
  <1> HIDE DEF r, m, t, l, ad, v
  <1>7. v = "none"
    BY <1>1, <1>4 DEF Fail
  <1>8. s.version = Absent \/ s.version \in Versions
    BY <1>1, <1>4, <1>7 DEF Decoded, Fail
  <1>9. BuildError(p) = "none"
    <2>1. BuildError(p) # "none" => r = Fail(BuildError(p))
      BY <1>4, <1>7, <1>8 DEF Decoded
    <2> QED  BY <1>1, <2>1 DEF Fail
  <1>10. r = [error |-> "none", name |-> s.name,
              version |-> IF s.version = Absent THEN 16 ELSE s.version,
              params |-> p, salt |-> s.salt, ad |-> ad]
    BY <1>4, <1>7, <1>8, <1>9 DEF Decoded
  <1>11. p = [m |-> m, t |-> t, lanes |-> l, threads |-> l, tag |-> s.tag]
    BY DEF CostParams
  <1>12. s.tag \in U32
    <2>1. p.tag = s.tag
      BY <1>11
    <2>2. ~(s.tag >= Word)
      BY <1>9, <2>1 DEF BuildError
    <2>3. s.tag \in Nat
      BY <1>2 DEF Text
    <2> QED  BY <2>2, <2>3, ParamsAssumption, SMT DEF U32
  <1>13. p \in Params
    BY <1>6, <1>11, <1>12 DEF Params
  <1>14. ValidateInputs(s.tag, s.salt, 0, p.m, p.t, p.lanes, p.threads) = "none"
    <2>1. ~(0 >= Word)
      BY ParamsAssumption, SMT DEF MinMemory, SyncPoints
    <2> QED  BY <1>7, <2>1 DEF v, ValidateInputs
  <1>15. r.version \in Versions
    BY <1>8, <1>10 DEF Versions
  <1>16. /\ r.name = s.name /\ r.params = p /\ r.salt = s.salt /\ p.tag = s.tag
         /\ p.threads = p.lanes
    BY <1>10, <1>11
  <1> HIDE DEF p
  <1>17. r = [error |-> "none", name |-> r.name, version |-> r.version,
              params |-> r.params, salt |-> r.salt, ad |-> r.ad]
    BY <1>10
  <1> QED  BY <1>2, <1>9, <1>13, <1>14, <1>15, <1>16, <1>17 DEF r

\* What decode_phc accepts means what the string written for it means, unless that
\* one is too long.
LEMMA PhcIsWritten ==
  ASSUME NEW s \in Text, Decodes(DecodePhc(s))
  PROVE  LET r == DecodePhc(s)
             w == EncodeString(r.name, r.version, r.params, r.salt, r.params.tag)
         IN  DecodeString(w, r.name) =
               IF TooLong(w) THEN Fail("DecodingFail") ELSE [r EXCEPT !.ad = 0]
  <1> DEFINE r == DecodePhc(s)
             w == EncodeString(r.name, r.version, r.params, r.salt, r.params.tag)
             p == StrictCosts(w)
  <1>1. /\ r = [error |-> "none", name |-> r.name, version |-> r.version,
                params |-> r.params, salt |-> r.salt, ad |-> r.ad]
        /\ r.version \in Versions
        /\ r.params \in Params /\ BuildError(r.params) = "none"
        /\ r.params.threads = r.params.lanes
        /\ r.salt # Malformed /\ r.params.tag # Malformed
        /\ ValidateInputs(r.params.tag, r.salt, 0, r.params.m, r.params.t,
                          r.params.lanes, r.params.threads) = "none"
    BY PhcDecodes
  <1> HIDE DEF r
  <1>2. r.version # Malformed /\ r.version # Absent
    BY <1>1, SMT DEF Versions, Malformed, Absent
  <1>3. /\ StrictHead(w, r.name) = ~TooLong(w)
        /\ w.fields[1].value = r.params.m /\ w.fields[2].value = r.params.t
        /\ w.fields[3].value = r.params.lanes
        /\ w.salt = r.salt /\ w.tag = r.params.tag /\ w.version = r.version /\ ~w.junk
    BY <1>1, <1>2, WrittenHead
  <1> HIDE DEF w
  <1>4. p = r.params
    <2>1. p = [m |-> r.params.m, t |-> r.params.t, lanes |-> r.params.lanes,
               threads |-> r.params.lanes, tag |-> r.params.tag]
      BY <1>3 DEF StrictCosts, CostParams
    <2> QED  BY <1>1, <2>1 DEF Params
  <1>5. CASE TooLong(w)
    <2>1. DecodeString(w, r.name) = Fail("DecodingFail")
      BY <1>3, <1>5 DEF DecodeString
    <2> QED  BY <1>5, <2>1 DEF r, w
  <1>6. CASE ~TooLong(w)
    <2>1. DecodeString(w, r.name) = Decoded(r.name, r.version, r.params, r.salt, 0)
      BY <1>1, <1>3, <1>4, <1>6 DEF DecodeString
    <2>2. Decoded(r.name, r.version, r.params, r.salt, 0)
            = [error |-> "none", name |-> r.name, version |-> r.version,
               params |-> r.params, salt |-> r.salt, ad |-> 0]
      BY <1>1, <1>2 DEF Decoded
    <2>3. [r EXCEPT !.ad = 0]
            = [error |-> "none", name |-> r.name, version |-> r.version,
               params |-> r.params, salt |-> r.salt, ad |-> 0]
      BY <1>1
    <2> QED  BY <1>6, <2>1, <2>2, <2>3 DEF r, w
  <1> QED  BY <1>5, <1>6
-----------------------------------------------------------------------------
(* The verification *)

CostsSpent == {"blocks", "passes", "lanes", "workers", "tag"}

\* What a ceiling bounds has been bounded before the hash runs.
Bounded(p) ==
  /\ p.tag <= ceiling.tag /\ p.m <= ceiling.m /\ p.t <= ceiling.t
  /\ p.lanes <= ceiling.lanes /\ p.threads <= ceiling.threads

\* The inductive invariant: nothing is spent on a hash before the costs have been
\* compared with the ceiling and the threads clamped.
IInv ==
  /\ BoundedVerifyTypeOK
  /\ encoded \in Texts
  /\ DOMAIN spent = DOMAIN Nothing
  /\ phase # "done" => \A k \in CostsSpent : spent[k] = 0
  /\ phase = "bounded" => Bounded(decoded.params)
  /\ WithinCeiling

LEMMA CeilingOK ==
  ASSUME ceiling \in Ceilings
  PROVE  /\ ceiling \in Params /\ BuildError(ceiling) = "none"
         /\ ceiling.m \in Nat /\ ceiling.t \in Nat /\ ceiling.tag \in Nat
         /\ ceiling.lanes \in 1 .. MaxLanes /\ ceiling.threads \in 1 .. MaxLanes
  <1>1. ceiling \in Params /\ BuildError(ceiling) = "none"
    BY BoundedVerifyAssumption
  <1> QED  BY <1>1, BuiltParams

LEMMA ReservesNat ==
  ASSUME NEW n \in Nat
  PROVE  Reserves(n) \in Nat
  <1>1. n \div 4 \in Nat
    BY SMT
  <1> QED  BY <1>1, SMT DEF Reserves

LEMMA Base64LenNat ==
  ASSUME NEW n \in Nat \cup {Malformed}
  PROVE  Base64Len(n) \in Nat
  <1>1. CASE n = Malformed
    BY <1>1 DEF Base64Len
  <1>2. CASE n # Malformed
    <2>1. n \in Nat
      BY <1>2
    <2>2. n \div 3 \in Nat /\ n % 3 \in Nat
      BY <2>1, SMT
    <2>3. B64Len(n) \in Nat
      BY <2>2, SMT DEF B64Len
    <2> QED  BY <1>2, <2>3 DEF Base64Len
  <1> QED  BY <1>1, <1>2

LEMMA DecodeBuffersNat ==
  ASSUME encoded \in Text
  PROVE  DecodeBuffers \in Nat
  <1> DEFINE junk == IF encoded.junk THEN 1 ELSE 0
  <1>1. Base64Len(encoded.salt) \in Nat /\ Base64Len(encoded.tag) \in Nat
    BY Base64LenNat DEF Text
  <1>2. /\ TailLen(encoded) = Base64Len(encoded.salt) + 1 + Base64Len(encoded.tag) + junk
        /\ junk \in Nat
    BY DEF TailLen
  <1>3. TailLen(encoded) \in Nat /\ TailLen(encoded) - Base64Len(encoded.salt) - 1 \in Nat
    BY <1>1, <1>2, SMT
  <1>4. /\ Reserves(TailLen(encoded)) \in Nat
        /\ Reserves(TailLen(encoded) - Base64Len(encoded.salt) - 1) \in Nat
    BY <1>3, ReservesNat
  <1> QED  BY <1>4, SMT DEF DecodeBuffers

LEMMA InitIInv == Init => IInv
  <1> SUFFICES ASSUME Init  PROVE IInv
    OBVIOUS
  <1>1. /\ encoded \in Texts /\ algorithm \in Names /\ ceiling \in Ceilings
        /\ phase = "called" /\ spent = Nothing
    BY DEF Init
  <1>2. encoded \in Text
    BY <1>1, BoundedVerifyAssumption
  <1>3. \A k \in DOMAIN Nothing : spent[k] = 0
    BY <1>1 DEF Nothing
  <1>4. BoundedVerifyTypeOK
    BY <1>1, <1>2, <1>3 DEF BoundedVerifyTypeOK
  <1>5. WithinCeiling
    <2>1. /\ spent.blocks = 0 /\ spent.passes = 0 /\ spent.lanes = 0
          /\ spent.workers = 0 /\ spent.tag = 0
      BY <1>1 DEF Nothing
    <2> QED  BY <1>1, <2>1, CeilingOK, SMT DEF WithinCeiling
  <1> QED  BY <1>1, <1>3, <1>4, <1>5 DEF IInv, CostsSpent, Nothing
\* A step that returns an error spends nothing.
LEMMA ErrorKeepsIInv ==
  ASSUME IInv, phase' = "done", UNCHANGED args, spent' = spent
  PROVE  IInv'
  <1>1. BoundedVerifyTypeOK'
    BY DEF IInv, BoundedVerifyTypeOK, args
  <1>2. WithinCeiling'
    BY DEF IInv, WithinCeiling, args
  <1> QED  BY <1>1, <1>2 DEF IInv, args

\* Decoding yields accepted parameters and reserves buffers only.
LEMMA DecodeKeepsIInv ==
  ASSUME IInv, Decode
  PROVE  IInv'
  <1>1. /\ encoded \in Text /\ encoded \in Texts /\ algorithm \in Names
        /\ ceiling \in Ceilings
        /\ DOMAIN spent = DOMAIN Nothing
        /\ \A k \in DOMAIN Nothing : spent[k] \in Nat
        /\ \A k \in CostsSpent : spent[k] = 0
    BY DEF IInv, BoundedVerifyTypeOK, Decode, PassGate
  <1>2. /\ decoded' = DecodeString(encoded, algorithm)
        /\ spent' = [spent EXCEPT !.buffers = DecodeBuffers]
        /\ UNCHANGED args
    BY DEF Decode
  <1>3. /\ DOMAIN spent' = DOMAIN Nothing
        /\ \A k \in CostsSpent : spent'[k] = 0
        /\ \A k \in DOMAIN Nothing : spent'[k] \in Nat
    BY <1>1, <1>2, DecodeBuffersNat DEF CostsSpent, Nothing
  <1>4. WithinCeiling'
    <2>1. /\ spent'.blocks = 0 /\ spent'.passes = 0 /\ spent'.lanes = 0
          /\ spent'.workers = 0 /\ spent'.tag = 0
      BY <1>3 DEF CostsSpent
    <2> QED  BY <1>1, <1>2, <2>1, CeilingOK, SMT DEF WithinCeiling, args
  <1>5. phase' \in {"decoded", "done"}
    BY DEF Decode, Returns
  <1>6. phase' = "decoded" =>
          /\ decoded' \in Decodings /\ BuildError(decoded'.params) = "none"
          /\ decoded'.params.threads = decoded'.params.lanes
    <2>1. SUFFICES ASSUME phase' = "decoded"
          PROVE  /\ decoded' \in Decodings /\ BuildError(decoded'.params) = "none"
                 /\ decoded'.params.threads = decoded'.params.lanes
      OBVIOUS
    <2>2. Decodes(DecodeString(encoded, algorithm))
      BY <1>2, <2>1 DEF Decode, Returns
    <2> DEFINE p == StrictCosts(encoded)
    <2>3. decoded' \in Decodings /\ decoded'.params = p /\ BuildError(p) = "none"
      BY <1>1, <1>2, <2>2, StrictDecodes
    <2>4. p.threads = p.lanes
      BY DEF StrictCosts, CostParams
    <2> QED  BY <2>3, <2>4
  <1>7. BoundedVerifyTypeOK'
    BY <1>1, <1>2, <1>3, <1>5, <1>6 DEF BoundedVerifyTypeOK, args
  <1> QED  BY <1>1, <1>2, <1>3, <1>4, <1>5, <1>7 DEF IInv, args

\* The comparisons and the clamp bound each cost.
LEMMA ClampKeepsIInv ==
  ASSUME IInv, ClampThreads
  PROVE  IInv'
  <1> DEFINE q == decoded.params
             p == [q EXCEPT !.threads = Clamped]
  <1>1. /\ phase = "decoded" /\ Excess = "none" /\ UNCHANGED args /\ spent' = spent
        /\ q \in Params /\ BuildError(q) = "none"
        /\ ceiling \in Ceilings
    BY DEF IInv, BoundedVerifyTypeOK, ClampThreads, Decodings
  <1>2. /\ ~(q.tag > ceiling.tag) /\ ~(q.m > ceiling.m) /\ ~(q.t > ceiling.t)
        /\ ~(q.lanes > ceiling.lanes)
    BY <1>1 DEF Excess
  <1>3. /\ ceiling.m \in Nat /\ ceiling.t \in Nat /\ ceiling.tag \in Nat
        /\ ceiling.lanes \in 1 .. MaxLanes /\ ceiling.threads \in 1 .. MaxLanes
    BY <1>1, CeilingOK
  <1>4. /\ q.m \in Nat /\ q.t \in Nat /\ q.tag \in Nat /\ q.lanes \in 1 .. MaxLanes
    BY <1>1, BuiltParams
  <1>5. Clamped \in 1 .. MaxLanes /\ Clamped <= ceiling.threads
    BY <1>3, <1>4, ParamsAssumption, SMT DEF Clamped
  <1>6. p \in Params /\ BuildError(p) = "none"
    BY <1>1, <1>5, ClampBuilds
  <1>7. phase' = "bounded" /\ decoded' = [decoded EXCEPT !.params = p]
    BY <1>6 DEF ClampThreads
  <1>8. decoded'.params = p /\ decoded' \in Decodings
    <2>1. decoded \in Decodings
      BY <1>1 DEF IInv, BoundedVerifyTypeOK
    <2> QED  BY <1>6, <1>7, <2>1 DEF Decodings
  <1>9. Bounded(decoded.params)'
    <2>1. /\ p.tag = q.tag /\ p.m = q.m /\ p.t = q.t /\ p.lanes = q.lanes
          /\ p.threads = Clamped
      BY <1>1 DEF Params
    <2>2. /\ q.tag <= ceiling.tag /\ q.m <= ceiling.m /\ q.t <= ceiling.t
          /\ q.lanes <= ceiling.lanes
      BY <1>2, <1>3, <1>4, ParamsAssumption, SMT
    <2> QED  BY <1>1, <1>5, <1>8, <2>1, <2>2 DEF Bounded, args
  <1>10. BoundedVerifyTypeOK'
    BY <1>1, <1>6, <1>7, <1>8 DEF IInv, BoundedVerifyTypeOK, args
  <1>11. WithinCeiling'
    BY <1>1 DEF IInv, WithinCeiling, args
  <1> QED  BY <1>1, <1>7, <1>9, <1>10, <1>11 DEF IInv, args

\* The hash takes what its parameters say, which is bounded.
LEMMA VerifyKeepsIInv ==
  ASSUME IInv, Verify
  PROVE  IInv'
  <1> DEFINE p == decoded.params
             v == ValidateInputs(p.tag, decoded.salt, 0, p.m, p.t, p.lanes, p.threads)
  <1>1. /\ phase = "bounded" /\ phase' = "done" /\ UNCHANGED args
        /\ p \in Params /\ BuildError(p) = "none" /\ Bounded(p)
        /\ ceiling \in Ceilings
    BY DEF IInv, BoundedVerifyTypeOK, Verify, Returns, Decodings
  <1>2. CASE v # "none"
    <2>1. spent' = spent
      BY <1>2 DEF Verify
    <2> QED  BY <1>1, <2>1, ErrorKeepsIInv
  <1>3. CASE v = "none"
    <2>1. spent' = [spent EXCEPT !.blocks = MemoryBlocks(p), !.passes = p.t, !.lanes = p.lanes,
                                 !.workers = EffectiveThreads(p), !.tag = p.tag]
      BY <1>3 DEF Verify
    <2>2. /\ DOMAIN spent = DOMAIN Nothing
          /\ \A k \in DOMAIN Nothing : spent[k] \in Nat
      BY DEF IInv, BoundedVerifyTypeOK
    <2>3. /\ p.tag \in Nat /\ p.t \in Nat /\ p.m \in Nat /\ p.lanes \in 1 .. MaxLanes
          /\ p.threads \in 1 .. MaxLanes
      BY <1>1, BuiltParams
    <2>4. MemoryBlocks(p) \in Nat /\ MemoryBlocks(p) <= p.m
      BY <1>1, LayoutFits
    <2>5. /\ ceiling.m \in Nat /\ ceiling.t \in Nat /\ ceiling.tag \in Nat
          /\ ceiling.lanes \in 1 .. MaxLanes /\ ceiling.threads \in 1 .. MaxLanes
      BY <1>1, CeilingOK
    <2>6. EffectiveThreads(p) \in Nat /\ EffectiveThreads(p) <= p.threads
      BY <2>3, ParamsAssumption, SMT DEF EffectiveThreads
    <2>7. /\ spent'.blocks = MemoryBlocks(p) /\ spent'.passes = p.t /\ spent'.lanes = p.lanes
          /\ spent'.workers = EffectiveThreads(p) /\ spent'.tag = p.tag
          /\ spent'.buffers = spent.buffers
          /\ DOMAIN spent' = DOMAIN Nothing
      BY <2>1, <2>2 DEF Nothing
    <2>8. p.lanes \in Nat
      BY <2>3, SMT
    <2>9. \A k \in DOMAIN Nothing : spent'[k] \in Nat
      BY <2>2, <2>3, <2>4, <2>6, <2>7, <2>8 DEF Nothing
    <2>10. BoundedVerifyTypeOK'
      BY <1>1, <2>9 DEF IInv, BoundedVerifyTypeOK, args
    <2>11. WithinCeiling'
      <3>1. /\ MemoryBlocks(p) <= ceiling.m /\ p.t <= ceiling.t /\ p.lanes <= ceiling.lanes
            /\ EffectiveThreads(p) <= ceiling.threads /\ p.tag <= ceiling.tag
        <4>1. /\ p.m <= ceiling.m /\ p.t <= ceiling.t /\ p.lanes <= ceiling.lanes
              /\ p.threads <= ceiling.threads /\ p.tag <= ceiling.tag
          BY <1>1 DEF Bounded
        <4> QED  BY <4>1, <2>3, <2>4, <2>5, <2>6, ParamsAssumption, SMT
      <3> QED  BY <1>1, <2>7, <3>1 DEF WithinCeiling, args
    <2> QED  BY <1>1, <2>7, <2>10, <2>11 DEF IInv, args
  <1> QED  BY <1>2, <1>3

LEMMA NextIInv == IInv /\ [Next]_vars => IInv'
  <1> SUFFICES ASSUME IInv, [Next]_vars  PROVE IInv'
    OBVIOUS
  <1>1. CASE RefusePassword
    BY <1>1, ErrorKeepsIInv DEF RefusePassword, Returns
  <1>2. CASE RefuseLength
    BY <1>2, ErrorKeepsIInv DEF RefuseLength, Returns
  <1>3. CASE Decode
    BY <1>3, DecodeKeepsIInv
  <1>4. CASE RefuseExcess
    BY <1>4, ErrorKeepsIInv DEF RefuseExcess, Returns
  <1>5. CASE ClampThreads
    BY <1>5, ClampKeepsIInv
  <1>6. CASE Verify
    BY <1>6, VerifyKeepsIInv
  <1>7. CASE DecodeOutOfMemory
    BY <1>7, ErrorKeepsIInv DEF DecodeOutOfMemory, Returns
  <1>8. CASE VerifyOutOfMemory
    BY <1>8, ErrorKeepsIInv DEF VerifyOutOfMemory, Returns
  <1>9. CASE UNCHANGED vars
    BY <1>9 DEF IInv, BoundedVerifyTypeOK, WithinCeiling, Bounded, vars
  <1> QED  BY <1>1, <1>2, <1>3, <1>4, <1>5, <1>6, <1>7, <1>8, <1>9 DEF Next

LEMMA Inductive == Spec => []IInv
  <1> QED  BY InitIInv, NextIInv, PTL DEF Spec

\* Every reachable state is well typed; in particular what has been decoded is
\* what build accepts.
THEOREM BoundedVerifyTypes == Spec => []BoundedVerifyTypeOK
  <1>1. IInv => BoundedVerifyTypeOK
    BY DEF IInv
  <1> QED  BY <1>1, Inductive, PTL

\* verify_encoded_bounded never exceeds its ceiling, in memory, passes, lanes,
\* worker threads or the length of the tag, whatever the string.
THEOREM CeilingHolds == Spec => []WithinCeiling
  <1>1. IInv => WithinCeiling
    BY DEF IInv
  <1> QED  BY <1>1, Inductive, PTL

\* decode_string and decode_phc never disagree about a string, or about the one that
\* encode_string writes for what decode_phc has accepted.
THEOREM DecodersNeverDisagree == Spec => []DecodersAgree
  <1>1. IInv => DecodersAgree
    <2> SUFFICES ASSUME IInv  PROVE DecodersAgree
      OBVIOUS
    <2>1. encoded \in Text /\ algorithm \in Names
      BY DEF IInv, BoundedVerifyTypeOK
    <2>2. Decodes(DecodeString(encoded, algorithm)) =>
            DecodePhc(encoded) = DecodeString(encoded, algorithm)
      BY <2>1, StrictIsPhc
    <2> DEFINE r == DecodePhc(encoded)
               w == EncodeString(r.name, r.version, r.params, r.salt, r.params.tag)
    <2>3. Decodes(r) =>
            DecodeString(w, r.name) =
              IF TooLong(w) THEN Fail("DecodingFail") ELSE [r EXCEPT !.ad = 0]
      BY <2>1, PhcIsWritten
    <2> QED  BY <2>2, <2>3 DEF DecodersAgree
  <1> QED  BY <1>1, Inductive, PTL

-----------------------------------------------------------------------------
(* Lengths *)

\* num_len is positive and grows with the number.
LEMMA NumLenIs ==
  ASSUME NEW n \in Int
  PROVE  /\ NumLen(n) \in Nat \ {0}
         /\ \A m \in Int : n <= m => NumLen(n) <= NumLen(m)
<1> DEFINE Reached(m) == {power \in PowersOfTen : power <= m}
<1>1. IsFiniteSet(PowersOfTen) /\ PowersOfTen \subseteq Int
  <2>1. \E last \in Nat : PowersOfTen \subseteq 0 .. last
    BY SMT DEF PowersOfTen
  <2>2. PICK last \in Nat : PowersOfTen \subseteq 0 .. last
    BY <2>1
  <2>3. IsFiniteSet(0 .. last) /\ 0 .. last \subseteq Int
    BY FS_Interval
  <2> QED BY <2>2, <2>3, FS_Subset
<1>2. ASSUME NEW m \in Int PROVE IsFiniteSet(Reached(m)) /\ Cardinality(Reached(m)) \in Nat
  <2>1. IsFiniteSet(Reached(m))
    BY <1>1, FS_Subset
  <2> QED BY <2>1, FS_CardinalityType
<1>3. ASSUME NEW m \in Int, n <= m PROVE Cardinality(Reached(n)) <= Cardinality(Reached(m))
  <2>1. ASSUME NEW power \in PowersOfTen, power <= n PROVE power <= m
    BY <1>1, <1>3, <2>1, SMT
  <2>2. Reached(n) \subseteq Reached(m)
    BY <2>1
  <2> HIDE DEF Reached
  <2> QED BY <1>2, <2>2, FS_Subset
<1>4. \A m : NumLen(m) = 1 + Cardinality(Reached(m))
  BY DEF NumLen
<1> HIDE DEF Reached
<1>5. NumLen(n) \in Nat \ {0}
  BY <1>2, <1>4, SMT
<1>6. ASSUME NEW m \in Int, n <= m PROVE NumLen(n) <= NumLen(m)
  BY <1>2, <1>3, <1>4, <1>6, SMT
<1> QED BY <1>5, <1>6

\* The versions have two digits.
LEMMA VersionLen ==
  ASSUME NEW version \in Versions
  PROVE  NumLen(version) = 2
<1>1. {power \in PowersOfTen : power <= version} = {10}
  BY SMT DEF PowersOfTen, Versions
<1>2. Cardinality({10}) = 1
  BY FS_Singleton
<1>3. NumLen(version) = 1 + 1
  BY <1>1, <1>2 DEF NumLen
<1> QED BY <1>3, SMT

LEMMA NumeralLenNat ==
  ASSUME NEW n \in Nat \cup {Malformed}
  PROVE  NumeralLen(n) \in Nat
<1>1. CASE n = Malformed
  BY <1>1 DEF NumeralLen
<1>2. CASE n # Malformed
  <2>1. n \in Int
    BY <1>2
  <2> QED BY <1>2, <2>1, NumLenIs DEF NumeralLen
<1> QED BY <1>1, <1>2

\* So does b64_len.
LEMMA B64LenGrows ==
  ASSUME NEW n \in Nat, NEW m \in Nat, n <= m
  PROVE  B64Len(n) \in Nat /\ B64Len(n) <= B64Len(m)
BY SMT DEF B64Len

LEMMA ReservesGrows ==
  ASSUME NEW n \in Nat, NEW m \in Nat, n <= m
  PROVE  Reserves(n) <= Reserves(m)
BY SMT DEF Reserves

\* How long each field is, with the character before it.
Sizes(s) == [i \in DOMAIN s.fields |-> 1 + FieldLen(s.fields[i])]

LEMMA FieldsLen ==
  ASSUME NEW s \in Text
  PROVE  /\ MapThenSumSet(LAMBDA i : 1 + FieldLen(s.fields[i]), DOMAIN s.fields)
              = SumOver(Sizes(s), DOMAIN s.fields)
         /\ Sizes(s) \in [DOMAIN s.fields -> Nat]
         /\ SumOver(Sizes(s), DOMAIN s.fields) \in Nat
<1>1. MapThenSumSet(LAMBDA i : 1 + FieldLen(s.fields[i]), DOMAIN s.fields)
        = SumOver(Sizes(s), DOMAIN s.fields)
  BY DEF MapThenSumSet, MapThenFoldSet, SumOver, Summing, Picked, Sizes
<1>2. s.fields \in Seq(Field)
  BY DEF Text
<1>3. Sizes(s) \in [DOMAIN s.fields -> Nat]
  <2> SUFFICES ASSUME NEW i \in DOMAIN s.fields PROVE 1 + FieldLen(s.fields[i]) \in Nat
    BY DEF Sizes
  <2> DEFINE f == s.fields[i]
  <2>1. f.key \in Keys /\ f.value \in Nat \cup {Malformed}
    <3>1. f \in Field
      BY <1>2
    <3> QED BY <3>1 DEF Field
  <2> HIDE DEF f
  <2>2. NumeralLen(f.value) \in Nat
    BY <2>1, NumeralLenNat
  <2>3. Base64Len(f.value) \in Nat
    BY <2>1, Base64LenNat
  <2>4. FieldLen(f) \in Nat
    <3>1. CASE f.key \in Costs
      <4>1. FieldLen(f) = 2 + NumeralLen(f.value)
        BY <3>1 DEF FieldLen, Costs
      <4> QED BY <2>2, <4>1, SMT
    <3>2. CASE f.key = "data"
      <4>1. FieldLen(f) = 5 + Base64Len(f.value)
        BY <3>2 DEF FieldLen, Costs
      <4> QED BY <2>3, <4>1, SMT
    <3>3. CASE f.key \in {"other", "bare", "empty"}
      <4>1. FieldLen(f) \in {7, 1, 0}
        BY <3>3 DEF FieldLen, Costs
      <4> QED BY <4>1, SMT
    <3> QED BY <2>1, <3>1, <3>2, <3>3 DEF Keys
  <2>5. 1 + FieldLen(f) \in Nat
    BY <2>4, SMT
  <2> QED BY <2>5 DEF f
<1>4. SumOver(Sizes(s), DOMAIN s.fields) \in Nat
  <2>1. IsFiniteSet(DOMAIN s.fields)
    <3>1. DOMAIN s.fields = 1 .. Len(s.fields) /\ 1 \in Int /\ Len(s.fields) \in Int
      BY <1>2, SMT
    <3> QED BY <3>1, FS_Interval
  <2>2. \E g \in [SUBSET DOMAIN s.fields -> Nat] :
          SumOver(Sizes(s), DOMAIN s.fields) = g[DOMAIN s.fields]
    BY <1>3, <2>1, SumIs
  <2> QED BY <2>2
<1> QED BY <1>1, <1>3, <1>4

\* The salt and the tag are the end of a string.
LEMMA TailFits ==
  ASSUME NEW s \in Text
  PROVE  /\ TailLen(s) \in Nat /\ TailLen(s) <= TextLen(s) /\ TextLen(s) \in Nat
         /\ TailLen(s) - Base64Len(s.salt) - 1 \in Nat
         /\ TailLen(s) - Base64Len(s.salt) - 1 <= TailLen(s)
<1> DEFINE junk == IF s.junk THEN 1 ELSE 0
           sum  == MapThenSumSet(LAMBDA i : 1 + FieldLen(s.fields[i]), DOMAIN s.fields)
           v    == IF s.version = Absent THEN 0 ELSE 3 + NumeralLen(s.version)
           e    == IF s.fields = <<>> THEN 1 ELSE 0
<1>1. Base64Len(s.salt) \in Nat /\ Base64Len(s.tag) \in Nat
  BY Base64LenNat DEF Text
<1>2. junk \in Nat /\ v \in Nat /\ e \in Nat /\ NameLen(s.name) \in Nat
  <2>1. NumeralLen(s.version) \in Nat
    <3>1. s.version \in U32 \cup {Malformed}
      BY DEF Text
    <3>2. U32 \subseteq Nat
      BY ParamsAssumption, SMT DEF U32
    <3> QED BY <3>1, <3>2, NumeralLenNat
  <2>2. 3 + NumeralLen(s.version) \in Nat
    BY <2>1, SMT
  <2> QED BY <2>2 DEF NameLen
<1>3. TailLen(s) = Base64Len(s.salt) + 1 + Base64Len(s.tag) + junk
  BY DEF TailLen
<1>4. sum \in Nat
  BY FieldsLen
<1>5. TextLen(s) = 1 + NameLen(s.name) + v + sum + e + 1 + TailLen(s)
  BY DEF TextLen
<1> HIDE DEF junk, sum, v, e
<1>6. TailLen(s) \in Nat /\ TailLen(s) - Base64Len(s.salt) - 1 \in Nat
      /\ TailLen(s) - Base64Len(s.salt) - 1 <= TailLen(s)
  BY <1>1, <1>2, <1>3, SMT
<1>7. TailLen(s) <= TextLen(s) /\ TextLen(s) \in Nat
  BY <1>2, <1>4, <1>5, <1>6, SMT
<1> QED BY <1>6, <1>7

LEMMA MaxEncodedIs ==
  ASSUME IInv
  PROVE  /\ MaxEncoded \in Nat
         /\ MaxEncoded = 18 + NameLen(algorithm) + NumLen(ceiling.t) + NumLen(ceiling.m)
                            + NumLen(ceiling.lanes) + B64Len(BoundedMaxSalt) + B64Len(ceiling.tag)
<1>1. /\ ceiling.m \in Nat /\ ceiling.t \in Nat /\ ceiling.tag \in Nat /\ ceiling.lanes \in Nat
      /\ BoundedMaxSalt \in Nat
  <2>1. ceiling \in Ceilings
    BY DEF IInv, BoundedVerifyTypeOK
  <2> QED BY <2>1, CeilingOK, BoundedVerifyAssumption
<1>2. /\ NumLen(ceiling.m) \in Nat /\ NumLen(ceiling.t) \in Nat /\ NumLen(ceiling.lanes) \in Nat
      /\ B64Len(BoundedMaxSalt) \in Nat /\ B64Len(ceiling.tag) \in Nat
      /\ NameLen(algorithm) \in Nat
  <2>1. \A n \in Nat : n \in Int
    BY SMT
  <2>2. /\ NumLen(ceiling.m) \in Nat /\ NumLen(ceiling.t) \in Nat
        /\ NumLen(ceiling.lanes) \in Nat
    BY <1>1, <2>1, NumLenIs
  <2>3. \A n \in Nat : n <= n
    BY SMT
  <2>4. B64Len(BoundedMaxSalt) \in Nat /\ B64Len(ceiling.tag) \in Nat
    BY <1>1, <2>3, B64LenGrows
  <2> QED BY <2>2, <2>4 DEF NameLen
<1>3. MaxEncoded = 15 + NameLen(algorithm) + NumLen(ceiling.t) + NumLen(ceiling.m)
                      + NumLen(ceiling.lanes) + B64Len(BoundedMaxSalt) + B64Len(ceiling.tag) + 2 + 1
  BY DEF MaxEncoded, EncodedLen
<1> QED BY <1>2, <1>3, SMT

\* What decode_bin reserves for a string that has passed the gate.
LEMMA GatedBuffers ==
  ASSUME IInv, TextLen(encoded) <= MaxEncoded
  PROVE  DecodeBuffers <= 2 * Reserves(MaxEncoded)
<1> DEFINE tail == TailLen(encoded)
           rest == TailLen(encoded) - Base64Len(encoded.salt) - 1
<1>1. encoded \in Text
  BY DEF IInv, BoundedVerifyTypeOK
<1>2. tail \in Nat /\ tail <= TextLen(encoded) /\ rest \in Nat /\ rest <= tail
  BY <1>1, TailFits
<1>3. MaxEncoded \in Nat
  BY MaxEncodedIs
<1>4. tail <= MaxEncoded /\ rest <= MaxEncoded
  <2>1. TextLen(encoded) \in Int
    BY <1>1, TailFits
  <2> HIDE DEF tail, rest
  <2> QED BY <1>2, <1>3, <2>1, SMT
<1> HIDE DEF tail, rest
<1>5. /\ Reserves(tail) \in Nat /\ Reserves(rest) \in Nat /\ Reserves(MaxEncoded) \in Nat
      /\ Reserves(tail) <= Reserves(MaxEncoded) /\ Reserves(rest) <= Reserves(MaxEncoded)
  BY <1>2, <1>3, <1>4, ReservesNat, ReservesGrows
<1>6. \/ DecodeBuffers = 0
      \/ DecodeBuffers = Reserves(tail) + 0
      \/ DecodeBuffers = Reserves(tail) + Reserves(rest)
  BY DEF DecodeBuffers, tail, rest
<1> QED BY <1>5, <1>6, SMT

\* decode_bounded reserves for no string more than for the longest the gate lets through.
THEOREM DecodeGated == Spec => []DecodeIsGated
<1>1. Init => DecodeIsGated
  <2> SUFFICES ASSUME Init PROVE DecodeIsGated
    OBVIOUS
  <2>1. MaxEncoded \in Nat
    BY InitIInv, MaxEncodedIs
  <2>2. Reserves(MaxEncoded) \in Nat
    BY <2>1, ReservesNat
  <2>3. spent.buffers = 0
    BY DEF Init, Nothing
  <2> QED BY <2>2, <2>3, SMT DEF DecodeIsGated
<1>2. IInv /\ DecodeIsGated /\ [Next]_vars => DecodeIsGated'
  <2> SUFFICES ASSUME IInv, DecodeIsGated, [Next]_vars PROVE DecodeIsGated'
    OBVIOUS
  <2>1. UNCHANGED args
    BY DEF Next, RefusePassword, RefuseLength, Decode, DecodeOutOfMemory, RefuseExcess,
           ClampThreads, Verify, VerifyOutOfMemory, vars, args
  <2>2. MaxEncoded' = MaxEncoded
    BY <2>1 DEF args, MaxEncoded
  <2>3. CASE Decode
    <3>1. spent' = [spent EXCEPT !.buffers = DecodeBuffers] /\ TextLen(encoded) <= MaxEncoded
      BY <2>3 DEF Decode, PassGate
    <3>2. spent'.buffers = DecodeBuffers
      BY <3>1 DEF IInv, Nothing
    <3> QED BY <2>2, <3>1, <3>2, GatedBuffers DEF DecodeIsGated
  <2>4. CASE Verify
    <3>1. spent'.buffers = spent.buffers
      BY <2>4 DEF Verify, IInv, Nothing
    <3> QED BY <2>2, <3>1 DEF DecodeIsGated
  <2>5. CASE ~Decode /\ ~Verify
    <3>1. spent' = spent
      BY <2>5 DEF Next, RefusePassword, RefuseLength, DecodeOutOfMemory, RefuseExcess,
             ClampThreads, VerifyOutOfMemory, vars
    <3> QED BY <2>2, <3>1 DEF DecodeIsGated
  <2> QED BY <2>3, <2>4, <2>5
<1> QED BY <1>1, <1>2, Inductive, PTL DEF Spec

-----------------------------------------------------------------------------
(* The library's own strings *)

\* What OwnStringsPass promises to verify.
Own ==
  /\ ~longPassword
  /\ encoded.name = algorithm /\ Encoded(encoded)
  /\ encoded.salt <= BoundedMaxSalt /\ encoded.tag <= ceiling.tag
  /\ encoded.fields[1].value <= ceiling.m /\ encoded.fields[2].value <= ceiling.t
  /\ encoded.fields[3].value <= ceiling.lanes

OwnCosts == StrictCosts(encoded)

\* What is known of such a string.
LEMMA OwnParts ==
  ASSUME IInv, Own
  PROVE  /\ encoded \in Text /\ algorithm \in Names /\ ceiling \in Ceilings
         /\ ~longPassword
         /\ encoded.name = algorithm /\ encoded.version \in Versions
         /\ encoded.version \in Nat
         /\ StrictFields(encoded.fields)
         /\ encoded.salt \in Nat /\ encoded.tag \in Nat /\ ~encoded.junk
         /\ ValidateInputs(encoded.tag, encoded.salt, 0, OwnCosts.m, OwnCosts.t,
                           OwnCosts.lanes, OwnCosts.threads) = "none"
<1>1. /\ encoded \in Text /\ algorithm \in Names /\ ceiling \in Ceilings
  BY DEF IInv, BoundedVerifyTypeOK
<1>2. /\ encoded.name = algorithm /\ encoded.version \in Versions
      /\ StrictFields(encoded.fields)
      /\ encoded.salt # Malformed /\ encoded.tag # Malformed /\ ~encoded.junk
      /\ ValidateInputs(encoded.tag, encoded.salt, 0, OwnCosts.m, OwnCosts.t,
                        OwnCosts.lanes, OwnCosts.threads) = "none"
  BY DEF Own, Encoded, OwnCosts
<1>3. encoded.salt \in Nat /\ encoded.tag \in Nat
  BY <1>1, <1>2 DEF Text
<1>4. encoded.version \in Nat
  BY <1>2, SMT DEF Versions
<1> QED BY <1>1, <1>2, <1>3, <1>4 DEF Own

\* The decoder accepts it, unless it is longer than u32::MAX, and then refuses it before
\* reserving anything.
LEMMA OwnDecodes ==
  ASSUME IInv, Own
  PROVE  /\ TooLong(encoded) => /\ ~StrictHead(encoded, algorithm)
                               /\ DecodeString(encoded, algorithm) = Fail("DecodingFail")
         /\ ~TooLong(encoded) => Decodes(DecodeString(encoded, algorithm))
<1> DEFINE p == OwnCosts
<1>1. /\ encoded.name = algorithm /\ encoded.version \in Versions
      /\ encoded.version \in Nat
      /\ StrictFields(encoded.fields)
      /\ encoded.salt \in Nat /\ encoded.tag \in Nat /\ ~encoded.junk
      /\ ValidateInputs(encoded.tag, encoded.salt, 0, p.m, p.t, p.lanes, p.threads) = "none"
  BY OwnParts
<1>2. CASE TooLong(encoded)
  <2>1. ~StrictHead(encoded, algorithm)
    BY <1>2 DEF StrictHead
  <2> QED BY <1>2, <2>1 DEF DecodeString
<1>3. CASE ~TooLong(encoded)
  <2>1. encoded.version # Malformed /\ encoded.salt # Malformed /\ encoded.tag # Malformed
    BY <1>1, SMT DEF Malformed
  <2>2. StrictHead(encoded, algorithm)
    BY <1>1, <1>3, <2>1 DEF StrictHead
  <2>3. DecodeString(encoded, algorithm)
          = Decoded(algorithm, encoded.version, p, encoded.salt, 0)
    BY <1>1, <2>1, <2>2 DEF DecodeString, OwnCosts
  <2>4. p.tag = encoded.tag
    BY DEF OwnCosts, StrictCosts, CostParams
  <2> HIDE DEF p
  <2>5. BuildError(p) = "none"
    <3>1. ~ (MinSaltLen < MinSaltLen) /\ ~ (MinSaltLen >= Word)
      BY ParamsAssumption, SMT DEF MinSaltLen, MinMemory, SyncPoints
    <3> QED BY <1>1, <2>4, <3>1 DEF BuildError, ValidateInputs
  <2>6. Decoded(algorithm, encoded.version, p, encoded.salt, 0).error = "none"
    BY <1>1, <2>5 DEF Decoded
  <2> QED BY <1>3, <2>3, <2>6 DEF Decodes
<1> QED BY <1>2, <1>3

\* It is no longer than the longest that encode_string could have written below the
\* ceiling.
LEMMA OwnFits ==
  ASSUME IInv, Own
  PROVE  TextLen(encoded) <= MaxEncoded
<1> DEFINE m == encoded.fields[1].value
           t == encoded.fields[2].value
           p == encoded.fields[3].value
<1>1. /\ encoded \in Text /\ algorithm \in Names /\ ceiling \in Ceilings
      /\ encoded.name = algorithm /\ encoded.version \in Versions
      /\ encoded.version \in Nat
      /\ StrictFields(encoded.fields)
      /\ encoded.salt \in Nat /\ encoded.tag \in Nat /\ ~encoded.junk
  BY OwnParts
<1>2. /\ DOMAIN encoded.fields = 1 .. 3 /\ encoded.fields # <<>>
  <2>1. encoded.fields \in Seq(Field) /\ Len(encoded.fields) = 3
    BY <1>1 DEF Text, StrictFields
  <2>2. DOMAIN encoded.fields = 1 .. 3
    BY <2>1, SMT
  <2>3. encoded.fields # <<>>
    <3>1. Len(<<>>) # 3
      BY SMT
    <3> QED BY <2>1, <3>1, Zenon
  <2> QED BY <2>2, <2>3
<1>3. 1 \in 1 .. 3 /\ 2 \in 1 .. 3 /\ 3 \in 1 .. 3
  BY SMT
<1>4. /\ encoded.fields[1].key = "m" /\ encoded.fields[2].key = "t"
      /\ encoded.fields[3].key = "p"
  <2>1. /\ encoded.fields[1].key = <<"m", "t", "p">>[1]
        /\ encoded.fields[2].key = <<"m", "t", "p">>[2]
        /\ encoded.fields[3].key = <<"m", "t", "p">>[3]
    BY <1>1, <1>3 DEF StrictFields
  <2> QED BY <2>1
<1>5. m \in Nat /\ t \in Nat /\ p \in Nat
  <2>1. m \in U32 /\ t \in U32 /\ p \in U32
    BY <1>1, <1>3 DEF StrictFields, Numeral
  <2> QED BY <2>1, ParamsAssumption, SMT DEF U32
<1>6. ASSUME NEW n \in Nat PROVE NumeralLen(n) = NumLen(n) /\ Base64Len(n) = B64Len(n)
  <2>1. n # Malformed
    BY SMT DEF Malformed
  <2> QED BY <2>1 DEF NumeralLen, Base64Len
<1>7. /\ FieldLen(encoded.fields[1]) = 2 + NumLen(m)
      /\ FieldLen(encoded.fields[2]) = 2 + NumLen(t)
      /\ FieldLen(encoded.fields[3]) = 2 + NumLen(p)
  BY <1>4, <1>5, <1>6 DEF FieldLen, Costs
<1> HIDE DEF m, t, p
<1> DEFINE sum == MapThenSumSet(LAMBDA i : 1 + FieldLen(encoded.fields[i]),
                                DOMAIN encoded.fields)
<1>8. sum = (1 + (2 + NumLen(m))) + (1 + (2 + NumLen(t))) + (1 + (2 + NumLen(p)))
  <2> DEFINE v == Sizes(encoded)
  <2>1. sum = SumOver(v, 1 .. 3) /\ v \in [1 .. 3 -> Nat]
    BY <1>1, <1>2, FieldsLen
  <2>2. /\ v[1] = 1 + (2 + NumLen(m)) /\ v[2] = 1 + (2 + NumLen(t))
        /\ v[3] = 1 + (2 + NumLen(p))
    BY <1>2, <1>3, <1>7 DEF Sizes
  <2> HIDE DEF v, sum
  <2>3. SumOver(v, 1 .. 3) = v[1] + v[2] + v[3]
    BY <2>1, SumOfThree
  <2> QED BY <2>1, <2>2, <2>3
<1>9. TextLen(encoded) =
        1 + NameLen(algorithm) + (3 + 2) + sum + 0 + 1
          + (B64Len(encoded.salt) + 1 + B64Len(encoded.tag) + 0)
  <2>1. encoded.version # Absent
    BY <1>1, SMT DEF Versions, Absent
  <2>2. NumeralLen(encoded.version) = 2
    BY <1>1, <1>6, VersionLen
  <2>3. TailLen(encoded) = B64Len(encoded.salt) + 1 + B64Len(encoded.tag) + 0
    BY <1>1, <1>6 DEF TailLen
  <2> QED BY <1>1, <1>2, <2>1, <2>2, <2>3 DEF TextLen
<1> HIDE DEF sum
<1>10. /\ ceiling.m \in Nat /\ ceiling.t \in Nat /\ ceiling.tag \in Nat
       /\ ceiling.lanes \in Nat /\ BoundedMaxSalt \in Nat
       /\ m <= ceiling.m /\ t <= ceiling.t /\ p <= ceiling.lanes
       /\ encoded.salt <= BoundedMaxSalt /\ encoded.tag <= ceiling.tag
  BY <1>1, CeilingOK, BoundedVerifyAssumption DEF Own, m, t, p
<1>11. /\ NumLen(m) \in Nat /\ NumLen(t) \in Nat /\ NumLen(p) \in Nat
       /\ NumLen(ceiling.m) \in Nat /\ NumLen(ceiling.t) \in Nat /\ NumLen(ceiling.lanes) \in Nat
       /\ NumLen(m) <= NumLen(ceiling.m) /\ NumLen(t) <= NumLen(ceiling.t)
       /\ NumLen(p) <= NumLen(ceiling.lanes)
  <2>1. \A n \in Nat : n \in Int
    BY SMT
  <2> QED BY <1>5, <1>10, <2>1, NumLenIs
<1>12. /\ B64Len(encoded.salt) \in Nat /\ B64Len(encoded.salt) <= B64Len(BoundedMaxSalt)
       /\ B64Len(encoded.tag) \in Nat /\ B64Len(encoded.tag) <= B64Len(ceiling.tag)
       /\ B64Len(BoundedMaxSalt) \in Nat /\ B64Len(ceiling.tag) \in Nat
       /\ NameLen(algorithm) \in Nat
  <2>1. \A n \in Nat : n <= n
    BY SMT
  <2> QED BY <1>1, <1>10, <2>1, B64LenGrows DEF NameLen
<1>13. MaxEncoded = 18 + NameLen(algorithm) + NumLen(ceiling.t) + NumLen(ceiling.m)
                       + NumLen(ceiling.lanes) + B64Len(BoundedMaxSalt) + B64Len(ceiling.tag)
  BY MaxEncodedIs
<1> QED BY <1>8, <1>9, <1>11, <1>12, <1>13, SMT

\* What has been decoded is what the string says, and only the decoder has refused it,
\* for its length.
OwnInv ==
  Own =>
    /\ phase \in {"decoded", "bounded"} => ~TooLong(encoded) /\ decoded.salt = encoded.salt
    /\ phase = "decoded" => decoded.params = OwnCosts
    /\ phase = "done" => IF TooLong(encoded) THEN outcome = "DecodingFail"
                         ELSE Hashed \/ outcome = "MemoryAllocationError"

\* Only the bounds of the salt distinguish the two validations.
LEMMA SaltValidates ==
  ASSUME NEW p \in Params, BuildError(p) = "none", NEW salt \in Nat,
         salt >= MinSaltLen, salt < Word
  PROVE  ValidateInputs(p.tag, salt, 0, p.m, p.t, p.lanes, p.threads) = "none"
<1>1. ValidateInputs(p.tag, MinSaltLen, 0, p.m, p.t, p.lanes, p.threads) = "none"
  BY DEF BuildError
<1>2. ~ (salt < MinSaltLen) /\ ~ (salt >= Word)
  BY ParamsAssumption, SMT DEF MinSaltLen
<1> QED BY <1>1, <1>2 DEF ValidateInputs

\* What the decoder returns for such a string.
LEMMA OwnResult ==
  ASSUME IInv, Own, ~TooLong(encoded)
  PROVE  LET r == DecodeString(encoded, algorithm)
         IN  /\ r.error = "none" /\ r.salt = encoded.salt /\ r.params = OwnCosts
             /\ encoded.salt \in Nat /\ encoded.salt >= MinSaltLen /\ encoded.salt < Word
<1> DEFINE r == DecodeString(encoded, algorithm)
           p == OwnCosts
<1>1. encoded \in Text /\ algorithm \in Names
  BY OwnParts
<1>2. Decodes(r)
  BY OwnDecodes
<1>3. /\ r.params = p /\ r = Decoded(algorithm, encoded.version, p, encoded.salt, 0)
      /\ encoded.version = Absent \/ encoded.version \in Versions
      /\ BuildError(p) = "none" /\ encoded.salt \in Nat
      /\ ValidateInputs(encoded.tag, encoded.salt, 0, p.m, p.t, p.lanes, p.threads) = "none"
  BY <1>1, <1>2, StrictDecodes DEF OwnCosts
<1>4. r.salt = encoded.salt
  <2> HIDE DEF r, p
  <2> QED BY <1>3 DEF Decoded
<1>5. ~ (encoded.salt < MinSaltLen) /\ ~ (encoded.salt >= Word)
  <2> HIDE DEF p
  <2> QED BY <1>3 DEF ValidateInputs
<1>6. encoded.salt >= MinSaltLen /\ encoded.salt < Word
  BY <1>3, <1>5, ParamsAssumption, SMT DEF MinSaltLen
<1> QED BY <1>2, <1>3, <1>4, <1>6 DEF Decodes

LEMMA OwnStep ==
  ASSUME IInv, OwnInv, Own, Next
  PROVE  OwnInv'
<1>1. /\ encoded \in Text /\ algorithm \in Names /\ ceiling \in Ceilings /\ ~longPassword
  BY OwnParts
<1>2. ~TooLong(encoded) =>
        /\ DecodeString(encoded, algorithm).error = "none"
        /\ DecodeString(encoded, algorithm).salt = encoded.salt
        /\ DecodeString(encoded, algorithm).params = OwnCosts
        /\ encoded.salt \in Nat /\ encoded.salt >= MinSaltLen /\ encoded.salt < Word
  BY OwnResult
<1>3. UNCHANGED args
  BY DEF Next, RefusePassword, RefuseLength, Decode, DecodeOutOfMemory, RefuseExcess,
         ClampThreads, Verify, VerifyOutOfMemory, vars, args
<1>4. encoded' = encoded /\ OwnCosts' = OwnCosts /\ TooLong(encoded)' = TooLong(encoded)
  BY <1>3 DEF args, OwnCosts
<1>5. ~RefusePassword /\ ~RefuseLength
  <2>1. ~ (TextLen(encoded) > MaxEncoded)
    <3>1. TextLen(encoded) <= MaxEncoded /\ TextLen(encoded) \in Nat /\ MaxEncoded \in Nat
      BY <1>1, OwnFits, TailFits, MaxEncodedIs
    <3> QED BY <3>1, SMT
  <2> QED BY <1>1, <2>1 DEF RefusePassword, RefuseLength
<1>6. CASE Decode
  <2>1. decoded' = DecodeString(encoded, algorithm)
    BY <1>6 DEF Decode
  <2>2. CASE TooLong(encoded)
    <3>1. decoded' = Fail("DecodingFail")
      BY <2>1, <2>2, OwnDecodes
    <3>2. ~Decodes(decoded') /\ decoded'.error = "DecodingFail"
      BY <3>1 DEF Decodes, Fail
    <3>3. phase' = "done" /\ outcome' = "DecodingFail"
      BY <1>6, <3>2 DEF Decode, Returns
    <3> QED BY <1>4, <2>2, <3>3 DEF OwnInv
  <2>3. CASE ~TooLong(encoded)
    <3>1. phase' = "decoded"
      BY <1>2, <1>6, <2>1, <2>3 DEF Decode, Decodes
    <3> QED BY <1>2, <1>4, <2>1, <2>3, <3>1 DEF OwnInv
  <2> QED BY <2>2, <2>3
<1>7. CASE DecodeOutOfMemory \/ VerifyOutOfMemory
  <2>1. ~TooLong(encoded)
    BY <1>7, OwnDecodes DEF DecodeOutOfMemory, VerifyOutOfMemory, OwnInv
  <2> QED BY <1>4, <1>7, <2>1 DEF DecodeOutOfMemory, VerifyOutOfMemory, Returns, OwnInv
<1>8. phase = "decoded" => Excess = "none"
  <2> SUFFICES ASSUME phase = "decoded" PROVE Excess = "none"
    OBVIOUS
  <2>1. /\ decoded.params.tag = encoded.tag /\ decoded.params.m = encoded.fields[1].value
        /\ decoded.params.t = encoded.fields[2].value
        /\ decoded.params.lanes = encoded.fields[3].value
    BY DEF OwnInv, OwnCosts, StrictCosts, CostParams
  <2>2. decoded.params \in Params /\ BuildError(decoded.params) = "none"
    BY DEF IInv, BoundedVerifyTypeOK, Decodings
  <2>3. /\ decoded.params.tag \in Nat /\ decoded.params.m \in Nat /\ decoded.params.t \in Nat
        /\ decoded.params.lanes \in Nat
    BY <2>2, BuiltParams
  <2>4. /\ ceiling.m \in Nat /\ ceiling.t \in Nat /\ ceiling.tag \in Nat /\ ceiling.lanes \in Nat
    BY <1>1, CeilingOK
  <2>5. /\ ~ (decoded.params.tag > ceiling.tag) /\ ~ (decoded.params.m > ceiling.m)
        /\ ~ (decoded.params.t > ceiling.t) /\ ~ (decoded.params.lanes > ceiling.lanes)
    BY <2>1, <2>3, <2>4, SMT DEF Own
  <2> QED BY <2>5 DEF Excess
<1>9. ~RefuseExcess
  BY <1>8 DEF RefuseExcess
<1>10. CASE ClampThreads
  <2> DEFINE p == [decoded.params EXCEPT !.threads = Clamped]
  <2>1. phase = "decoded" /\ decoded.params \in Params /\ BuildError(decoded.params) = "none"
        /\ decoded \in Decodings
    BY <1>10 DEF ClampThreads, IInv, BoundedVerifyTypeOK, Decodings
  <2>2. Clamped \in 1 .. MaxLanes
    <3>1. ceiling.threads \in 1 .. MaxLanes /\ decoded.params.lanes \in 1 .. MaxLanes
      BY <1>1, <2>1, CeilingOK, BuiltParams
    <3> QED BY <3>1 DEF Clamped
  <2>3. BuildError(p) = "none"
    BY <2>1, <2>2, ClampBuilds
  <2>4. phase' = "bounded" /\ decoded' = [decoded EXCEPT !.params = p]
    BY <1>10, <2>3 DEF ClampThreads
  <2>5. decoded'.salt = decoded.salt
    BY <2>1, <2>4 DEF Decodings
  <2>6. ~TooLong(encoded) /\ decoded.salt = encoded.salt
    BY <2>1 DEF OwnInv
  <2> QED BY <1>4, <2>4, <2>5, <2>6 DEF OwnInv
<1>11. CASE Verify
  <2> DEFINE p == decoded.params
  <2>1. phase = "bounded" /\ p \in Params /\ BuildError(p) = "none"
        /\ ~TooLong(encoded) /\ decoded.salt = encoded.salt
    BY <1>11 DEF Verify, IInv, BoundedVerifyTypeOK, Decodings, OwnInv
  <2>2. ValidateInputs(p.tag, decoded.salt, 0, p.m, p.t, p.lanes, p.threads) = "none"
    BY <1>2, <2>1, SaltValidates
  <2>3. phase' = "done" /\ outcome' \in {"Ok", "VerifyMismatch"}
    BY <1>11, <2>2 DEF Verify, Returns
  <2> QED BY <1>4, <2>1, <2>3 DEF OwnInv, Hashed
<1>12. CASE phase = "done" /\ UNCHANGED vars
  BY <1>4, <1>12 DEF OwnInv, Hashed, vars
<1> QED BY <1>5, <1>6, <1>7, <1>9, <1>10, <1>11, <1>12 DEF Next

\* verify_encoded_bounded refuses no string of the library's own below its ceiling, whatever
\* the ceiling and the parameters, but for what the decoder says of every text longer than
\* u32::MAX, the library's own included.
THEOREM OwnStringsAccepted == Spec => []OwnStringsPass
<1>1. Init => OwnInv
  BY DEF Init, OwnInv
<1>2. IInv /\ OwnInv /\ [Next]_vars => OwnInv'
  <2> SUFFICES ASSUME IInv, OwnInv, [Next]_vars PROVE OwnInv'
    OBVIOUS
  <2>1. UNCHANGED args
    BY DEF Next, RefusePassword, RefuseLength, Decode, DecodeOutOfMemory, RefuseExcess,
           ClampThreads, Verify, VerifyOutOfMemory, vars, args
  <2>2. Own' => Own
    BY <2>1 DEF Own, args
  <2>3. CASE Own /\ Next
    BY <2>3, OwnStep
  <2>4. CASE UNCHANGED vars
    BY <2>4, <2>2 DEF OwnInv, OwnCosts, Hashed, vars
  <2>5. CASE ~Own
    BY <2>2, <2>5 DEF OwnInv
  <2> QED BY <2>3, <2>4, <2>5
<1>3. OwnInv => OwnStringsPass
  BY DEF OwnInv, OwnStringsPass, Own
<1> QED BY <1>1, <1>2, <1>3, Inductive, PTL DEF Spec
=============================================================================
