----------------------------- MODULE PhcString -----------------------------
(***************************************************************************)
(* The encoded form of a hash, of src/src/encoding.rs: what encode_string  *)
(* writes, what decode_string reads (the C's fixed $m=,t=,p= form) and     *)
(* what decode_phc reads (parameters in any order, with others).           *)
(*                                                                         *)
(* A string is what its characters spell: a name, a version, the fields    *)
(* between the second and the third `$`, two Base64 fields by the number   *)
(* of bytes they decode to, and whether junk follows.  A numeral or Base64 *)
(* field that does not decode is Malformed.                                *)
(***************************************************************************)
EXTENDS Params, Sequences, FiniteSets, FiniteSetsExt

Names == {"argon2d", "argon2i", "argon2id"}
Malformed == -1
Absent == 0           \* no `$v=`, which means version 16
Versions == {16, 19}

\* Field kinds: the three costs, `data`, another key, a field with no `=`, and
\* the nothing that follows a trailing comma.
Costs == {"m", "t", "p"}
Keys == Costs \cup {"data", "other", "bare", "empty"}
Field == [key : Keys, value : Nat \cup {Malformed}]

Text == [name : Names \cup {"argon2x"}, version : U32 \cup {Malformed},
         fields : Seq(Field), salt : Nat \cup {Malformed},
         tag : Nat \cup {Malformed}, junk : BOOLEAN]

Fail(e) == [error |-> e]
Decodes(d) == d.error = "none"

-----------------------------------------------------------------------------
(* Lengths.                                                                 *)

\* num_len, of a u32: one digit, and one for every power of ten it reaches.  A longer
\* numeral counts as one of ten digits; it is refused whatever its length.
PowersOfTen ==
  {10, 100, 1000, 10000, 100000, 1000000, 10000000, 100000000, 1000000000}

NumLen(n) == 1 + Cardinality({power \in PowersOfTen : power <= n})

\* b64_len
B64Len(n) == (n \div 3) * 4 + (IF n % 3 = 0 THEN 0 ELSE (n % 3) + 1)

NameLen(name) == IF name = "argon2id" THEN 8 ELSE 7

\* encoded_len: the punctuation, the numbers, the version and the C's NUL.
EncodedLen(name, t, m, lanes, saltLen, tagLen) ==
  15 + NameLen(name) + NumLen(t) + NumLen(m) + NumLen(lanes)
     + B64Len(saltLen) + B64Len(tagLen) + 2 + 1

\* How many characters a string has; what is malformed is one character long.
NumeralLen(n) == IF n = Malformed THEN 1 ELSE NumLen(n)
Base64Len(n) == IF n = Malformed THEN 1 ELSE B64Len(n)

FieldLen(f) ==
  CASE f.key \in Costs -> 2 + NumeralLen(f.value)
    [] f.key = "data"  -> 5 + Base64Len(f.value)
    [] f.key = "other" -> 7
    [] f.key = "bare"  -> 1
    [] f.key = "empty" -> 0

\* From the salt on, which is the tail decode_bin sees.
TailLen(s) == Base64Len(s.salt) + 1 + Base64Len(s.tag) + (IF s.junk THEN 1 ELSE 0)

TextLen(s) ==
  1 + NameLen(s.name) + (IF s.version = Absent THEN 0 ELSE 3 + NumeralLen(s.version))
    + MapThenSumSet(LAMBDA i : 1 + FieldLen(s.fields[i]), DOMAIN s.fields)
    + (IF s.fields = <<>> THEN 1 ELSE 0)
    + 1 + TailLen(s)

\* What decode_bin reserves for a field in a tail of n characters.
Reserves(n) == (n \div 4) * 3 + 3

-----------------------------------------------------------------------------
(* Decoding.                                                                *)

\* What both decoders ask first: is the text longer than u32::MAX?
TooLong(s) == TextLen(s) >= Word

\* decode_decimal, and the bound of decimal_u32.
Numeral(v) == v \in U32

\* Decoded, the result of a string that is accepted.
Decodings == [error : {"none"}, name : Names, version : Versions, params : Params,
              salt : Nat, ad : Nat]

\* The end of both decoders: the version, which is looked at last, and build.
Decoded(name, version, p, salt, ad) ==
  IF version # Absent /\ version \notin Versions THEN Fail("DecodingFail")
  ELSE IF BuildError(p) # "none" THEN Fail(BuildError(p))
  ELSE [error |-> "none", name |-> name,
        version |-> IF version = Absent THEN 16 ELSE version,
        params |-> p, salt |-> salt, ad |-> ad]

\* What both decoders give to build: threads are lanes, as in the C.
CostParams(m, t, lanes, tag) ==
  [m |-> m, t |-> t, lanes |-> lanes, threads |-> lanes, tag |-> tag]

\* The three costs in the C's order.
StrictFields(fields) ==
  /\ Len(fields) = 3
  /\ \A i \in 1 .. 3 : fields[i].key = <<"m", "t", "p">>[i] /\ Numeral(fields[i].value)

\* Their values.
StrictCosts(s) ==
  CostParams(s.fields[1].value, s.fields[2].value, s.fields[3].value, s.tag)

\* A plausible bug, which no specification uses: one decoder does not ask.
StrictHeadMutant(s, name) ==
  s.name = name /\ s.version # Malformed /\ StrictFields(s.fields)

\* Whether decode_string gets as far as the salt.
StrictHead(s, name) ==
  /\ ~TooLong(s)
  /\ s.name = name
  /\ s.version # Malformed
  /\ StrictFields(s.fields)

\* decode_string: the full validation comes before the check for junk.
DecodeString(s, name) ==
  IF ~StrictHead(s, name) \/ s.salt = Malformed \/ s.tag = Malformed
  THEN Fail("DecodingFail")
  ELSE LET p == StrictCosts(s)
           invalid == ValidateInputs(s.tag, s.salt, 0, p.m, p.t, p.lanes, p.threads)
       IN  IF invalid # "none" THEN Fail(invalid)
           ELSE IF s.junk THEN Fail("DecodingFail")
           ELSE Decoded(name, s.version, p, s.salt, 0)

\* "argon2i" is a prefix of "argon2id".
IsPrefixName(a, name) == a = name \/ (a = "argon2i" /\ name = "argon2id")

\* A plausible bug, which no specification uses: the names in the enum's order.
DetectedMutant(name) ==
  IF IsPrefixName("argon2d", name) THEN "argon2d"
  ELSE IF IsPrefixName("argon2i", name) THEN "argon2i"
  ELSE IF IsPrefixName("argon2id", name) THEN "argon2id"
  ELSE "none"

\* The names decode_phc tries, in order; a `$` must follow the one it takes.
Detected(name) ==
  IF IsPrefixName("argon2id", name) THEN "argon2id"
  ELSE IF IsPrefixName("argon2i", name) THEN "argon2i"
  ELSE IF IsPrefixName("argon2d", name) THEN "argon2d"
  ELSE "none"

\* parse_phc_params: a later field replaces an earlier one of its key.
With(fields, key) == {i \in DOMAIN fields : fields[i].key = key}
LastValue(fields, key, default) ==
  IF With(fields, key) = {} THEN default
  ELSE fields[CHOOSE i \in With(fields, key) : \A j \in With(fields, key) : j <= i].value

FieldParses(fields, i) ==
  /\ fields[i].key # "bare"
  /\ fields[i].key = "empty" => i = Len(fields) /\ i > 1
  /\ fields[i].key \in Costs => Numeral(fields[i].value)
  /\ fields[i].key = "data" => fields[i].value # Malformed

FieldsParse(fields) ==
  /\ \A i \in DOMAIN fields : FieldParses(fields, i)
  /\ \A key \in Costs : With(fields, key) # {}

\* decode_phc: junk is part of the tag there, so it is found before validation.
DecodePhc(s) ==
  IF \/ TooLong(s)
     \/ Detected(s.name) # s.name
     \/ s.version = Malformed
     \/ ~FieldsParse(s.fields)
     \/ s.salt = Malformed \/ s.tag = Malformed \/ s.junk
  THEN Fail("DecodingFail")
  ELSE LET p == CostParams(LastValue(s.fields, "m", Absent), LastValue(s.fields, "t", Absent),
                           LastValue(s.fields, "p", Absent), s.tag)
           ad == LastValue(s.fields, "data", 0)
           invalid == ValidateInputs(s.tag, s.salt, ad, p.m, p.t, p.lanes, p.threads)
       IN  IF invalid # "none" THEN Fail(invalid)
           ELSE Decoded(s.name, s.version, p, s.salt, ad)

-----------------------------------------------------------------------------
(* Encoding.                                                                *)

\* What encode_string writes, for inputs that validate_for_string accepts.
EncodeString(name, version, p, saltLen, tagLen) ==
  [name |-> name, version |-> version,
   fields |-> << [key |-> "m", value |-> p.m], [key |-> "t", value |-> p.t],
                 [key |-> "p", value |-> p.lanes] >>,
   salt |-> saltLen, tag |-> tagLen, junk |-> FALSE]

\* Whether encode_string can have written s: validate_for_string has accepted the
\* parameters (their threads are not written) and the lengths.  Nothing bounds the
\* length of the whole, so this is not what the decoders accept.
Encoded(s) ==
  /\ s.name \in Names /\ s.version \in Versions /\ StrictFields(s.fields)
  /\ s.salt # Malformed /\ s.tag # Malformed /\ ~s.junk
  /\ LET p == StrictCosts(s)
     IN  ValidateInputs(s.tag, s.salt, 0, p.m, p.t, p.lanes, p.threads) = "none"
=============================================================================
