-------------------------- MODULE MCBoundedVerify --------------------------
(* Strings in the strict form around every bound, and strings of every shape, *)
(* for MCSingles.                                                             *)
EXTENDS BoundedVerify

F(k, v) == [key |-> k, value |-> v]

Costed ==
  {[name |-> "argon2id", version |-> 19, fields |-> <<F("m", m), F("t", t), F("p", p)>>,
    salt |-> salt, tag |-> tag, junk |-> FALSE] :
     m \in {7, 8, 16, 99, 100, 1023}, t \in {0, 1, 9, 10}, p \in {0, 1, 2, 12, 127, 128},
     salt \in {7, 8, 16, 19}, tag \in {3, 4, 6, 9}}

Shapes ==
  {<<F("m", 16), F("t", 1), F("p", 2)>>, <<F("m", 16), F("p", 2), F("t", 1)>>,
   <<F("m", 16), F("t", 1), F("p", 2), F("data", 5)>>,
   <<F("data", Malformed), F("m", 16), F("t", 1), F("p", 2)>>,
   <<F("m", 8), F("t", 1), F("p", 2), F("m", 16)>>,
   <<F("m", Malformed), F("t", 1), F("p", 2), F("m", 16)>>,
   <<F("other", 1), F("m", 16), F("t", 1), F("p", 2)>>,
   <<F("m", 16), F("t", 1), F("p", 2), F("empty", 0)>>,
   <<F("m", 16), F("t", 1), F("bare", 0), F("p", 2)>>,
   <<F("m", 16), F("t", 1), F("p", 1024)>>,
   <<F("m", 8), F("t", 1), F("p", 128)>>,
   <<F("m", 16), F("t", 1)>>, <<>>}

\* Every shape of the fields, and every other oddity around one of them.
Shaped ==
  {[name |-> name, version |-> 19, fields |-> fields, salt |-> salt, tag |-> 4,
    junk |-> junk] :
     name \in {"argon2i", "argon2id"}, fields \in Shapes, salt \in {7, 8}, junk \in BOOLEAN}

Headed ==
  {[name |-> name, version |-> version, fields |-> <<F("m", 16), F("t", 1), F("p", 2)>>,
    salt |-> salt, tag |-> tag, junk |-> junk] :
     name \in Names \cup {"argon2x"}, version \in {Malformed, Absent, 16, 18, 19},
     salt \in {Malformed, 7, 8}, tag \in {Malformed, 3, 4}, junk \in BOOLEAN}

\* Far longer than any ceiling allows.
Long ==
  {[name |-> name, version |-> 19, fields |-> <<F("m", 16), F("t", 1), F("p", 2)>>,
    salt |-> salt, tag |-> tag, junk |-> FALSE] :
     name \in Names, salt \in {8, 200}, tag \in {4, 200}}

\* On both sides of the limit of 1023 characters, also once the version is written.
AroundWord ==
  {[name |-> name, version |-> version, fields |-> fields, salt |-> salt, tag |-> tag,
    junk |-> FALSE] :
     name \in {"argon2i", "argon2id"}, version \in {Absent, 16, 19},
     fields \in {<<F("m", 16), F("t", 1), F("p", 2)>>, <<F("m", 16), F("p", 2), F("t", 1)>>},
     salt \in {8, 16, 30}, tag \in 720 .. 744}

MCTexts == Costed \cup Shaped \cup Headed \cup Long \cup AroundWord

\* The last one lets longer texts through than a u32 counts.
MCCeilings ==
  {[m |-> 100, t |-> 10, lanes |-> 12, threads |-> 2, tag |-> 6],
   [m |-> 16, t |-> 1, lanes |-> 2, threads |-> 1, tag |-> 4],
   [m |-> 1023, t |-> 1, lanes |-> 127, threads |-> 127, tag |-> 4],
   [m |-> 99, t |-> 9, lanes |-> 2, threads |-> 2, tag |-> 1000]}
=============================================================================
