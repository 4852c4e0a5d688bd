---------------------------- MODULE FormatsProofs ----------------------------
(***************************************************************************)
(* Whatever an offer calls its file, the receiver makes of it one element  *)
(* of a path or refuses it.                                                *)
(***************************************************************************)
EXTENDS Formats, SequenceTheorems, WellFoundedInduction, TLAPS

\* A set of numbers that is not empty has a least one.
LEMMA LeastExists ==
  ASSUME NEW S \in SUBSET Nat, S # {}
  PROVE  \E x \in S : \A y \in S : x <= y
<1>1. PICK x \in S : \A y \in S : <<y, x>> \notin OpToRel(<, Nat)
  BY NatLessThanWellFounded, WFMin
<1>2. \A y \in S : x <= y
  <2> SUFFICES ASSUME NEW y \in S, y < x PROVE FALSE
    OBVIOUS
  <2>1. <<y, x>> \in OpToRel(<, Nat)
    BY DEF OpToRel
  <2> QED BY <1>1, <2>1
<1> QED BY <1>2

\* One that has a bound has a greatest one.
LEMMA GreatestExists ==
  ASSUME NEW n \in Nat, NEW S \in SUBSET (0..n), S # {}
  PROVE  \E x \in S : \A y \in S : x >= y
<1> DEFINE T == {n - x : x \in S}
<1>1. T \in SUBSET Nat /\ T # {}
  OBVIOUS
<1>2. PICK t \in T : \A u \in T : t <= u
  BY <1>1, LeastExists
<1>3. PICK x \in S : t = n - x
  BY <1>2
<1>4. ASSUME NEW y \in S PROVE x >= y
  <2>1. n - y \in T
    OBVIOUS
  <2>2. n - x <= n - y
    BY <1>2, <1>3, <2>1
  <2> QED BY <2>2
<1> QED BY <1>4

\* What Min and Max return, so far as the names need it.
LEMMA MinMax ==
  ASSUME NEW n \in Nat, NEW S \in SUBSET (0..n), S # {}
  PROVE  /\ Min(S) \in S /\ \A y \in S : Min(S) <= y
         /\ Max(S) \in S /\ \A y \in S : Max(S) >= y
<1>1. S \in SUBSET Nat
  OBVIOUS
<1>2. Min(S) \in S /\ \A y \in S : Min(S) <= y
  BY <1>1, LeastExists DEF Min
<1>3. Max(S) \in S /\ \A y \in S : Max(S) >= y
  BY GreatestExists DEF Max
<1> QED BY <1>2, <1>3

\* A part of a name has no character that the name has not.
LEMMA PartHasNoMore ==
  ASSUME NEW C, NEW name \in Seq(C), NEW i \in 1..Len(name), NEW j \in i..Len(name),
         NEW chars, ~Has(name, chars)
  PROVE  /\ SubSeq(name, i, j) \in Seq(C) /\ ~Has(SubSeq(name, i, j), chars)
         /\ Len(SubSeq(name, i, j)) = j - i + 1
<1>1. \A k \in i..j : name[k] \in C
  OBVIOUS
<1>2. /\ SubSeq(name, i, j) \in Seq(C) /\ Len(SubSeq(name, i, j)) = j - i + 1
      /\ \A k \in 1..(j - i + 1) : SubSeq(name, i, j)[k] = name[i + k - 1]
  BY <1>1, SubSeqProperties
<1>3. DOMAIN SubSeq(name, i, j) = 1..(j - i + 1)
  BY <1>2
<1>4. \A k \in 1..(j - i + 1) : i + k - 1 \in DOMAIN name
  OBVIOUS
<1> QED BY <1>2, <1>3, <1>4 DEF Has

\* strings.TrimSpace returns a part of the name.
LEMMA TrimSpaceHasNoMore ==
  ASSUME NEW C, NEW name \in Seq(C), NEW chars, ~Has(name, chars)
  PROVE  TrimSpace(name) \in Seq(C) /\ ~Has(TrimSpace(name), chars)
<1> DEFINE inked == {i \in DOMAIN name : name[i] # " "}
<1>1. CASE inked = {}
  <2>1. TrimSpace(name) = <<>>
    BY <1>1 DEF TrimSpace
  <2>2. <<>> \in Seq(C) /\ DOMAIN <<>> = {}
    OBVIOUS
  <2> QED BY <2>1, <2>2 DEF Has
<1>2. CASE inked # {}
  <2>1. TrimSpace(name) = SubSeq(name, Min(inked), Max(inked))
    BY <1>2 DEF TrimSpace
  <2>2. inked \subseteq 1..Len(name) /\ Len(name) \in Nat
    <3>1. DOMAIN name = 1..Len(name) /\ Len(name) \in Nat
      OBVIOUS
    <3>2. inked \subseteq DOMAIN name
      BY Zenon
    <3> QED BY <3>1, <3>2
  <2> HIDE DEF inked
  <2>3. inked \in SUBSET (0..Len(name))
    BY <2>2
  <2>4. Min(inked) \in inked /\ Max(inked) \in inked /\ \A y \in inked : Min(inked) <= y
    BY <1>2, <2>2, <2>3, MinMax
  <2>5. Min(inked) <= Max(inked) /\ Min(inked) \in 1..Len(name) /\ Max(inked) \in 1..Len(name)
    BY <2>2, <2>4, Zenon
  <2>6. Min(inked) \in 1..Len(name) /\ Max(inked) \in Min(inked)..Len(name)
    BY <2>5
  <2> QED BY <2>1, <2>6, PartHasNoMore
<1> QED BY <1>1, <1>2

\* filepath.Base returns a part of the name, "." or the separator.
LEMMA PathBaseHasNoMore ==
  ASSUME NEW C, {".", "/"} \subseteq C, NEW name \in Seq(C),
         NEW chars, {".", "/"} \cap chars = {}, ~Has(name, chars)
  PROVE  PathBase(name) \in Seq(C) /\ ~Has(PathBase(name), chars)
<1> DEFINE solid == {i \in DOMAIN name : name[i] # "/"}
           last == Max(solid)
           cuts == {0} \cup {i \in 1..last : name[i] = "/"}
<1>1. CASE name = <<>> \/ solid = {}
  <2>1. PathBase(name) \in {<<".">>, <<"/">>}
    BY <1>1 DEF PathBase
  <2> QED BY <2>1 DEF Has
<1>2. CASE name # <<>> /\ solid # {}
  <2>1. PathBase(name) = SubSeq(name, 1 + Max(cuts), last)
    BY <1>2 DEF PathBase
  <2>2. solid \subseteq 1..Len(name) /\ Len(name) \in Nat /\ \A i \in solid : name[i] # "/"
    OBVIOUS
  <2>3. \A i \in cuts : i = 0 \/ (i \in 1..last /\ name[i] = "/")
    OBVIOUS
  <2>4. 0 \in cuts
    OBVIOUS
  <2> HIDE DEF cuts
  <2>5. last \in solid
    <3>1. solid \in SUBSET (0..Len(name))
      BY <2>2
    <3> HIDE DEF solid
    <3> QED BY <1>2, <2>2, <3>1, MinMax
  <2> HIDE DEF last, solid
  <2>6. last \in 1..Len(name) /\ name[last] # "/"
    BY <2>2, <2>5
  <2>7. cuts \in SUBSET (0..last) /\ cuts # {} /\ last \in Nat
    BY <2>3, <2>4, <2>6
  <2>8. Max(cuts) \in cuts
    BY <2>7, MinMax
  <2>9. 1 + Max(cuts) \in 1..Len(name) /\ last \in (1 + Max(cuts))..Len(name)
    BY <2>3, <2>6, <2>8
  <2> QED BY <2>1, <2>9, PartHasNoMore
<1> QED BY <1>1, <1>2

\* sanitizeFilename refuses a name or makes it one element of a path: no
\* separator, no colon and no zero byte is in it, and it is not "", "." or "..".
THEOREM SanitizedIsOneElement ==
  ASSUME NEW C, {".", "/"} \subseteq C, NEW name \in Seq(C)
  PROVE  LET made == sanitizeFilename(name)
         IN  made # <<>> => /\ made \notin {<<".">>, <<".", ".">>}
                            /\ ~Has(made, {"/", "\\", ":", "NUL"})
<1> DEFINE trimmed == TrimSpace(name)
           base == TrimSpace(PathBase(trimmed))
           made == sanitizeFilename(name)
<1> SUFFICES ASSUME made # <<>>
             PROVE  made \notin {<<".">>, <<".", ".">>} /\ ~Has(made, {"/", "\\", ":", "NUL"})
  OBVIOUS
<1>1. /\ ~Has(trimmed, {"\\", ":", "NUL"}) /\ made = base
      /\ base \notin {<<".">>, <<".", ".">>} /\ ~Has(base, {"/", "\\"})
  BY DEF sanitizeFilename
<1>2. trimmed \in Seq(C)
  <2>1. ~Has(name, {})
    BY DEF Has
  <2> QED BY <2>1, TrimSpaceHasNoMore
<1>3. PathBase(trimmed) \in Seq(C) /\ ~Has(PathBase(trimmed), {"\\", ":", "NUL"})
  <2>1. {".", "/"} \cap {"\\", ":", "NUL"} = {}
    OBVIOUS
  <2> HIDE DEF trimmed
  <2> QED BY <1>1, <1>2, <2>1, PathBaseHasNoMore
<1>4. ~Has(base, {"\\", ":", "NUL"})
  BY <1>3, TrimSpaceHasNoMore
<1> HIDE DEF base
<1>5. ~Has(base, {"/", "\\", ":", "NUL"})
  BY <1>1, <1>4 DEF Has
<1> QED BY <1>1, <1>5

==============================================================================
