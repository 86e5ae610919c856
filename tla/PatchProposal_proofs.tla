------------------------ MODULE PatchProposal_proofs ------------------------
(***************************************************************************)
(* What the edits of a model do to a source survives the whole way: for    *)
(* every source, every edits, every alignment that difflib may choose and  *)
(* every number of lines of context.                                       *)
(*                                                                         *)
(* Each loop of the code is a recursive function; the lemma of its         *)
(* recursion says that one exists, and then an induction shows what it     *)
(* keeps: the text left of the next edit (ReplacedIsIntended), which lines *)
(* are done (JoinedLines), where a script stands in both texts             *)
(* (ScriptRelates), which lines are in hunks (RunsCover), and that the     *)
(* application of the hunks stands at the same place of the script         *)
(* (HunksApply).  Consistent carries this to what is stored and judged.    *)
(***************************************************************************)
EXTENDS PatchProposal, Numbers, SequenceTheorems, FiniteSetTheorems

Text == Seq(Symbols)

LEMMA SameLength ==
  ASSUME NEW m \in Nat, NEW n \in Nat, 1..m = 1..n
  PROVE  m = n
<1>1. \A i \in Nat : 1 <= i /\ i <= m <=> 1 <= i /\ i <= n
  OBVIOUS
<1>2. m < 1 \/ m <= n
  BY <1>1
<1>3. n < 1 \/ n <= m
  BY <1>1
<1> QED BY <1>2, <1>3

Associative(w, x, y) == (w \o x) \o y = w \o (x \o y)

LEMMA Associates ==
  ASSUME NEW S, NEW w \in Seq(S), NEW x \in Seq(S), NEW y \in Seq(S)
  PROVE  Associative(w, x, y)
BY ConcatAssociative, SMTT(60) DEF Associative

LEMMA OneSymbol ==
  ASSUME NEW S, NEW c \in S
  PROVE  /\ <<c>> \in Seq(S) /\ Len(<<c>>) = 1 /\ <<c>>[1] = c
         /\ Append(<<>>, c) = <<c>>
<1>1. <<>> \in Seq(S) /\ Append(<<>>, c) = <<c>>
  OBVIOUS
<1> QED BY <1>1, AppendProperties

LEMMA Newline ==
  "\n" \in Symbols /\ <<"\n">> \in Text
<1>1. "\n" \in Symbols
  BY TextsAssumption DEF Breaks
<1> QED BY <1>1, OneSymbol DEF Text

-----------------------------------------------------------------------------
(* The places of the edits.                                                *)

(* The old text of an edit is not empty and both texts are texts.          *)
LEMMA EditTexts ==
  ASSUME NEW edits \in Edits, NEW e \in Range(edits)
  PROVE  e.old \in Text /\ e.new \in Text /\ Len(e.old) \in Nat \ {0}
<1>1. PICK n \in 1..MaxEdits : edits \in [1..n -> [old : OldTexts, new : NewTexts]]
  BY DEF Edits
<1>2. e \in [old : OldTexts, new : NewTexts]
  BY <1>1 DEF Range
<1>3. e.old \in OldTexts /\ e.new \in NewTexts
  BY <1>2
<1>4. e.old \in Text /\ e.new \in Text /\ e.old # <<>>
  BY <1>3, TextsAssumption DEF Text
<1> QED BY <1>4, EmptySeq DEF Text

(* An applicable edit occurs within the text.                              *)
LEMMA Places ==
  ASSUME NEW text \in Text, NEW edits \in Edits, Applicable(text, edits),
         NEW e \in Range(edits)
  PROVE  /\ Start(text, e) \in 1..Len(text)
         /\ Stop(text, e) \in 2..(Len(text) + 1)
         /\ Start(text, e) < Stop(text, e)
<1>1. Occurrences(text, e.old) # {}
  <2>1. Cardinality(Occurrences(text, e.old)) = 1 /\ Cardinality({}) = 0
    BY FS_EmptySet DEF Applicable
  <2> QED BY <2>1
<1>2. Start(text, e) \in Occurrences(text, e.old)
  BY <1>1 DEF Start
<1>3. Len(e.old) \in Nat \ {0} /\ Len(text) \in Nat
  BY EditTexts DEF Text
<1>4. Start(text, e) \in 1..(Len(text) + 1 - Len(e.old))
  BY <1>2 DEF Occurrences
<1>5. Stop(text, e) = Start(text, e) + Len(e.old)
  BY DEF Stop
<1> DEFINE s == Start(text, e)
           t == Stop(text, e)
           m == Len(text)
           n == Len(e.old)
<1>6. m \in Nat /\ n \in Nat /\ n >= 1 /\ s \in 1..(m + 1 - n) /\ t = s + n
  <2>1. m \in Nat /\ s \in 1..(m + 1 - n) /\ t = s + n
    BY <1>3, <1>4, <1>5
  <2>2. n \in Nat \ {0}
    BY <1>3
  <2> HIDE DEF s, t, m, n
  <2> QED BY <2>1, <2>2
<1> HIDE DEF s, t, m, n
<1>7. s \in 1..m /\ t \in 2..(m + 1) /\ s < t
  BY <1>6
<1> QED BY <1>7 DEF s, t, m, n

(* The places of two edits do not overlap.                                 *)
LEMMA Apart ==
  ASSUME NEW text \in Text, NEW edits \in Edits, Applicable(text, edits),
         NEW d \in Range(edits), NEW e \in Range(edits), d # e
  PROVE  Stop(text, d) <= Start(text, e) \/ Stop(text, e) <= Start(text, d)
<1>1. PICK i, j \in DOMAIN edits : d = edits[i] /\ e = edits[j]
  BY DEF Range
<1>2. Start(text, d) \in Nat /\ Start(text, e) \in Nat
  BY Places
<1>3. CASE Start(text, d) <= Start(text, e)
  BY <1>1, <1>3 DEF Applicable
<1>4. CASE Start(text, e) <= Start(text, d)
  BY <1>1, <1>4 DEF Applicable
<1> QED BY <1>2, <1>3, <1>4

(* The edit that starts at a place.                                        *)
LEMMA TheEdit ==
  ASSUME NEW text, NEW edits, NEW p, Starts(text, edits, p)
  PROVE  /\ EditAt(text, edits, p) \in Range(edits)
         /\ Start(text, EditAt(text, edits, p)) = p
BY DEF Starts, EditAt

(* A splice in a text of which the end has been replaced already.          *)
LEMMA SpliceBefore ==
  ASSUME NEW text \in Text, NEW rest \in Text, NEW new \in Text,
         NEW p \in 1..(Len(text) + 1), NEW q \in p..(Len(text) + 1)
  PROVE  Splice(SubSeq(text, 1, q - 1) \o rest, p, q, new) =
           SubSeq(text, 1, p - 1) \o new \o rest
<1> DEFINE u == SubSeq(text, 1, q - 1)
           v == u \o rest
<1>1. Len(text) \in Nat /\ Len(rest) \in Nat /\ p \in Nat /\ q \in Nat
  BY DEF Text
<1>2. u \in Text /\ Len(u) = q - 1 /\ \A i \in 1..(q - 1) : u[i] = text[i]
  <2>1. \A i \in 1..(q - 1) : text[i] \in Symbols
    BY <1>1, ElementOfSeq DEF Text
  <2> QED BY <1>1, <2>1, SubSeqProperties DEF Text
<1>3. /\ v \in Text /\ Len(v) = q - 1 + Len(rest)
      /\ \A i \in 1..(q - 1) : v[i] = u[i]
      /\ \A i \in q..Len(v) : v[i] = rest[i - q + 1]
  <2> HIDE DEF u
  <2>1. /\ v \in Text /\ Len(v) = Len(u) + Len(rest)
        /\ \A i \in 1..(Len(u) + Len(rest)) :
             v[i] = IF i <= Len(u) THEN u[i] ELSE rest[i - Len(u)]
    BY <1>2, ConcatProperties DEF Text
  <2> QED BY <1>1, <1>2, <2>1, SMTT(60)
<1> HIDE DEF u, v
<1>4. SubSeq(v, 1, p - 1) = SubSeq(text, 1, p - 1)
  <2>1. \A i \in 1..(p - 1) : v[i] = text[i] /\ text[i] \in Symbols
    <3>1. \A i \in 1..(p - 1) : i \in 1..(q - 1) /\ i \in 1..Len(text)
      BY <1>1
    <3> QED BY <1>2, <1>3, <3>1, ElementOfSeq DEF Text
  <2>2. \A i \in 1..(p - 1) : v[i] \in Symbols
    BY <2>1
  <2>3. /\ SubSeq(v, 1, p - 1) \in Text
        /\ Len(SubSeq(v, 1, p - 1)) = p - 1
        /\ \A i \in 1..(p - 1) : SubSeq(v, 1, p - 1)[i] = v[i]
    BY <1>1, <2>2, SubSeqProperties DEF Text
  <2>4. /\ SubSeq(text, 1, p - 1) \in Text
        /\ Len(SubSeq(text, 1, p - 1)) = p - 1
        /\ \A i \in 1..(p - 1) : SubSeq(text, 1, p - 1)[i] = text[i]
    BY <1>1, <2>1, SubSeqProperties DEF Text
  <2> QED BY <2>1, <2>3, <2>4, SeqEqual DEF Text
<1>5. SubSeq(v, q, Len(v)) = rest
  <2>1. \A i \in q..Len(v) : v[i] \in Symbols
    BY <1>1, <1>3, ElementOfSeq DEF Text
  <2>2. /\ SubSeq(v, q, Len(v)) \in Text
        /\ Len(SubSeq(v, q, Len(v))) = Len(rest)
        /\ \A i \in 1..Len(rest) : SubSeq(v, q, Len(v))[i] = v[q + i - 1]
    BY <1>1, <1>3, <2>1, SubSeqProperties DEF Text
  <2>3. \A i \in 1..Len(rest) : v[q + i - 1] = rest[i]
    BY <1>1, <1>3
  <2> QED BY <2>2, <2>3, SeqEqual DEF Text
<1>6. Splice(v, p, q, new) = SubSeq(text, 1, p - 1) \o new \o rest
  BY <1>4, <1>5 DEF Splice
<1> QED BY <1>6 DEF v, u

(* What stands in the place p of the result, and the text after the edit   *)
(* that starts at p, if one does.                                          *)
Placed(text, edits, p) ==
  IF Starts(text, edits, p) THEN EditAt(text, edits, p).new
  ELSE IF Inside(text, edits, p) THEN <<>>
  ELSE <<text[p]>>

Edited(text, edits, p, v) ==
  IF Starts(text, edits, p)
    THEN Splice(v, p, Stop(text, EditAt(text, edits, p)),
                EditAt(text, edits, p).new)
    ELSE v

LEMMA PlacedText ==
  ASSUME NEW text \in Text, NEW edits \in Edits, NEW p \in 1..Len(text)
  PROVE  Placed(text, edits, p) \in Text
<1>1. CASE Starts(text, edits, p)
  BY <1>1, TheEdit, EditTexts DEF Placed
<1>2. CASE ~Starts(text, edits, p)
  <2>1. text[p] \in Symbols
    BY ElementOfSeq DEF Text
  <2>2. <<text[p]>> \in Text /\ <<>> \in Text
    BY <2>1 DEF Text
  <2> QED BY <1>2, <2>2 DEF Placed
<1> QED BY <1>1, <1>2

(* The end of the text from p on, all edits made, when no edit reaches into *)
(* it from before p, or else from where that edit stops.                    *)
From(text, edits, p, v, rest) ==
  /\ ~Inside(text, edits, p) => v = SubSeq(text, 1, p - 1) \o rest
  /\ \A e \in Range(edits) :
       Start(text, e) < p /\ p < Stop(text, e) =>
         v = SubSeq(text, 1, Stop(text, e) - 1) \o rest

LEMMA OneMorePlace ==
  ASSUME NEW text \in Text, NEW edits \in Edits, Applicable(text, edits),
         NEW p \in 1..Len(text), NEW v, NEW rest \in Text,
         From(text, edits, p + 1, v, rest)
  PROVE  From(text, edits, p, Edited(text, edits, p, v),
              Placed(text, edits, p) \o rest)
<1>1. CASE Starts(text, edits, p)
  <2> DEFINE e == EditAt(text, edits, p)
             q == Stop(text, e)
  <2>1. e \in Range(edits) /\ Start(text, e) = p
    BY <1>1, TheEdit
  <2>2. /\ q \in 2..(Len(text) + 1) /\ p < q /\ e.new \in Text
        /\ Len(text) \in Nat
    BY <2>1, Places, EditTexts DEF Text
  <2>3. v = SubSeq(text, 1, q - 1) \o rest
    <3>1. CASE q = p + 1
      <4>1. ~Inside(text, edits, p + 1)
        <5> SUFFICES ASSUME NEW d \in Range(edits),
                            Start(text, d) < p + 1, p + 1 < Stop(text, d)
                     PROVE  FALSE
          BY DEF Inside
        <5>1. d # e
          BY <3>1
        <5>2. Start(text, d) \in Nat /\ Stop(text, d) \in Nat
          BY Places
        <5> QED BY <2>1, <2>2, <5>1, <5>2, Apart
      <4>2. v = SubSeq(text, 1, (p + 1) - 1) \o rest
        BY <4>1 DEF From
      <4> QED BY <3>1, <4>2
    <3>2. CASE q # p + 1
      <4>1. Start(text, e) < p + 1 /\ p + 1 < q
        BY <2>1, <2>2, <3>2
      <4> QED BY <2>1, <4>1 DEF From
    <3> QED BY <3>1, <3>2
  <2>4. ~Inside(text, edits, p)
    <3> SUFFICES ASSUME NEW d \in Range(edits),
                        Start(text, d) < p, p < Stop(text, d)
                 PROVE  FALSE
      BY DEF Inside
    <3>1. d # e
      BY <2>1
    <3>2. Start(text, d) \in Nat /\ Stop(text, d) \in Nat
      BY Places
    <3> QED BY <2>1, <2>2, <3>1, <3>2, Apart
  <2>5. Splice(v, p, q, e.new) = SubSeq(text, 1, p - 1) \o (e.new \o rest)
    <3>1. p \in 1..(Len(text) + 1) /\ q \in p..(Len(text) + 1)
      BY <2>2
    <3>2. ASSUME NEW x \in p..(Len(text) + 1), NEW new \in Text
          PROVE  Splice(SubSeq(text, 1, x - 1) \o rest, p, x, new)
                   = SubSeq(text, 1, p - 1) \o new \o rest
      BY <3>1, SpliceBefore
    <3>3. Splice(v, p, q, e.new) = SubSeq(text, 1, p - 1) \o e.new \o rest
      <4> HIDE DEF q, e
      <4> QED BY <2>2, <2>3, <3>1, <3>2
    <3>4. SubSeq(text, 1, p - 1) \in Text
      <4>1. \A i \in 1..(p - 1) : text[i] \in Symbols
        BY <2>2, ElementOfSeq DEF Text
      <4> QED BY <4>1, SubSeqProperties DEF Text
    <3>5. (SubSeq(text, 1, p - 1) \o e.new) \o rest
            = SubSeq(text, 1, p - 1) \o (e.new \o rest)
      <4> DEFINE w == SubSeq(text, 1, p - 1)
                 x == e.new
      <4>1. w \in Seq(Symbols) /\ x \in Seq(Symbols) /\ rest \in Seq(Symbols)
        BY <2>2, <3>4 DEF Text
      <4> HIDE DEF w, x
      <4>2. Associative(w, x, rest)
        BY <4>1, Associates
      <4> QED BY <4>2 DEF w, x, Associative
    <3> QED BY <3>3, <3>5
  <2>6. /\ Edited(text, edits, p, v) = Splice(v, p, q, e.new)
        /\ Placed(text, edits, p) = e.new
    BY <1>1 DEF Edited, Placed
  <2>7. \A d \in Range(edits) : ~(Start(text, d) < p /\ p < Stop(text, d))
    BY <2>4 DEF Inside
  <2> HIDE DEF e, q
  <2> QED BY <2>5, <2>6, <2>7 DEF From
<1>2. CASE ~Starts(text, edits, p)
  <2>1. Edited(text, edits, p, v) = v
    BY <1>2 DEF Edited
  <2>2. ASSUME NEW d \in Range(edits), Start(text, d) < p + 1
        PROVE  Start(text, d) < p
    <3>1. Start(text, d) \in Nat /\ Start(text, d) # p
      BY <1>2, Places DEF Starts
    <3> QED BY <2>2, <3>1
  <2>3. CASE Inside(text, edits, p)
    <3>1. Placed(text, edits, p) \o rest = rest
      <4>1. Placed(text, edits, p) = <<>>
        BY <1>2, <2>3 DEF Placed
      <4> QED BY <4>1, ConcatEmptySeq DEF Text
    <3>2. ASSUME NEW e \in Range(edits), Start(text, e) < p, p < Stop(text, e)
          PROVE  v = SubSeq(text, 1, Stop(text, e) - 1) \o rest
      <4>1. Start(text, e) \in Nat /\ Stop(text, e) \in Nat
        BY Places
      <4>2. CASE Stop(text, e) = p + 1
        <5>1. ~Inside(text, edits, p + 1)
          <6> SUFFICES ASSUME NEW d \in Range(edits),
                              Start(text, d) < p + 1, p + 1 < Stop(text, d)
                       PROVE  FALSE
            BY DEF Inside
          <6>1. d # e
            BY <4>2
          <6>2. Start(text, d) \in Nat /\ Stop(text, d) \in Nat
            BY Places
          <6>3. Start(text, d) < p
            BY <2>2
          <6> QED BY <3>2, <4>1, <6>1, <6>2, <6>3, Apart
        <5>2. v = SubSeq(text, 1, (p + 1) - 1) \o rest
          BY <5>1 DEF From
        <5> QED BY <4>2, <5>2
      <4>3. CASE Stop(text, e) # p + 1
        <5>1. Start(text, e) < p + 1 /\ p + 1 < Stop(text, e)
          BY <3>2, <4>1, <4>3
        <5> QED BY <5>1 DEF From
      <4> QED BY <4>2, <4>3
    <3> QED BY <2>1, <2>3, <3>1, <3>2 DEF From
  <2>4. CASE ~Inside(text, edits, p)
    <3>1. ~Inside(text, edits, p + 1)
      <4> SUFFICES ASSUME NEW d \in Range(edits),
                          Start(text, d) < p + 1, p + 1 < Stop(text, d)
                   PROVE  FALSE
        BY DEF Inside
      <4>1. Start(text, d) < p /\ Stop(text, d) \in Nat
        BY <2>2, Places
      <4>2. p < Stop(text, d)
        BY <4>1
      <4> QED BY <2>4, <4>1, <4>2 DEF Inside
    <3>2. v = SubSeq(text, 1, (p + 1) - 1) \o rest
      BY <3>1 DEF From
    <3>3. (p + 1) - 1 = p /\ Len(text) \in Nat
      BY DEF Text
    <3>4. SubSeq(text, 1, p) = SubSeq(text, 1, p - 1) \o <<text[p]>>
      <4>1. 1 \in 1..Len(text) /\ p \in 1..Len(text)
        BY <3>3
      <4> QED BY <4>1, SubSeqRecursiveSecond DEF Text
    <3>5. /\ SubSeq(text, 1, p - 1) \in Seq(Symbols)
          /\ <<text[p]>> \in Seq(Symbols) /\ rest \in Seq(Symbols)
      <4>1. \A i \in 1..p : text[i] \in Symbols
        BY <3>3, ElementOfSeq DEF Text
      <4> QED BY <3>3, <4>1, SubSeqProperties DEF Text
    <3>6. (SubSeq(text, 1, p - 1) \o <<text[p]>>) \o rest
            = SubSeq(text, 1, p - 1) \o (<<text[p]>> \o rest)
      <4> DEFINE w == SubSeq(text, 1, p - 1)
                 x == <<text[p]>>
      <4> HIDE DEF w, x
      <4>1. w \in Seq(Symbols) /\ x \in Seq(Symbols) /\ rest \in Seq(Symbols)
        BY <3>5 DEF w, x
      <4>2. Associative(w, x, rest)
        BY <4>1, Associates
      <4> QED BY <4>2 DEF w, x, Associative
    <3>7. Placed(text, edits, p) = <<text[p]>>
      BY <1>2, <2>4 DEF Placed
    <3>8. v = SubSeq(text, 1, p - 1) \o (<<text[p]>> \o rest)
      BY <3>2, <3>3, <3>4, <3>6
    <3> QED BY <2>1, <2>4, <3>7, <3>8 DEF From, Inside
  <2> QED BY <2>3, <2>4
<1> QED BY <1>1, <1>2

(* The equations of the two recursions: the edits from the end on, as long  *)
(* as the places that are still to come are there, and the intended text.   *)
ReplacesFromTheEnd(text, edits, f) ==
  /\ f[0] = text
  /\ \A k \in 1..Len(text) :
       Len(f[k - 1]) >= Len(text) + 1 - k =>
         f[k] = Edited(text, edits, Len(text) + 1 - k, f[k - 1])
ReadsFromTheEnd(text, edits, t) ==
  /\ t[0] = <<>>
  /\ \A k \in 1..Len(text) :
       t[k] = Placed(text, edits, Len(text) + 1 - k) \o t[k - 1]

LEMMA FromTheEnd ==
  ASSUME NEW text \in Text, NEW edits \in Edits, Applicable(text, edits),
         NEW f, ReplacesFromTheEnd(text, edits, f),
         NEW t, ReadsFromTheEnd(text, edits, t)
  PROVE  /\ \A k \in 0..Len(text) :
              /\ t[k] \in Text /\ f[k] \in Text
              /\ Len(f[k]) >= Len(text) - k
         /\ f[Len(text)] = t[Len(text)]
<1> DEFINE N == Len(text)
           T == {k \in 0..N : t[k] \in Text
                                /\ From(text, edits, N + 1 - k, f[k], t[k])}
<1>1. N \in Nat
  BY DEF Text
<1>2. ASSUME NEW p \in 1..(N + 1), NEW v, NEW rest \in Text,
             From(text, edits, p, v, rest)
      PROVE  v \in Text /\ Len(v) >= p - 1
  <2>1. PICK q \in p..(N + 1) : v = SubSeq(text, 1, q - 1) \o rest
    <3>1. CASE ~Inside(text, edits, p)
      <4>1. p \in p..(N + 1) /\ v = SubSeq(text, 1, p - 1) \o rest
        BY <1>1, <1>2, <3>1 DEF From
      <4> QED BY <4>1
    <3>2. CASE Inside(text, edits, p)
      <4>1. PICK e \in Range(edits) : Start(text, e) < p /\ p < Stop(text, e)
        BY <3>2 DEF Inside
      <4>2. v = SubSeq(text, 1, Stop(text, e) - 1) \o rest
        BY <1>2, <4>1 DEF From
      <4>3. Stop(text, e) \in p..(N + 1)
        BY <1>1, <4>1, Places
      <4> QED BY <4>2, <4>3
    <3> QED BY <3>1, <3>2
  <2>2. \A i \in 1..(q - 1) : text[i] \in Symbols
    BY <1>1, ElementOfSeq DEF Text
  <2>3. SubSeq(text, 1, q - 1) \in Text /\ Len(SubSeq(text, 1, q - 1)) = q - 1
    BY <1>1, <2>2, SubSeqProperties DEF Text
  <2> DEFINE u == SubSeq(text, 1, q - 1)
  <2> HIDE DEF u
  <2>4. u \o rest \in Text /\ Len(u \o rest) = Len(u) + Len(rest)
        /\ Len(rest) \in Nat
    BY <2>3, ConcatProperties DEF Text, u
  <2> QED BY <1>1, <2>1, <2>3, <2>4 DEF u
<1>3. 0 \in T
  <2>1. \A e \in Range(edits) : ~(Start(text, e) < N + 1 /\ N + 1 < Stop(text, e))
    BY <1>1, Places
  <2>2. text = SubSeq(text, 1, N) \o <<>>
    <3>1. SubSeq(text, 1, N) = text
      BY SubSeqFull DEF Text
    <3>2. text \o <<>> = text
      BY ConcatEmptySeq DEF Text
    <3> QED BY <3>1, <3>2
  <2>3. (N + 1) - 1 = N /\ N + 1 - 0 = N + 1 /\ 0 \in 0..N /\ <<>> \in Text
    BY <1>1 DEF Text
  <2>4. From(text, edits, N + 1, text, <<>>)
    BY <2>1, <2>2, <2>3 DEF From
  <2> QED BY <2>3, <2>4 DEF ReplacesFromTheEnd, ReadsFromTheEnd
<1>4. \A k \in 0..(N - 1) : k \in T => k + 1 \in T
  <2> SUFFICES ASSUME NEW k \in 0..(N - 1), k \in T
               PROVE  k + 1 \in T
    OBVIOUS
  <2> DEFINE p == N - k
  <2>1. /\ p \in 1..N /\ p + 1 = N + 1 - k /\ p = N + 1 - (k + 1)
        /\ k + 1 \in 1..N /\ k + 1 \in 0..N /\ (k + 1) - 1 = k
        /\ p + 1 \in 1..(N + 1) /\ (p + 1) - 1 = p
    BY <1>1
  <2> HIDE DEF p
  <2>2. t[k] \in Text /\ From(text, edits, p + 1, f[k], t[k])
    BY <2>1
  <2>3. Len(f[k]) >= p
    BY <1>2, <2>1, <2>2
  <2>4. f[k + 1] = Edited(text, edits, p, f[k])
    BY <2>1, <2>3 DEF ReplacesFromTheEnd
  <2>5. t[k + 1] = Placed(text, edits, p) \o t[k]
    BY <2>1 DEF ReadsFromTheEnd
  <2>6. From(text, edits, p, f[k + 1], t[k + 1])
    BY <2>1, <2>2, <2>4, <2>5, OneMorePlace
  <2>7. t[k + 1] \in Text
    BY <2>1, <2>2, <2>5, PlacedText, ConcatProperties DEF Text
  <2> QED BY <2>1, <2>6, <2>7
<1> HIDE DEF T
<1>5. 0..N \subseteq T
  BY <1>1, <1>3, <1>4, InductionUpTo
<1>6. ASSUME NEW k \in 0..N
      PROVE  /\ t[k] \in Text /\ f[k] \in Text
             /\ Len(f[k]) >= N - k
  <2>1. N + 1 - k \in 1..(N + 1) /\ (N + 1 - k) - 1 = N - k
    BY <1>1
  <2>2. t[k] \in Text /\ From(text, edits, N + 1 - k, f[k], t[k])
    BY <1>5 DEF T
  <2> QED BY <1>2, <2>1, <2>2
<1>7. f[N] = t[N]
  <2>1. N \in T /\ N + 1 - N = 1 /\ 1 - 1 = 0
    BY <1>1, <1>5
  <2>2. t[N] \in Text /\ From(text, edits, 1, f[N], t[N])
    BY <2>1 DEF T
  <2>3. ~Inside(text, edits, 1)
    <3>1. \A e \in Range(edits) : ~(Start(text, e) < 1)
      BY Places
    <3> QED BY <3>1 DEF Inside
  <2>4. f[N] = SubSeq(text, 1, 0) \o t[N]
    BY <2>1, <2>2, <2>3 DEF From
  <2>5. SubSeq(text, 1, 0) = <<>> /\ <<>> \o t[N] = t[N]
    BY <2>2, SubSeqEmpty, ConcatEmptySeq DEF Text
  <2> QED BY <2>4, <2>5
<1> QED BY <1>6, <1>7

LEMMA IntendedRecursion ==
  ASSUME NEW text \in Text, NEW edits \in Edits
  PROVE  \E t : /\ ReadsFromTheEnd(text, edits, t)
                /\ Intended(text, edits) = t[Len(text)]
<1> DEFINE N == Len(text)
           V == Text
           step == [k \in 1..N |->
                      [v \in V |-> Placed(text, edits, N + 1 - k) \o v]]
<1>1. N \in Nat /\ <<>> \in V
  BY DEF Text
<1>2. Steps(step, N, V)
  <2>1. ASSUME NEW k \in 1..N, NEW v \in V
        PROVE  Placed(text, edits, N + 1 - k) \o v \in V
    <3>1. N + 1 - k \in 1..Len(text)
      BY <1>1
    <3> QED BY <3>1, PlacedText, ConcatProperties DEF Text
  <2> HIDE DEF V
  <2> QED BY <2>1 DEF Steps
<1>3. \A k \in 1..N : \A v \in V :
        step[k][v] = Placed(text, edits, N + 1 - k) \o v
  OBVIOUS
<1> HIDE DEF V, step
<1>4. PICK f : Iterates(f, N, V, <<>>, step)
  BY <1>1, <1>2, Recursion, Zenon
<1>5. \A k \in 1..N : f[k] = Placed(text, edits, N + 1 - k) \o f[k - 1]
  <2> TAKE k \in 1..N
  <2>1. k - 1 \in 0..N
    BY <1>1
  <2>2. f[k - 1] \in V
    BY <1>4, <2>1 DEF Iterates
  <2> QED BY <1>3, <1>4, <2>2 DEF Iterates
<1> DEFINE Is(t) ==
             t = [k \in 0..N |->
                    LET p == N + 1 - k IN
                      IF k = 0 THEN <<>>
                      ELSE (IF Starts(text, edits, p)
                              THEN EditAt(text, edits, p).new
                            ELSE IF Inside(text, edits, p) THEN <<>>
                            ELSE <<text[p]>>) \o t[k - 1]]
<1>6. Is(f)
  <2>1. f \in [0..N -> V] /\ f[0] = <<>>
    BY <1>4 DEF Iterates
  <2>2. \A k \in 0..N : k # 0 => k \in 1..N
    BY <1>1
  <2> QED BY <1>5, <2>1, <2>2 DEF Placed
<1>7. \E t : Is(t) /\ Intended(text, edits) = t[N]
  BY <1>6, Zenon DEF Intended
<1>8. PICK t : Is(t) /\ Intended(text, edits) = t[N]
  BY <1>7
<1>9. ReadsFromTheEnd(text, edits, t)
  <2>1. 0 \in 0..N /\ \A k \in 1..N : k \in 0..N /\ k # 0
    BY <1>1
  <2>2. t[0] = <<>>
    BY <1>8, <2>1
  <2>3. ASSUME NEW k \in 1..N
        PROVE  t[k] = Placed(text, edits, N + 1 - k) \o t[k - 1]
    BY <1>8, <2>1 DEF Placed
  <2> QED BY <2>2, <2>3 DEF ReadsFromTheEnd
<1> HIDE DEF Is
<1> QED BY <1>8, <1>9

LEMMA ReplacedRecursion ==
  ASSUME NEW text \in Text, NEW edits \in Edits, Applicable(text, edits)
  PROVE  \E f : /\ ReplacesFromTheEnd(text, edits, f)
                /\ Replaced(text, edits) = f[Len(text)]
<1> DEFINE N == Len(text)
           V == Text
           Next1(p, v) == IF Len(v) >= p THEN Edited(text, edits, p, v) ELSE v
           step == [k \in 1..N |-> [v \in V |-> Next1(N + 1 - k, v)]]
<1>1. N \in Nat /\ text \in V
  BY DEF Text
<1>2. Steps(step, N, V)
  <2>1. ASSUME NEW p \in 1..N, NEW v \in V, Len(v) >= p
        PROVE  Edited(text, edits, p, v) \in V
    <3>1. CASE Starts(text, edits, p)
      <4> DEFINE e == EditAt(text, edits, p)
      <4>1. e \in Range(edits) /\ e.new \in Text /\ Stop(text, e) \in 2..(N + 1)
        BY <3>1, TheEdit, EditTexts, Places
      <4>2. SubSeq(v, 1, p - 1) \in Text /\ SubSeq(v, Stop(text, e), Len(v)) \in Text
        <5>1. /\ \A i \in 1..(p - 1) : v[i] \in Symbols
              /\ \A i \in Stop(text, e)..Len(v) : v[i] \in Symbols
              /\ Len(v) \in Int /\ Stop(text, e) \in Int /\ p - 1 \in Int
          BY <1>1, <2>1, <4>1, ElementOfSeq DEF Text
        <5> HIDE DEF e
        <5> QED BY <5>1, SubSeqProperties DEF Text
      <4>3. Splice(v, p, Stop(text, e), e.new) \in Text
        <5> HIDE DEF e
        <5> QED BY <4>1, <4>2, ConcatProperties DEF Text, Splice
      <4> QED BY <3>1, <4>3 DEF Edited
    <3>2. CASE ~Starts(text, edits, p)
      BY <3>2 DEF Edited
    <3> QED BY <3>1, <3>2
  <2>2. \A k \in 1..N : N + 1 - k \in 1..N
    BY <1>1
  <2>3. \A k \in 1..N : \A v \in V : Next1(N + 1 - k, v) \in V
    BY <2>1, <2>2
  <2> HIDE DEF V, Next1
  <2> QED BY <2>3 DEF Steps
<1>3. \A k \in 1..N : \A v \in V : step[k][v] = Next1(N + 1 - k, v)
  <2> HIDE DEF Next1
  <2> QED OBVIOUS
<1> HIDE DEF V, step
<1>4. PICK f : Iterates(f, N, V, text, step)
  BY <1>1, <1>2, Recursion, Zenon
<1>5. \A k \in 1..N : f[k] = Next1(N + 1 - k, f[k - 1])
  <2> TAKE k \in 1..N
  <2>1. k - 1 \in 0..N
    BY <1>1
  <2>2. f[k - 1] \in V
    BY <1>4, <2>1 DEF Iterates
  <2> HIDE DEF Next1
  <2> QED BY <1>3, <1>4, <2>2 DEF Iterates
<1>6. ReplacesFromTheEnd(text, edits, f)
  BY <1>4, <1>5 DEF Iterates, ReplacesFromTheEnd
<1>7. \A k \in 1..N : f[k] = Edited(text, edits, N + 1 - k, f[k - 1])
  <2> TAKE k \in 1..N
  <2>1. PICK t : ReadsFromTheEnd(text, edits, t)
    BY IntendedRecursion
  <2>2. k - 1 \in 0..N /\ N - (k - 1) = N + 1 - k
    BY <1>1
  <2>3. Len(f[k - 1]) >= N - (k - 1)
    BY <1>6, <2>1, <2>2, FromTheEnd
  <2> QED BY <1>5, <2>2, <2>3
<1> DEFINE Is(g) ==
             g = [k \in 0..N |->
                    LET p == N + 1 - k IN
                      IF k = 0 THEN text
                      ELSE IF Starts(text, edits, p)
                        THEN LET e == EditAt(text, edits, p)
                             IN Splice(g[k - 1], p, Stop(text, e), e.new)
                        ELSE g[k - 1]]
<1>8. Is(f)
  <2>1. f \in [0..N -> V] /\ f[0] = text
    BY <1>4 DEF Iterates
  <2>2. \A k \in 0..N : k # 0 => k \in 1..N
    BY <1>1
  <2> QED BY <1>7, <2>1, <2>2 DEF Edited
<1>9. \E g : Is(g) /\ Replaced(text, edits) = g[N]
  BY <1>8, Zenon DEF Replaced
<1>10. PICK g : Is(g) /\ Replaced(text, edits) = g[N]
  BY <1>9
<1>11. ReplacesFromTheEnd(text, edits, g)
  <2>1. 0 \in 0..N /\ \A k \in 1..N : k \in 0..N /\ k # 0
    BY <1>1
  <2>2. g[0] = text
    BY <1>10, <2>1
  <2>3. ASSUME NEW k \in 1..N
        PROVE  g[k] = Edited(text, edits, N + 1 - k, g[k - 1])
    BY <1>10, <2>1 DEF Edited
  <2> QED BY <2>2, <2>3 DEF ReplacesFromTheEnd
<1> HIDE DEF Is
<1> QED BY <1>10, <1>11

(* Applied from the last to the first, the edits give the intended text.   *)
LEMMA ReplacedIsIntended ==
  ASSUME NEW text \in Text, NEW edits \in Edits, Applicable(text, edits)
  PROVE  /\ Replaced(text, edits) = Intended(text, edits)
         /\ Replaced(text, edits) \in Text
<1>1. PICK f : /\ ReplacesFromTheEnd(text, edits, f)
               /\ Replaced(text, edits) = f[Len(text)]
  BY ReplacedRecursion
<1>2. PICK t : /\ ReadsFromTheEnd(text, edits, t)
               /\ Intended(text, edits) = t[Len(text)]
  BY IntendedRecursion
<1>3. Len(text) \in 0..Len(text)
  BY DEF Text
<1> QED BY <1>1, <1>2, <1>3, FromTheEnd

-----------------------------------------------------------------------------
(* Lines.                                                                  *)

(* What one symbol makes of the ended lines and the begun one.              *)
Parts == [done : Seq(Text), line : Text]
Unsplit == [done |-> <<>>, line |-> <<>>]
Longer(w, second, c) ==
  IF second THEN w
  ELSE IF c \in Breaks
    THEN [done |-> Append(w.done, w.line), line |-> <<>>]
  ELSE [done |-> w.done, line |-> Append(w.line, c)]

LEMMA LongerType ==
  ASSUME NEW w \in Parts, NEW second, NEW c \in Symbols
  PROVE  Longer(w, second, c) \in Parts
<1>1. w.done \in Seq(Text) /\ w.line \in Text /\ <<>> \in Text
  BY DEF Parts, Text
<1>2. Append(w.done, w.line) \in Seq(Text)
  BY <1>1, AppendProperties
<1>3. Append(w.line, c) \in Text
  BY <1>1, AppendProperties DEF Text
<1> QED BY <1>1, <1>2, <1>3 DEF Longer, Parts

(* The parts of the first symbols of a text.                               *)
Splits(text, s) ==
  /\ \A i \in 0..Len(text) : s[i] \in Parts
  /\ s[0] = Unsplit
  /\ \A i \in 1..Len(text) :
       s[i] = Longer(s[i - 1], Second(text, i), text[i])

LEMMA SplitRecursion ==
  ASSUME NEW text \in Text
  PROVE  \E s : Splits(text, s) /\ Split(text) = s[Len(text)]
<1> DEFINE N == Len(text)
           More(i, v) == Longer(v, Second(text, i), text[i])
           step == [i \in 1..N |-> [v \in Parts |-> More(i, v)]]
<1>1. N \in Nat /\ Unsplit \in Parts
  BY DEF Text, Unsplit, Parts
<1>2. ASSUME NEW i \in 1..N, NEW v \in Parts
      PROVE  More(i, v) \in Parts
  <2>1. text[i] \in Symbols
    BY ElementOfSeq DEF Text
  <2> QED BY <2>1, LongerType
<1>3. Steps(step, N, Parts)
  <2> HIDE DEF More
  <2> QED BY <1>2 DEF Steps
<1>4. \A i \in 1..N : \A v \in Parts : step[i][v] = More(i, v)
  <2> HIDE DEF More
  <2> QED OBVIOUS
<1> HIDE DEF step, More
<1>5. PICK f : Iterates(f, N, Parts, Unsplit, step)
  BY <1>1, <1>3, Recursion, Zenon
<1>6. /\ f \in [0..N -> Parts] /\ f[0] = Unsplit
      /\ \A i \in 1..N : f[i] = More(i, f[i - 1])
  <2>1. /\ f \in [0..N -> Parts] /\ f[0] = Unsplit
        /\ \A i \in 1..N : f[i] = step[i][f[i - 1]]
    BY <1>5 DEF Iterates
  <2>2. \A i \in 1..N : f[i - 1] \in Parts
    BY <1>1, <2>1
  <2> QED BY <1>4, <2>1, <2>2
<1> DEFINE Is(g) ==
             g = [i \in 0..N |->
                    IF i = 0 THEN [done |-> <<>>, line |-> <<>>]
                    ELSE LET s == g[i - 1] IN
                      IF Second(text, i) THEN s
                      ELSE IF text[i] \in Breaks
                        THEN [done |-> Append(s.done, s.line), line |-> <<>>]
                      ELSE [done |-> s.done, line |-> Append(s.line, text[i])]]
           Step(g) == g = [i \in 0..N |-> IF i = 0 THEN Unsplit
                                          ELSE More(i, g[i - 1])]
<1>7. \A g : Is(g) <=> Step(g)
  BY DEF More, Longer, Unsplit
<1>8. Step(f)
  <2>1. \A i \in 0..N : i # 0 => i \in 1..N
    BY <1>1
  <2> QED BY <1>6, <2>1
<1>9. PICK s : Step(s) /\ Split(text) = s[N]
  <2>1. Is(f)
    BY <1>7, <1>8
  <2>2. Is(CHOOSE g : Is(g))
    BY <2>1, Zenon
  <2>3. Split(text) = (CHOOSE g : Is(g))[N]
    BY Zenon DEF Split
  <2> HIDE DEF Is, Step
  <2> QED BY <1>7, <2>2, <2>3
<1>10. s[0] = Unsplit /\ \A i \in 1..N : s[i] = More(i, s[i - 1])
  <2>1. 0 \in 0..N /\ \A i \in 1..N : i \in 0..N /\ i # 0
    BY <1>1
  <2> QED BY <1>9, <2>1
<1>11. \A i \in 0..N : s[i] \in Parts
  <2> DEFINE T == {i \in 0..N : s[i] \in Parts}
  <2>1. 0 \in T
    BY <1>1, <1>10
  <2>2. \A i \in 0..(N - 1) : i \in T => i + 1 \in T
    <3> TAKE i \in 0..(N - 1)
    <3>1. i + 1 \in 1..N /\ i + 1 \in 0..N /\ (i + 1) - 1 = i
      BY <1>1
    <3>2. HAVE i \in T
    <3> QED BY <1>2, <1>10, <3>1, <3>2
  <2> HIDE DEF T
  <2>3. 0..N \subseteq T
    BY <1>1, <2>1, <2>2, InductionUpTo
  <2> QED BY <2>3 DEF T
<1>12. Splits(text, s)
  BY <1>10, <1>11 DEF Splits, More
<1> HIDE DEF Step
<1> QED BY <1>9, <1>12

LEMMA SplitType ==
  ASSUME NEW text \in Text
  PROVE  /\ Split(text) \in Parts
         /\ Split(text).done \in Seq(Text) /\ Split(text).line \in Text
<1>1. PICK s : Splits(text, s) /\ Split(text) = s[Len(text)]
  BY SplitRecursion
<1>2. Len(text) \in 0..Len(text)
  BY DEF Text
<1>3. Split(text) \in Parts
  BY <1>1, <1>2 DEF Splits
<1> QED BY <1>3 DEF Parts

LEMMA SplitEmpty == Split(<<>>) = Unsplit
<1>1. <<>> \in Text /\ Len(<<>>) = 0
  BY DEF Text
<1>2. PICK s : Splits(<<>>, s) /\ Split(<<>>) = s[Len(<<>>)]
  BY <1>1, SplitRecursion
<1> QED BY <1>1, <1>2 DEF Splits

(* A symbol more at the end of a text.                                     *)
LEMMA SplitAppend ==
  ASSUME NEW text \in Text, NEW c \in Symbols,
         NEW more, more = Append(text, c)
  PROVE  Split(more) = Longer(Split(text), Second(more, Len(text) + 1), c)
<1> DEFINE N == Len(text)
<1>1. N \in Nat
  BY DEF Text
<1>2. /\ more \in Text /\ Len(more) = N + 1 /\ more[N + 1] = c
      /\ \A i \in 1..N : more[i] = text[i]
  BY AppendProperties DEF Text
<1>3. PICK s : Splits(text, s) /\ Split(text) = s[N]
  BY SplitRecursion
<1>4. PICK t : Splits(more, t) /\ Split(more) = t[N + 1]
  BY <1>2, SplitRecursion
<1> DEFINE T == {i \in 0..N : s[i] = t[i]}
<1>5. 0 \in T
  BY <1>1, <1>3, <1>4 DEF Splits
<1>6. \A i \in 0..(N - 1) : i \in T => i + 1 \in T
  <2> SUFFICES ASSUME NEW i \in 0..(N - 1), i \in T
               PROVE  i + 1 \in T
    OBVIOUS
  <2>1. i + 1 \in 1..N /\ i + 1 \in 0..N /\ (i + 1) - 1 = i
        /\ i + 1 \in 1..Len(more) /\ (i + 1 > 1 => i \in 1..N)
    BY <1>1, <1>2
  <2>2. s[i + 1] = Longer(s[i], Second(text, i + 1), text[i + 1])
    BY <1>3, <2>1 DEF Splits
  <2>3. t[i + 1] = Longer(t[i], Second(more, i + 1), more[i + 1])
    BY <1>4, <2>1 DEF Splits
  <2>4. Second(more, i + 1) = Second(text, i + 1) /\ more[i + 1] = text[i + 1]
    BY <1>2, <2>1 DEF Second
  <2>5. s[i] = t[i]
    OBVIOUS
  <2> QED BY <2>1, <2>2, <2>3, <2>4, <2>5
<1> HIDE DEF T
<1>7. N \in T
  <2>1. 0..N \subseteq T
    BY <1>1, <1>5, <1>6, InductionUpTo
  <2> QED BY <1>1, <2>1
<1>8. t[N + 1] = Longer(t[N], Second(more, N + 1), more[N + 1])
  <2>1. N + 1 \in 1..Len(more) /\ (N + 1) - 1 = N
    BY <1>1, <1>2
  <2> QED BY <1>4, <2>1 DEF Splits
<1> QED BY <1>2, <1>3, <1>4, <1>7, <1>8 DEF T

LEMMA LinesType ==
  ASSUME NEW text \in Text
  PROVE  Lines(text) \in Seq(Text)
<1>1. Split(text).done \in Seq(Text) /\ Split(text).line \in Text
  BY SplitType
<1>2. Append(Split(text).done, Split(text).line) \in Seq(Text)
  BY <1>1, AppendProperties
<1> QED BY <1>1, <1>2 DEF Lines

LEMMA UniversalText ==
  ASSUME NEW text \in Text
  PROVE  Universal(text) \in Text
<1> DEFINE N == Len(text)
           Read(c) == IF c = "\r" THEN "\n" ELSE c
           More(i, v) == IF Second(text, i) THEN v ELSE Append(v, Read(text[i]))
           step == [i \in 1..N |-> [v \in Text |-> More(i, v)]]
<1>1. N \in Nat /\ <<>> \in Text
  BY DEF Text
<1>2. ASSUME NEW i \in 1..N, NEW v \in Text
      PROVE  More(i, v) \in Text
  <2>1. text[i] \in Symbols /\ "\n" \in Symbols
    BY ElementOfSeq, Newline DEF Text
  <2>2. Read(text[i]) \in Symbols
    BY <2>1
  <2> HIDE DEF Read
  <2>3. Append(v, Read(text[i])) \in Text
    BY <2>2, AppendProperties DEF Text
  <2> QED BY <2>3
<1>3. Steps(step, N, Text)
  <2> HIDE DEF More
  <2> QED BY <1>2 DEF Steps
<1>4. \A i \in 1..N : \A v \in Text : step[i][v] = More(i, v)
  <2> HIDE DEF More
  <2> QED OBVIOUS
<1> HIDE DEF step, More
<1>5. PICK f : Iterates(f, N, Text, <<>>, step)
  BY <1>1, <1>3, Recursion, Zenon
<1>6. /\ f \in [0..N -> Text] /\ f[0] = <<>>
      /\ \A i \in 1..N : f[i] = More(i, f[i - 1])
  <2>1. /\ f \in [0..N -> Text] /\ f[0] = <<>>
        /\ \A i \in 1..N : f[i] = step[i][f[i - 1]]
    BY <1>5 DEF Iterates
  <2>2. \A i \in 1..N : f[i - 1] \in Text
    BY <1>1, <2>1
  <2> QED BY <1>4, <2>1, <2>2
<1> DEFINE Is(u) ==
             u = [i \in 0..N |->
                    IF i = 0 THEN <<>>
                    ELSE IF Second(text, i) THEN u[i - 1]
                    ELSE Append(u[i - 1], IF text[i] = "\r" THEN "\n" ELSE text[i])]
<1>7. Is(f)
  <2>1. \A i \in 0..N : i # 0 => i \in 1..N
    BY <1>1
  <2> QED BY <1>6, <2>1 DEF More
<1>8. PICK u : Is(u) /\ Universal(text) = u[N]
  BY <1>7, Zenon DEF Universal
<1>9. u[0] = <<>> /\ \A i \in 1..N : u[i] = More(i, u[i - 1])
  <2>1. 0 \in 0..N /\ \A i \in 1..N : i \in 0..N /\ i # 0
    BY <1>1
  <2> QED BY <1>8, <2>1 DEF More
<1> DEFINE T == {i \in 0..N : u[i] \in Text}
<1>10. 0 \in T
  BY <1>1, <1>9
<1>11. \A i \in 0..(N - 1) : i \in T => i + 1 \in T
  <2> TAKE i \in 0..(N - 1)
  <2>1. i + 1 \in 1..N /\ i + 1 \in 0..N /\ (i + 1) - 1 = i
    BY <1>1
  <2>2. HAVE i \in T
  <2> QED BY <1>2, <1>9, <2>1, <2>2
<1> HIDE DEF T, Is
<1>12. N \in T
  <2>1. 0..N \subseteq T
    BY <1>1, <1>10, <1>11, InductionUpTo
  <2> QED BY <1>1, <2>1
<1> QED BY <1>8, <1>12 DEF T

(* The lines with a newline between each and the next.                     *)
Glued(lines) ==
  LET text[i \in 0..Len(lines)] ==
        IF i = 0 THEN <<>>
        ELSE IF i = 1 THEN lines[1]
        ELSE text[i - 1] \o <<"\n">> \o lines[i]
  IN text[Len(lines)]

Glues(lines, g) ==
  /\ \A i \in 0..Len(lines) : g[i] \in Text
  /\ g[0] = <<>>
  /\ \A i \in 1..Len(lines) :
       g[i] = IF i = 1 THEN lines[1] ELSE g[i - 1] \o <<"\n">> \o lines[i]

LEMMA GluedRecursion ==
  ASSUME NEW lines \in Seq(Text)
  PROVE  \E g : Glues(lines, g) /\ Glued(lines) = g[Len(lines)]
<1> DEFINE N == Len(lines)
           V == Text
           More(i, v) == IF i = 1 THEN lines[1] ELSE v \o <<"\n">> \o lines[i]
           step == [i \in 1..N |-> [v \in V |-> More(i, v)]]
<1>1. N \in Nat /\ <<>> \in V
  BY DEF Text
<1>2. ASSUME NEW i \in 1..N, NEW v \in V
      PROVE  More(i, v) \in V
  <2>1. lines[i] \in Text /\ lines[1] \in Text
    BY <1>1, ElementOfSeq
  <2>2. <<"\n">> \in Seq(Symbols)
    BY Newline DEF Text
  <2>3. v \o <<"\n">> \in Seq(Symbols)
    BY <2>2, ConcatProperties DEF Text
  <2>4. v \o <<"\n">> \o lines[i] \in Seq(Symbols)
    BY <2>1, <2>3, ConcatProperties DEF Text
  <2> QED BY <2>1, <2>4 DEF Text
<1>3. Steps(step, N, V)
  <2> HIDE DEF V, More
  <2> QED BY <1>2 DEF Steps
<1>4. \A i \in 1..N : \A v \in V : step[i][v] = More(i, v)
  <2> HIDE DEF V, More
  <2> QED OBVIOUS
<1> HIDE DEF step, More, V
<1>5. PICK f : Iterates(f, N, V, <<>>, step)
  BY <1>1, <1>3, Recursion, Zenon
<1>6. /\ f \in [0..N -> V] /\ f[0] = <<>>
      /\ \A i \in 1..N : f[i] = More(i, f[i - 1])
  <2>1. /\ f \in [0..N -> V] /\ f[0] = <<>>
        /\ \A i \in 1..N : f[i] = step[i][f[i - 1]]
    BY <1>5 DEF Iterates
  <2>2. \A i \in 1..N : f[i - 1] \in V
    BY <1>1, <2>1
  <2> QED BY <1>4, <2>1, <2>2
<1> DEFINE Is(g) ==
             g = [i \in 0..N |->
                    IF i = 0 THEN <<>>
                    ELSE IF i = 1 THEN lines[1]
                    ELSE g[i - 1] \o <<"\n">> \o lines[i]]
<1>7. Is(f)
  <2>1. \A i \in 0..N : i # 0 => i \in 1..N
    BY <1>1
  <2> QED BY <1>6, <2>1 DEF More
<1>8. PICK g : Is(g) /\ Glued(lines) = g[N]
  BY <1>7, Zenon DEF Glued
<1>9. g[0] = <<>> /\ \A i \in 1..N : g[i] = More(i, g[i - 1])
  <2>1. 0 \in 0..N /\ \A i \in 1..N : i \in 0..N /\ i # 0
    BY <1>1
  <2> QED BY <1>8, <2>1 DEF More
<1>10. \A i \in 0..N : g[i] \in V
  <2> DEFINE T == {i \in 0..N : g[i] \in V}
  <2>1. 0 \in T
    BY <1>1, <1>9
  <2>2. \A i \in 0..(N - 1) : i \in T => i + 1 \in T
    <3> TAKE i \in 0..(N - 1)
    <3>1. i + 1 \in 1..N /\ i + 1 \in 0..N /\ (i + 1) - 1 = i
      BY <1>1
    <3>2. HAVE i \in T
    <3> QED BY <1>2, <1>9, <3>1, <3>2
  <2> HIDE DEF T
  <2>3. 0..N \subseteq T
    BY <1>1, <2>1, <2>2, InductionUpTo
  <2> QED BY <2>3 DEF T
<1>11. Glues(lines, g)
  BY <1>9, <1>10 DEF Glues, V, More
<1> HIDE DEF Is
<1> QED BY <1>8, <1>11

LEMMA GluedOne ==
  ASSUME NEW l \in Text
  PROVE  Glued(<<l>>) = l
<1>1. <<l>> \in Seq(Text) /\ Len(<<l>>) = 1 /\ <<l>>[1] = l
  BY OneSymbol
<1>2. PICK g : Glues(<<l>>, g) /\ Glued(<<l>>) = g[Len(<<l>>)]
  BY <1>1, GluedRecursion
<1>3. 1 \in 1..Len(<<l>>)
  BY <1>1
<1>4. g[1] = <<l>>[1]
  BY <1>2, <1>3 DEF Glues
<1> QED BY <1>1, <1>2, <1>4

LEMMA GluedAppend ==
  ASSUME NEW lines \in Seq(Text), lines # <<>>, NEW l \in Text
  PROVE  Glued(Append(lines, l)) = Glued(lines) \o <<"\n">> \o l
<1> DEFINE N == Len(lines)
           more == Append(lines, l)
<1>1. N \in Nat /\ N >= 1
  BY EmptySeq
<1>2. /\ more \in Seq(Text) /\ Len(more) = N + 1 /\ more[N + 1] = l
      /\ \A i \in 1..N : more[i] = lines[i]
  BY AppendProperties
<1> HIDE DEF more
<1>3. PICK g : Glues(lines, g) /\ Glued(lines) = g[N]
  BY GluedRecursion
<1>4. PICK h : Glues(more, h) /\ Glued(more) = h[N + 1]
  BY <1>2, GluedRecursion
<1> DEFINE T == {i \in 0..N : h[i] = g[i]}
<1>5. 0 \in T
  BY <1>1, <1>3, <1>4 DEF Glues
<1>6. \A i \in 0..(N - 1) : i \in T => i + 1 \in T
  <2> SUFFICES ASSUME NEW i \in 0..(N - 1), i \in T
               PROVE  i + 1 \in T
    OBVIOUS
  <2>1. i + 1 \in 1..N /\ i + 1 \in 1..Len(more) /\ i + 1 \in 0..N
        /\ (i + 1) - 1 = i /\ 1 \in 1..N
    BY <1>1, <1>2
  <2>2. g[i + 1] = IF i + 1 = 1 THEN lines[1] ELSE g[i] \o <<"\n">> \o lines[i + 1]
    BY <1>3, <2>1 DEF Glues
  <2>3. h[i + 1] = IF i + 1 = 1 THEN more[1] ELSE h[i] \o <<"\n">> \o more[i + 1]
    BY <1>4, <2>1 DEF Glues
  <2> QED BY <1>2, <2>1, <2>2, <2>3
<1> HIDE DEF T
<1>7. N \in T
  <2>1. 0..N \subseteq T
    BY <1>1, <1>5, <1>6, InductionUpTo
  <2> QED BY <1>1, <2>1
<1>8. h[N + 1] = h[N] \o <<"\n">> \o more[N + 1]
  <2>1. N + 1 \in 1..Len(more) /\ N + 1 # 1 /\ (N + 1) - 1 = N
    BY <1>1, <1>2
  <2> QED BY <1>4, <2>1 DEF Glues
<1>9. h[N] = g[N]
  BY <1>7 DEF T
<1> QED BY <1>2, <1>3, <1>4, <1>8, <1>9 DEF more

LEMMA GluedText ==
  ASSUME NEW lines \in Seq(Text)
  PROVE  Glued(lines) \in Text
<1>1. PICK g : Glues(lines, g) /\ Glued(lines) = g[Len(lines)]
  BY GluedRecursion
<1>2. Len(lines) \in 0..Len(lines)
  OBVIOUS
<1> QED BY <1>1, <1>2 DEF Glues

(* A symbol more in the last line.                                         *)
LEMMA GluedLonger ==
  ASSUME NEW done \in Seq(Text), NEW line \in Text, NEW c \in Symbols
  PROVE  Glued(Append(done, Append(line, c)))
           = Glued(Append(done, line)) \o <<c>>
<1>1. Append(line, c) \in Text /\ Append(line, c) = line \o <<c>>
  BY AppendProperties, AppendIsConcat DEF Text
<1>2. CASE done = <<>>
  <2>1. /\ Append(done, line) = <<line>>
        /\ Append(done, Append(line, c)) = <<Append(line, c)>>
    BY <1>1, <1>2, OneSymbol
  <2> QED BY <1>1, <2>1, GluedOne
<1>3. CASE done # <<>>
  <2> DEFINE g == Glued(done) \o <<"\n">>
             x == <<c>>
  <2>1. g \in Seq(Symbols) /\ x \in Seq(Symbols) /\ line \in Seq(Symbols)
    BY GluedText, Newline, OneSymbol, ConcatProperties DEF Text
  <2>2. Glued(Append(done, Append(line, c))) = g \o Append(line, c)
    BY <1>1, <1>3, GluedAppend
  <2>3. Glued(Append(done, line)) = g \o line
    BY <1>3, GluedAppend
  <2>4. g \o Append(line, c) = g \o (line \o x)
    BY <1>1
  <2> HIDE DEF g, x
  <2>5. (g \o line) \o x = g \o (line \o x)
    <3>1. Associative(g, line, x)
      BY <2>1, Associates
    <3> QED BY <3>1 DEF Associative
  <2>6. Glued(Append(done, Append(line, c))) = (g \o line) \o x
    BY <2>2, <2>4, <2>5
  <2>7. Glued(Append(done, Append(line, c))) = Glued(Append(done, line)) \o x
    BY <2>3, <2>6
  <2> QED BY <2>7 DEF x
<1> QED BY <1>2, <1>3

(* What the parts of a text are when they are joined again, after some of   *)
(* its symbols: a text with the same parts, and the same text if all lines  *)
(* end with \n.  It has no \r left, so that no \n that follows is a second.  *)
Again(text) == Glued(Append(Split(text).done, Split(text).line))

Rejoins(text) ==
  /\ Again(text) \in Text
  /\ \A i \in 1..Len(Again(text)) : Again(text)[i] # "\r"
  /\ Split(Again(text)) = Split(text)
  /\ UnixText(text) => Again(text) = text

LEMMA PrefixText ==
  ASSUME NEW text \in Text, NEW i \in 0..Len(text)
  PROVE  SubSeq(text, 1, i) \in Text
<1>1. Len(text) \in Nat /\ \A j \in 1..i : text[j] \in Symbols
  BY ElementOfSeq DEF Text
<1>2. 1 \in Int /\ i \in Int /\ i \in Nat
  BY <1>1
<1>3. SubSeq(text, 1, i) \in Text
  BY <1>1, <1>2, SubSeqProperties DEF Text
<1> QED BY <1>3

LEMMA RejoinsEmpty == Rejoins(<<>>)
<1>1. <<>> \in Text /\ Len(<<>>) = 0
  BY DEF Text
<1>2. Append(Split(<<>>).done, Split(<<>>).line) = <<<<>>>>
  <2>1. Split(<<>>).done = <<>> /\ Split(<<>>).line = <<>>
    BY SplitEmpty DEF Unsplit
  <2> QED BY <1>1, <2>1, OneSymbol
<1>3. Again(<<>>) = <<>>
  BY <1>1, <1>2, GluedOne DEF Again
<1> QED BY <1>1, <1>3 DEF Rejoins

LEMMA RejoinsAppend ==
  ASSUME NEW text \in Text, NEW c \in Symbols, Rejoins(text)
  PROVE  Rejoins(Append(text, c))
<1> DEFINE N == Len(text)
           more == Append(text, c)
           w == Split(text)
           g == Again(text)
<1>1. N \in Nat /\ w \in Parts /\ w.done \in Seq(Text) /\ w.line \in Text
  BY SplitType DEF Text
<1>2. /\ more \in Text /\ Len(more) = N + 1 /\ more[N + 1] = c
      /\ \A i \in 1..N : more[i] = text[i]
  BY AppendProperties DEF Text
<1>3. /\ g \in Text /\ \A i \in 1..Len(g) : g[i] # "\r"
      /\ Split(g) = w
      /\ UnixText(text) => g = text
  BY DEF Rejoins
<1>4. g = Glued(Append(w.done, w.line))
  BY DEF Again
<1>5. more = Append(text, c)
  OBVIOUS
<1> HIDE DEF more, w, g
<1>6. Split(more) = Longer(w, Second(more, N + 1), c)
  BY <1>5, SplitAppend DEF w
<1>7. UnixText(more) => UnixText(text) /\ (c \in Breaks => c = "\n")
                        /\ ~Second(more, N + 1)
  <2> SUFFICES ASSUME UnixText(more)
               PROVE  UnixText(text) /\ (c \in Breaks => c = "\n")
                      /\ ~Second(more, N + 1)
    OBVIOUS
  <2>1. DOMAIN more = 1..(N + 1) /\ DOMAIN text = 1..N
    BY <1>1, <1>2 DEF Text
  <2>2. \A i \in 1..(N + 1) : more[i] \in Breaks => more[i] = "\n"
    BY <2>1 DEF UnixText, Range
  <2>3. N + 1 \in 1..(N + 1) /\ \A i \in 1..N : i \in 1..(N + 1)
    BY <1>1
  <2>4. \A i \in 1..N : text[i] \in Breaks => text[i] = "\n"
    BY <1>2, <2>2, <2>3
  <2>5. UnixText(text)
    BY <2>1, <2>4 DEF UnixText, Range
  <2>6. c \in Breaks => c = "\n"
    BY <1>2, <2>2, <2>3
  <2>7. ~Second(more, N + 1)
    <3>1. (N + 1) - 1 = N /\ (N + 1 > 1 => N \in 1..(N + 1))
      BY <1>1
    <3>2. "\r" \in Breaks /\ "\r" # "\n"
      BY DEF Breaks
    <3> QED BY <2>2, <3>1, <3>2 DEF Second
  <2> QED BY <2>5, <2>6, <2>7
(* A symbol that ends no text of Again as a second half.                    *)
<1>8. ASSUME NEW d \in Symbols
      PROVE  /\ Append(g, d) \in Text
             /\ Split(Append(g, d)) = Longer(w, FALSE, d)
             /\ d # "\r" => \A i \in 1..Len(Append(g, d)) : Append(g, d)[i] # "\r"
  <2> DEFINE h == Append(g, d)
             M == Len(g)
  <2>1. M \in Nat
    BY <1>3 DEF Text
  <2>2. /\ h \in Text /\ Len(h) = M + 1 /\ h[M + 1] = d
        /\ \A i \in 1..M : h[i] = g[i]
    BY <1>3, AppendProperties DEF Text
  <2>3. h = Append(g, d)
    OBVIOUS
  <2> HIDE DEF h
  <2>4. Split(h) = Longer(Split(g), Second(h, M + 1), d)
    BY <1>3, <2>3, SplitAppend
  <2>5. ~Second(h, M + 1)
    <3>1. (M + 1) - 1 = M /\ (M + 1 > 1 => M \in 1..M)
      BY <2>1
    <3> QED BY <1>3, <2>2, <3>1 DEF Second
  <2>6. Split(h) = Longer(w, FALSE, d)
    BY <1>3, <2>4, <2>5 DEF Longer
  <2>7. \A i \in 1..(M + 1) : i = M + 1 \/ i \in 1..M
    BY <2>1
  <2>8. d # "\r" => \A i \in 1..Len(h) : h[i] # "\r"
    BY <1>3, <2>2, <2>7
  <2> QED BY <2>2, <2>6, <2>8 DEF h
<1>9. CASE Second(more, N + 1)
  <2>1. Split(more) = w
    BY <1>6, <1>9 DEF Longer
  <2>2. Again(more) = g
    BY <1>4, <2>1 DEF Again
  <2> QED BY <1>3, <1>7, <1>9, <2>1, <2>2 DEF Rejoins, more
<1>10. CASE ~Second(more, N + 1) /\ c \in Breaks
  <2>1. Split(more) = [done |-> Append(w.done, w.line), line |-> <<>>]
    BY <1>6, <1>10 DEF Longer
  <2> DEFINE d == Append(w.done, w.line)
  <2>2. d \in Seq(Text) /\ d # <<>> /\ <<>> \in Text
    <3>1. <<>> \in Text
      BY DEF Text
    <3> QED BY <1>1, <3>1, AppendProperties
  <2>3. g = Glued(d)
    BY <1>4
  <2>4. Again(more) = Glued(Append(d, <<>>))
    BY <2>1 DEF Again
  <2> HIDE DEF d
  <2>5. Glued(Append(d, <<>>)) = g \o <<"\n">> \o <<>>
    BY <2>2, <2>3, GluedAppend
  <2>6. g \o <<"\n">> \in Seq(Symbols)
    BY <1>3, Newline, ConcatProperties DEF Text
  <2>7. (g \o <<"\n">>) \o <<>> = g \o <<"\n">>
    BY <2>6, ConcatEmptySeq
  <2>8. g \o <<"\n">> = Append(g, "\n")
    BY <1>3, Newline, AppendIsConcat DEF Text
  <2>9. Again(more) = Append(g, "\n")
    BY <2>4, <2>5, <2>7, <2>8
  <2>10. /\ Append(g, "\n") \in Text
         /\ Split(Append(g, "\n")) = Longer(w, FALSE, "\n")
         /\ \A i \in 1..Len(Append(g, "\n")) : Append(g, "\n")[i] # "\r"
    BY <1>8, Newline
  <2>11. Longer(w, FALSE, "\n") = Split(more)
    BY <2>1 DEF Longer, Breaks
  <2>12. UnixText(more) => Append(g, "\n") = more
    BY <1>3, <1>5, <1>7, <1>10
  <2> QED BY <2>9, <2>10, <2>11, <2>12 DEF Rejoins, more
<1>11. CASE ~Second(more, N + 1) /\ c \notin Breaks
  <2>1. Split(more) = [done |-> w.done, line |-> Append(w.line, c)]
    BY <1>6, <1>11 DEF Longer
  <2>2. Again(more) = Glued(Append(w.done, Append(w.line, c)))
    BY <2>1 DEF Again
  <2>3. Again(more) = g \o <<c>>
    BY <1>1, <1>4, <2>2, GluedLonger
  <2>4. Again(more) = Append(g, c)
    BY <1>3, <2>3, AppendIsConcat DEF Text
  <2>5. c # "\r"
    BY <1>11 DEF Breaks
  <2>6. /\ Append(g, c) \in Text
        /\ Split(Append(g, c)) = Longer(w, FALSE, c)
        /\ \A i \in 1..Len(Append(g, c)) : Append(g, c)[i] # "\r"
    BY <1>8, <2>5
  <2>7. Longer(w, FALSE, c) = Split(more)
    BY <1>6, <1>11 DEF Longer
  <2>8. UnixText(more) => Append(g, c) = more
    BY <1>3, <1>5, <1>7
  <2> QED BY <2>4, <2>6, <2>7, <2>8 DEF Rejoins, more
<1> QED BY <1>9, <1>10, <1>11

LEMMA AllRejoin ==
  ASSUME NEW text \in Text
  PROVE  Rejoins(text)
<1> DEFINE N == Len(text)
           T == {i \in 0..N : Rejoins(SubSeq(text, 1, i))}
<1>1. N \in Nat
  BY DEF Text
<1>2. 0 \in T
  <2>1. SubSeq(text, 1, 0) = <<>>
    BY SubSeqEmpty
  <2>2. Rejoins(SubSeq(text, 1, 0))
    BY <2>1, RejoinsEmpty
  <2> QED BY <1>1, <2>2
<1>3. \A i \in 0..(N - 1) : i \in T => i + 1 \in T
  <2> SUFFICES ASSUME NEW i \in 0..(N - 1), Rejoins(SubSeq(text, 1, i))
               PROVE  i + 1 \in 0..N /\ Rejoins(SubSeq(text, 1, i + 1))
    OBVIOUS
  <2>1. i + 1 \in 1..N /\ i + 1 \in 0..N /\ (i + 1) - 1 = i /\ i \in 0..N
        /\ 1 \in 1..N
    BY <1>1
  <2>2. SubSeq(text, 1, i) \in Text
    BY <2>1, PrefixText
  <2>3. text[i + 1] \in Symbols
    BY <2>1, ElementOfSeq DEF Text
  <2>4. SubSeq(text, 1, i + 1) = SubSeq(text, 1, i) \o <<text[i + 1]>>
    BY <2>1, SubSeqRecursiveSecond DEF Text
  <2>5. SubSeq(text, 1, i + 1) = Append(SubSeq(text, 1, i), text[i + 1])
    BY <2>2, <2>3, <2>4, AppendIsConcat DEF Text
  <2> QED BY <2>1, <2>2, <2>3, <2>5, RejoinsAppend
<1> HIDE DEF T
<1>4. N \in T
  <2>1. 0..N \subseteq T
    BY <1>1, <1>2, <1>3, InductionUpTo
  <2> QED BY <1>1, <2>1
<1>5. SubSeq(text, 1, N) = text
  BY SubSeqFull DEF Text
<1> QED BY <1>4, <1>5 DEF T

(* The begun line of a text is empty if and only if a break ends the text.  *)
LEMMA BegunLine ==
  ASSUME NEW text \in Text, text # <<>>
  PROVE  /\ Last(text) \in Breaks =>
              Split(text).line = <<>> /\ Split(text).done # <<>>
         /\ Last(text) \notin Breaks => Split(text).line # <<>>
<1> DEFINE N == Len(text)
<1>1. N \in Nat /\ N >= 1
  BY EmptySeq DEF Text
<1>2. Last(text) = text[N]
  BY DEF Last
<1>3. PICK s : Splits(text, s) /\ Split(text) = s[N]
  BY SplitRecursion
(* The second half of a \r\n finds what the \r has left.                    *)
<1>4. ASSUME NEW i \in 1..N, ~Second(text, i)
      PROVE  /\ text[i] \in Breaks => s[i].line = <<>> /\ s[i].done # <<>>
             /\ text[i] \notin Breaks => s[i].line # <<>>
  <2>1. i - 1 \in 0..N
    BY <1>1
  <2>2. s[i - 1] \in Parts /\ s[i] = Longer(s[i - 1], FALSE, text[i])
    BY <1>3, <1>4, <2>1 DEF Splits, Longer
  <2>3. s[i - 1].done \in Seq(Text) /\ s[i - 1].line \in Text
    BY <2>2 DEF Parts
  <2>4. text[i] \in Symbols
    BY ElementOfSeq DEF Text
  <2>5. Append(s[i - 1].done, s[i - 1].line) # <<>>
    BY <2>3, AppendProperties
  <2>6. Append(s[i - 1].line, text[i]) # <<>>
    <3> DEFINE l == s[i - 1].line
               c == text[i]
    <3>1. l \in Seq(Symbols) /\ c \in Symbols
      BY <2>3, <2>4 DEF Text
    <3> HIDE DEF l, c
    <3>2. Append(l, c) # <<>>
      BY <3>1, AppendProperties
    <3> QED BY <3>2 DEF l, c
  <2> QED BY <2>2, <2>5, <2>6 DEF Longer
<1>5. CASE ~Second(text, N)
  <2>1. N \in 1..N
    BY <1>1
  <2> QED BY <1>2, <1>3, <1>4, <1>5, <2>1
<1>6. CASE Second(text, N)
  <2>1. N > 1 /\ text[N - 1] = "\r" /\ text[N] = "\n"
    BY <1>6 DEF Second
  <2>2. N \in 1..N /\ N - 1 \in 1..N
    BY <1>1, <2>1
  <2>3. s[N] = s[N - 1]
    BY <1>3, <1>6, <2>2 DEF Splits, Longer
  <2>4. ~Second(text, N - 1) /\ text[N - 1] \in Breaks /\ text[N] \in Breaks
    BY <2>1 DEF Second, Breaks
  <2> QED BY <1>2, <1>3, <1>4, <2>2, <2>3, <2>4
<1> QED BY <1>5, <1>6

(* The lines of a text, joined again with a newline at the end if the text  *)
(* ends with a whole line.                                                 *)
LEMMA JoinedLines ==
  ASSUME NEW text \in Text, NEW original, KeepsEnd(text, original)
  PROVE  /\ Lines(Joined(Lines(text), original)) = Lines(text)
         /\ UnixText(text) => Joined(Lines(text), original) = text
<1>1. text # <<>> /\ (Last(text) \in Breaks <=> EndsLine(original))
  BY DEF KeepsEnd
<1> DEFINE w == Split(text)
           g == Again(text)
           joined == Joined(Lines(text), original)
<1>2. w.done \in Seq(Text) /\ w.line \in Text
  BY SplitType
<1>3. g \in Text /\ Split(g) = w /\ (UnixText(text) => g = text)
  BY AllRejoin DEF Rejoins
<1>4. g = Glued(Append(w.done, w.line))
  BY DEF Again
<1>5. joined = Glued(Lines(text))
                 \o (IF EndsLine(original) THEN <<"\n">> ELSE <<>>)
  BY DEF Joined, Glued
<1>6. Lines(text) = IF w.line = <<>> THEN w.done ELSE Append(w.done, w.line)
  BY DEF Lines
<1>7. /\ Last(text) \in Breaks => w.line = <<>> /\ w.done # <<>>
      /\ Last(text) \notin Breaks => w.line # <<>>
  BY <1>1, BegunLine
<1>8. Lines(g) = Lines(text)
  BY <1>3 DEF Lines
<1> HIDE DEF w, g, joined
<1>9. joined = g
  <2>1. CASE Last(text) \in Breaks
    <3>1. Lines(text) = w.done /\ w.line = <<>> /\ w.done # <<>>
      BY <1>6, <1>7, <2>1
    <3>2. g = Glued(w.done) \o <<"\n">> \o <<>>
      BY <1>2, <1>4, <3>1, GluedAppend
    <3>3. Glued(w.done) \o <<"\n">> \in Seq(Symbols)
      BY <1>2, GluedText, Newline, ConcatProperties DEF Text
    <3>4. (Glued(w.done) \o <<"\n">>) \o <<>> = Glued(w.done) \o <<"\n">>
      BY <3>3, ConcatEmptySeq
    <3>5. joined = Glued(w.done) \o <<"\n">>
      BY <1>1, <1>5, <2>1, <3>1
    <3> QED BY <3>2, <3>4, <3>5
  <2>2. CASE Last(text) \notin Breaks
    <3>1. Lines(text) = Append(w.done, w.line)
      BY <1>6, <1>7, <2>2
    <3>2. g \o <<>> = g
      BY <1>3, ConcatEmptySeq DEF Text
    <3>3. joined = g \o <<>>
      BY <1>1, <1>4, <1>5, <2>2, <3>1
    <3> QED BY <3>2, <3>3
  <2> QED BY <2>1, <2>2
<1> QED BY <1>3, <1>8, <1>9 DEF joined

-----------------------------------------------------------------------------
(* Counting marks.                                                         *)

Marks == {" ", "-", "+"}
Ops == [mark : Marks, line : Text]

LEMMA CountType ==
  ASSUME NEW ops, NEW marks, NEW n \in Nat
  PROVE  /\ CountTo(ops, marks, n) \in Nat
         /\ IsFiniteSet({i \in 1..n : ops[i].mark \in marks})
<1>1. IsFiniteSet(1..n)
  BY FS_Interval
<1>2. {i \in 1..n : ops[i].mark \in marks} \subseteq 1..n
  OBVIOUS
<1>3. IsFiniteSet({i \in 1..n : ops[i].mark \in marks})
  BY <1>1, <1>2, FS_Subset
<1> QED BY <1>3, FS_CardinalityType DEF CountTo

LEMMA CountZero ==
  ASSUME NEW ops, NEW marks
  PROVE  CountTo(ops, marks, 0) = 0
<1>1. {i \in 1..0 : ops[i].mark \in marks} = {}
  OBVIOUS
<1> QED BY <1>1, FS_EmptySet DEF CountTo

LEMMA CountNext ==
  ASSUME NEW ops, NEW marks, NEW n \in Nat
  PROVE  CountTo(ops, marks, n + 1)
           = CountTo(ops, marks, n)
               + (IF ops[n + 1].mark \in marks THEN 1 ELSE 0)
<1> DEFINE S == {i \in 1..n : ops[i].mark \in marks}
           T == {i \in 1..(n + 1) : ops[i].mark \in marks}
<1>1. IsFiniteSet(S) /\ Cardinality(S) \in Nat
  BY CountType, FS_CardinalityType
<1>2. \A i \in 1..(n + 1) : i \in 1..n \/ i = n + 1
  OBVIOUS
<1>3. n + 1 \in 1..(n + 1) /\ n + 1 \notin 1..n /\ 1..n \subseteq 1..(n + 1)
  OBVIOUS
<1>4. CASE ops[n + 1].mark \in marks
  <2>1. T = S \cup {n + 1} /\ n + 1 \notin S
    BY <1>2, <1>3, <1>4
  <2> HIDE DEF S, T
  <2>2. Cardinality(T) = Cardinality(S) + 1
    BY <1>1, <2>1, FS_AddElement
  <2> QED BY <1>4, <2>2 DEF CountTo, S, T
<1>5. CASE ops[n + 1].mark \notin marks
  <2>1. T = S
    BY <1>2, <1>3, <1>5
  <2>2. Cardinality(T) = Cardinality(S) + 0
    <3> HIDE DEF S, T
    <3> QED BY <1>1, <2>1
  <2> QED BY <1>5, <2>2 DEF CountTo
<1> QED BY <1>4, <1>5

LEMMA CountSame ==
  ASSUME NEW ops, NEW other, NEW marks, NEW n \in Nat,
         \A i \in 1..n : ops[i] = other[i]
  PROVE  CountTo(ops, marks, n) = CountTo(other, marks, n)
<1>1. {i \in 1..n : ops[i].mark \in marks} = {i \in 1..n : other[i].mark \in marks}
  OBVIOUS
<1> QED BY <1>1 DEF CountTo

LEMMA CountGrows ==
  ASSUME NEW ops, NEW marks, NEW m \in Nat, NEW n \in Nat, m <= n
  PROVE  CountTo(ops, marks, m) <= CountTo(ops, marks, n)
<1> DEFINE S == {i \in 1..m : ops[i].mark \in marks}
           T == {i \in 1..n : ops[i].mark \in marks}
<1>1. S \subseteq T
  OBVIOUS
<1>2. IsFiniteSet(T)
  BY CountType
<1> HIDE DEF S, T
<1>3. Cardinality(S) <= Cardinality(T)
  BY <1>1, <1>2, FS_Subset
<1> QED BY <1>3 DEF CountTo, S, T

(* Counting in a part of a script.                                         *)
LEMMA CountPart ==
  ASSUME NEW ops, NEW body, NEW marks, NEW from \in Nat, NEW n \in Nat,
         \A i \in 1..n : body[i] = ops[from + i]
  PROVE  CountTo(ops, marks, from + n)
           = CountTo(ops, marks, from) + CountTo(body, marks, n)
<1> DEFINE C(k) == CountTo(ops, marks, k)
           B(k) == CountTo(body, marks, k)
           T == {k \in 0..n : C(from + k) = C(from) + B(k)}
<1>1. \A k \in Nat : C(k) \in Nat /\ B(k) \in Nat
  BY CountType
<1>2. 0 \in T
  <2>1. B(0) = 0 /\ from + 0 = from
    BY CountZero
  <2> HIDE DEF C, B
  <2> QED BY <1>1, <2>1
<1>3. \A k \in 0..(n - 1) : k \in T => k + 1 \in T
  <2> SUFFICES ASSUME NEW k \in 0..(n - 1), k \in T
               PROVE  k + 1 \in T
    OBVIOUS
  <2>1. /\ k \in Nat /\ from + k \in Nat /\ k + 1 \in 1..n /\ k + 1 \in 0..n
        /\ (from + k) + 1 = from + (k + 1)
    OBVIOUS
  <2>2. C((from + k) + 1) = C(from + k)
                              + (IF ops[(from + k) + 1].mark \in marks THEN 1 ELSE 0)
    BY <2>1, CountNext
  <2>3. B(k + 1) = B(k) + (IF body[k + 1].mark \in marks THEN 1 ELSE 0)
    BY <2>1, CountNext
  <2>4. body[k + 1] = ops[(from + k) + 1]
    BY <2>1
  <2>5. C(from + k) = C(from) + B(k)
    OBVIOUS
  <2> HIDE DEF C, B
  <2>6. C(from + (k + 1)) = C(from) + B(k + 1)
    BY <1>1, <2>1, <2>2, <2>3, <2>4, <2>5
  <2> QED BY <2>1, <2>6
<1> HIDE DEF T
<1>4. n \in T
  <2>1. 0..n \subseteq T
    BY <1>2, <1>3, InductionUpTo
  <2> QED BY <2>1
<1> QED BY <1>4 DEF T

-----------------------------------------------------------------------------
(* The script of two texts.                                                *)

(* A script of the first i lines of a and the first j of b: its lines with  *)
(* an old mark are those of a, its lines with a new mark those of b.        *)
Relates(ops, a, b, i, j) ==
  /\ ops \in Seq(Ops)
  /\ CountTo(ops, OldMarks, Len(ops)) = i
  /\ CountTo(ops, NewMarks, Len(ops)) = j
  /\ \A t \in 1..Len(ops) :
       /\ ops[t].mark \in OldMarks => ops[t].line = a[CountTo(ops, OldMarks, t)]
       /\ ops[t].mark \in NewMarks => ops[t].line = b[CountTo(ops, NewMarks, t)]

LEMMA RelatesMore ==
  ASSUME NEW a, NEW b, NEW i \in Nat, NEW j \in Nat, NEW ops,
         Relates(ops, a, b, i, j), NEW op \in Ops,
         op.mark \in OldMarks => op.line = a[i + 1],
         op.mark \in NewMarks => op.line = b[j + 1]
  PROVE  Relates(Append(ops, op), a, b,
                 IF op.mark \in OldMarks THEN i + 1 ELSE i,
                 IF op.mark \in NewMarks THEN j + 1 ELSE j)
<1> DEFINE n == Len(ops)
           more == Append(ops, op)
<1>1. ops \in Seq(Ops) /\ n \in Nat
  BY DEF Relates
<1>2. /\ more \in Seq(Ops) /\ Len(more) = n + 1 /\ more[n + 1] = op
      /\ \A t \in 1..n : more[t] = ops[t]
  BY <1>1, AppendProperties
<1> HIDE DEF more, n
<1>3. ASSUME NEW marks, NEW t \in 0..n
      PROVE  CountTo(more, marks, t) = CountTo(ops, marks, t)
  <2>1. t \in Nat /\ \A x \in 1..t : more[x] = ops[x]
    BY <1>1, <1>2
  <2> QED BY <2>1, CountSame
<1>4. ASSUME NEW marks
      PROVE  CountTo(more, marks, n + 1) =
               CountTo(ops, marks, n) + (IF op.mark \in marks THEN 1 ELSE 0)
  <2>1. n \in 0..n
    BY <1>1
  <2> QED BY <1>1, <1>2, <1>3, <2>1, CountNext
<1>5. /\ CountTo(ops, OldMarks, n) = i
      /\ CountTo(ops, NewMarks, n) = j
      /\ \A t \in 1..n :
           /\ ops[t].mark \in OldMarks => ops[t].line = a[CountTo(ops, OldMarks, t)]
           /\ ops[t].mark \in NewMarks => ops[t].line = b[CountTo(ops, NewMarks, t)]
  BY DEF Relates, n
<1>6. /\ CountTo(more, OldMarks, n + 1) = IF op.mark \in OldMarks THEN i + 1 ELSE i
      /\ CountTo(more, NewMarks, n + 1) = IF op.mark \in NewMarks THEN j + 1 ELSE j
  BY <1>4, <1>5
<1>7. ASSUME NEW t \in 1..(n + 1)
      PROVE  /\ more[t].mark \in OldMarks =>
                  more[t].line = a[CountTo(more, OldMarks, t)]
             /\ more[t].mark \in NewMarks =>
                  more[t].line = b[CountTo(more, NewMarks, t)]
  <2>1. CASE t = n + 1
    BY <1>2, <1>6, <2>1
  <2>2. CASE t # n + 1
    <3>1. t \in 1..n /\ t \in 0..n
      BY <1>1, <2>2
    <3> QED BY <1>2, <1>3, <1>5, <3>1
  <2> QED BY <2>1, <2>2
<1> QED BY <1>2, <1>6, <1>7 DEF Relates, more

(* One step of Script.                                                     *)
Walked(a, b, m, w) ==
  IF w.i < Len(a) /\ w.i + 1 \notin {p[1] : p \in m}
    THEN [i |-> w.i + 1, j |-> w.j, ops |-> Append(w.ops, Op("-", a[w.i + 1]))]
  ELSE IF w.j < Len(b) /\ w.j + 1 \notin {p[2] : p \in m}
    THEN [i |-> w.i, j |-> w.j + 1, ops |-> Append(w.ops, Op("+", b[w.j + 1]))]
  ELSE IF w.i < Len(a)
    THEN [i |-> w.i + 1, j |-> w.j + 1,
          ops |-> Append(w.ops, Op(" ", a[w.i + 1]))]
  ELSE w

(* A state of the walk after k steps.                                      *)
Underway(a, b, m, w, k) ==
  /\ w \in [i : 0..Len(a), j : 0..Len(b), ops : Seq(Ops)]
  /\ Relates(w.ops, a, b, w.i, w.j)
  /\ \A p \in m : p[1] <= w.i <=> p[2] <= w.j
  /\ w.i + w.j >= k \/ (w.i = Len(a) /\ w.j = Len(b))

LEMMA AlignmentFacts ==
  ASSUME NEW a \in Seq(Text), NEW b \in Seq(Text), NEW m \in Alignments(a, b)
  PROVE  /\ \A p \in m : /\ p[1] \in 1..Len(a) /\ p[2] \in 1..Len(b)
                         /\ a[p[1]] = b[p[2]]
         /\ \A p, q \in m : /\ p[1] = q[1] => p[2] = q[2]
                            /\ p[1] < q[1] <=> p[2] < q[2]
<1>1. /\ m \subseteq {p \in (DOMAIN a) \X (DOMAIN b) : a[p[1]] = b[p[2]]}
      /\ \A p, q \in m : p # q => (p[1] < q[1] /\ p[2] < q[2])
                                    \/ (p[1] > q[1] /\ p[2] > q[2])
  BY DEF Alignments
<1>2. DOMAIN a = 1..Len(a) /\ DOMAIN b = 1..Len(b)
  OBVIOUS
<1>3. \A p \in m : /\ p[1] \in 1..Len(a) /\ p[2] \in 1..Len(b)
                   /\ a[p[1]] = b[p[2]]
  BY <1>1, <1>2
<1>4. \A p \in m : p[1] \in Int /\ p[2] \in Int
  BY <1>3
<1>5. \A p, q \in m : /\ p[1] = q[1] => p[2] = q[2]
                      /\ p[1] < q[1] <=> p[2] < q[2]
  BY <1>1, <1>4
<1> QED BY <1>3, <1>5

LEMMA OneMoreLine ==
  ASSUME NEW a \in Seq(Text), NEW b \in Seq(Text), NEW m \in Alignments(a, b),
         NEW k \in Nat, NEW w, Underway(a, b, m, w, k)
  PROVE  Underway(a, b, m, Walked(a, b, m, w), k + 1)
<1> DEFINE i == w.i
           j == w.j
           ops == w.ops
           A == Len(a)
           B == Len(b)
<1>1. /\ A \in Nat /\ B \in Nat /\ i \in 0..A /\ j \in 0..B /\ ops \in Seq(Ops)
      /\ w = [i |-> i, j |-> j, ops |-> ops]
      /\ Relates(ops, a, b, i, j)
      /\ \A p \in m : p[1] <= i <=> p[2] <= j
      /\ i + j >= k \/ (i = A /\ j = B)
  BY DEF Underway
<1>2. /\ \A p \in m : /\ p[1] \in 1..A /\ p[2] \in 1..B
                      /\ a[p[1]] = b[p[2]]
      /\ \A p, q \in m : /\ p[1] = q[1] => p[2] = q[2]
                         /\ p[1] < q[1] <=> p[2] < q[2]
  BY AlignmentFacts
<1>3. /\ \A x \in 1..A : a[x] \in Text
      /\ \A x \in 1..B : b[x] \in Text
  BY ElementOfSeq
<1>4. w.i = i /\ w.j = j /\ w.ops = ops
  OBVIOUS
<1> HIDE DEF i, j, ops, A, B
<1>5. ASSUME NEW x \in 0..A, NEW y \in 0..B, NEW mark \in Marks, NEW line \in Text,
             x = IF mark \in OldMarks THEN i + 1 ELSE i,
             y = IF mark \in NewMarks THEN j + 1 ELSE j,
             mark \in OldMarks => line = a[i + 1],
             mark \in NewMarks => line = b[j + 1],
             \A p \in m : p[1] <= x <=> p[2] <= y,
             Walked(a, b, m, w) =
               [i |-> x, j |-> y, ops |-> Append(ops, Op(mark, line))]
      PROVE  Underway(a, b, m, Walked(a, b, m, w), k + 1)
  <2> DEFINE op == Op(mark, line)
             v == Walked(a, b, m, w)
  <2>1. op \in Ops /\ op.mark = mark /\ op.line = line
    BY DEF Op, Ops
  <2> HIDE DEF op
  <2>2. Relates(Append(ops, op), a, b, x, y)
    <3>1. i \in Nat /\ j \in Nat
      BY <1>1
    <3>2. /\ op.mark \in OldMarks => op.line = a[i + 1]
          /\ op.mark \in NewMarks => op.line = b[j + 1]
      BY <1>5, <2>1
    <3>3. Relates(Append(ops, op), a, b,
                  IF op.mark \in OldMarks THEN i + 1 ELSE i,
                  IF op.mark \in NewMarks THEN j + 1 ELSE j)
      BY <1>1, <2>1, <3>1, <3>2, RelatesMore
    <3> QED BY <1>5, <2>1, <3>3
  <2>3. v.i = x /\ v.j = y /\ v.ops = Append(ops, op)
    BY <1>5 DEF op
  <2>4. v \in [i : 0..A, j : 0..B, ops : Seq(Ops)]
    <3>1. Append(ops, op) \in Seq(Ops)
      BY <1>1, <2>1, AppendProperties
    <3> QED BY <1>5, <3>1 DEF op
  <2>5. x + y >= k + 1
    <3>1. mark \in OldMarks \/ mark \in NewMarks
      BY DEF Marks, OldMarks, NewMarks
    <3>2. (x = i + 1 \/ x = i) /\ (y = j + 1 \/ y = j) /\ (x = i + 1 \/ y = j + 1)
      BY <1>5, <3>1
    <3>3. x \in 0..A /\ y \in 0..B
      BY <1>5
    <3> QED BY <1>1, <3>2, <3>3
  <2> HIDE DEF v
  <2>6. Underway(a, b, m, v, k + 1)
    BY <1>5, <2>2, <2>3, <2>4, <2>5 DEF Underway, A, B
  <2> QED BY <2>6 DEF v
<1>6. " " \in Marks /\ "-" \in Marks /\ "+" \in Marks
      /\ " " \in OldMarks /\ " " \in NewMarks
      /\ "-" \in OldMarks /\ "-" \notin NewMarks
      /\ "+" \notin OldMarks /\ "+" \in NewMarks
  BY DEF Marks, OldMarks, NewMarks
<1>7. CASE i < A /\ i + 1 \notin {p[1] : p \in m}
  <2>1. Walked(a, b, m, w) =
          [i |-> i + 1, j |-> j, ops |-> Append(ops, Op("-", a[i + 1]))]
    BY <1>4, <1>7 DEF Walked, A
  <2>2. \A p \in m : p[1] <= i + 1 <=> p[2] <= j
    <3> TAKE p \in m
    <3>1. p[1] # i + 1
      BY <1>7
    <3> QED BY <1>1, <1>2, <3>1
  <2>3. i + 1 \in 0..A /\ a[i + 1] \in Text
    BY <1>1, <1>3, <1>7
  <2> DEFINE x == i + 1
             y == j
             line == a[i + 1]
  <2>8. /\ x \in 0..A /\ y \in 0..B /\ line \in Text
        /\ x = IF "-" \in OldMarks THEN i + 1 ELSE i
        /\ y = IF "-" \in NewMarks THEN j + 1 ELSE j
        /\ "-" \in OldMarks => line = a[i + 1]
        /\ "-" \in NewMarks => line = b[j + 1]
    BY <1>1, <1>6, <2>3
  <2>9. \A p \in m : p[1] <= x <=> p[2] <= y
    BY <2>2
  <2>10. Walked(a, b, m, w) =
           [i |-> x, j |-> y, ops |-> Append(ops, Op("-", line))]
    BY <2>1
  <2> HIDE DEF x, y, line
  <2> QED BY <1>5, <1>6, <2>8, <2>9, <2>10
<1>8. CASE /\ ~(i < A /\ i + 1 \notin {p[1] : p \in m})
           /\ j < B /\ j + 1 \notin {p[2] : p \in m}
  <2>1. Walked(a, b, m, w) =
          [i |-> i, j |-> j + 1, ops |-> Append(ops, Op("+", b[j + 1]))]
    BY <1>4, <1>8 DEF Walked, A, B
  <2>2. \A p \in m : p[1] <= i <=> p[2] <= j + 1
    <3> TAKE p \in m
    <3>1. p[2] # j + 1
      BY <1>8
    <3> QED BY <1>1, <1>2, <3>1
  <2>3. j + 1 \in 0..B /\ b[j + 1] \in Text
    BY <1>1, <1>3, <1>8
  <2>8. /\ i \in 0..A /\ j + 1 \in 0..B
        /\ i = IF "+" \in OldMarks THEN i + 1 ELSE i
        /\ j + 1 = IF "+" \in NewMarks THEN j + 1 ELSE j
        /\ "+" \in OldMarks => b[j + 1] = a[i + 1]
        /\ "+" \in NewMarks => b[j + 1] = b[j + 1]
    BY <1>1, <1>6, <2>3
  <2> DEFINE y == j + 1
             line == b[j + 1]
  <2>9. \A p \in m : p[1] <= i <=> p[2] <= y
    BY <2>2
  <2>10. Walked(a, b, m, w) = [i |-> i, j |-> y, ops |-> Append(ops, Op("+", line))]
    BY <2>1
  <2>11. /\ y \in 0..B /\ line \in Text
         /\ y = IF "+" \in NewMarks THEN j + 1 ELSE j
         /\ "+" \in OldMarks => line = a[i + 1]
         /\ "+" \in NewMarks => line = b[j + 1]
    BY <2>3, <2>8
  <2> HIDE DEF y, line
  <2> QED BY <1>5, <1>6, <2>8, <2>9, <2>10, <2>11
<1>9. CASE /\ ~(i < A /\ i + 1 \notin {p[1] : p \in m})
           /\ ~(j < B /\ j + 1 \notin {p[2] : p \in m})
           /\ i < A
  <2>1. Walked(a, b, m, w) =
          [i |-> i + 1, j |-> j + 1, ops |-> Append(ops, Op(" ", a[i + 1]))]
    BY <1>4, <1>9 DEF Walked, A, B
  <2>2. PICK p \in m : p[1] = i + 1
    BY <1>9
  <2>3. p[2] \in 1..B /\ p[2] > j
    <3>1. ~(p[1] <= i)
      BY <1>1, <2>2
    <3> QED BY <1>1, <1>2, <3>1
  <2>4. PICK q \in m : q[2] = j + 1
    <3>1. j < B
      BY <1>1, <2>3
    <3> QED BY <1>9, <3>1
  <2>5. p[2] = j + 1
    <3>1. q[1] \in 1..A /\ q[1] > i
      <4>1. ~(q[2] <= j)
        BY <1>1, <2>4
      <4> QED BY <1>1, <1>2, <4>1
    <3>2. ~(q[1] < p[1])
      BY <1>1, <2>2, <3>1
    <3>3. ~(q[2] < p[2])
      BY <1>2, <3>2
    <3> QED BY <1>1, <2>3, <2>4, <3>3
  <2>6. \A r \in m : r[1] <= i + 1 <=> r[2] <= j + 1
    <3> TAKE r \in m
    <3>1. p[1] < r[1] <=> p[2] < r[2]
      BY <1>2
    <3> QED BY <1>1, <1>2, <2>2, <2>5, <3>1, SMTT(60)
  <2>7. i + 1 \in 0..A /\ j + 1 \in 0..B /\ a[i + 1] \in Text
        /\ a[i + 1] = b[j + 1]
    <3>1. i + 1 \in 1..A /\ i + 1 \in 0..A
      BY <1>1, <1>9
    <3>2. a[i + 1] = b[j + 1]
      BY <1>2, <2>2, <2>5
    <3>3. j + 1 \in 0..B
      BY <1>1, <2>3, <2>5
    <3> QED BY <1>3, <3>1, <3>2, <3>3
  <2> DEFINE x == i + 1
             y == j + 1
             line == a[i + 1]
  <2>8. /\ x \in 0..A /\ y \in 0..B /\ line \in Text
        /\ x = IF " " \in OldMarks THEN i + 1 ELSE i
        /\ y = IF " " \in NewMarks THEN j + 1 ELSE j
        /\ " " \in OldMarks => line = a[i + 1]
        /\ " " \in NewMarks => line = b[j + 1]
    BY <1>1, <1>6, <2>7
  <2>9. \A r \in m : r[1] <= x <=> r[2] <= y
    BY <2>6
  <2>10. Walked(a, b, m, w) =
           [i |-> x, j |-> y, ops |-> Append(ops, Op(" ", line))]
    BY <2>1
  <2> HIDE DEF x, y, line
  <2> QED BY <1>5, <1>6, <2>8, <2>9, <2>10
<1>10. CASE /\ ~(i < A /\ i + 1 \notin {p[1] : p \in m})
            /\ ~(j < B /\ j + 1 \notin {p[2] : p \in m})
            /\ ~(i < A)
  <2>1. Walked(a, b, m, w) = w
    BY <1>4, <1>10 DEF Walked, A, B
  <2>2. i = A
    BY <1>1, <1>10
  <2>3. j = B
    <3> SUFFICES ASSUME j # B
                 PROVE  FALSE
      OBVIOUS
    <3>1. j < B
      BY <1>1
    <3>2. PICK q \in m : q[2] = j + 1
      BY <1>10, <3>1
    <3>3. q[1] <= i
      BY <1>2, <2>2
    <3> QED BY <1>1, <3>2, <3>3
  <2> QED BY <1>4, <2>1, <2>2, <2>3 DEF Underway, A, B
<1> QED BY <1>7, <1>8, <1>9, <1>10

LEMMA ScriptRecursion ==
  ASSUME NEW a \in Seq(Text), NEW b \in Seq(Text), NEW m
  PROVE  \E w : /\ w[0] = [i |-> 0, j |-> 0, ops |-> <<>>]
                /\ \A k \in 1..(Len(a) + Len(b)) :
                     w[k] = Walked(a, b, m, w[k - 1])
                /\ Script(a, b, m) = w[Len(a) + Len(b)].ops
<1> DEFINE N == Len(a) + Len(b)
           V == [i : 0..Len(a), j : Nat, ops : Seq(Ops)]
           Begin == [i |-> 0, j |-> 0, ops |-> <<>>]
           step == [k \in 1..N |-> [w \in V |-> Walked(a, b, m, w)]]
<1>1. Len(a) \in Nat /\ Len(b) \in Nat /\ N \in Nat
  OBVIOUS
<1>2. Begin \in V
  <2>1. <<>> \in Seq(Ops)
    OBVIOUS
  <2> QED BY <1>1, <2>1
<1>3. ASSUME NEW w \in V
      PROVE  Walked(a, b, m, w) \in V
  <2>1. w.i \in 0..Len(a) /\ w.j \in Nat /\ w.ops \in Seq(Ops)
    OBVIOUS
  <2>2. ASSUME NEW mark \in Marks, NEW line \in Text
        PROVE  Append(w.ops, Op(mark, line)) \in Seq(Ops)
    <3>1. Op(mark, line) \in Ops
      BY DEF Op, Ops
    <3> QED BY <2>1, <3>1, AppendProperties
  <2>3. " " \in Marks /\ "-" \in Marks /\ "+" \in Marks
    BY DEF Marks
  <2>4. CASE w.i < Len(a) /\ w.i + 1 \notin {p[1] : p \in m}
    <3>1. w.i + 1 \in 0..Len(a) /\ a[w.i + 1] \in Text
      BY <1>1, <2>1, <2>4, ElementOfSeq
    <3> QED BY <2>1, <2>2, <2>3, <2>4, <3>1 DEF Walked
  <2>5. CASE /\ ~(w.i < Len(a) /\ w.i + 1 \notin {p[1] : p \in m})
             /\ w.j < Len(b) /\ w.j + 1 \notin {p[2] : p \in m}
    <3>1. w.j + 1 \in Nat /\ b[w.j + 1] \in Text
      BY <1>1, <2>1, <2>5, ElementOfSeq
    <3> QED BY <2>1, <2>2, <2>3, <2>5, <3>1 DEF Walked
  <2>6. CASE /\ ~(w.i < Len(a) /\ w.i + 1 \notin {p[1] : p \in m})
             /\ ~(w.j < Len(b) /\ w.j + 1 \notin {p[2] : p \in m})
             /\ w.i < Len(a)
    <3>1. w.i + 1 \in 0..Len(a) /\ a[w.i + 1] \in Text /\ w.j + 1 \in Nat
      BY <1>1, <2>1, <2>6, ElementOfSeq
    <3> QED BY <2>1, <2>2, <2>3, <2>6, <3>1 DEF Walked
  <2>7. CASE /\ ~(w.i < Len(a) /\ w.i + 1 \notin {p[1] : p \in m})
             /\ ~(w.j < Len(b) /\ w.j + 1 \notin {p[2] : p \in m})
             /\ ~(w.i < Len(a))
    BY <2>7 DEF Walked
  <2> QED BY <2>4, <2>5, <2>6, <2>7
<1>4. Steps(step, N, V)
  <2> HIDE DEF V
  <2> QED BY <1>3 DEF Steps
<1>5. \A k \in 1..N : \A w \in V : step[k][w] = Walked(a, b, m, w)
  <2> HIDE DEF V
  <2> QED OBVIOUS
<1> HIDE DEF step, V, Begin, N
<1>6. PICK f : Iterates(f, N, V, Begin, step)
  BY <1>1, <1>2, <1>4, Recursion, Zenon
<1>7. /\ f \in [0..N -> V] /\ f[0] = Begin
      /\ \A k \in 1..N : f[k] = Walked(a, b, m, f[k - 1])
  <2>1. /\ f \in [0..N -> V] /\ f[0] = Begin
        /\ \A k \in 1..N : f[k] = step[k][f[k - 1]]
    BY <1>6 DEF Iterates
  <2>2. \A k \in 1..N : f[k - 1] \in V
    BY <1>1, <2>1
  <2> QED BY <1>5, <2>1, <2>2
<1> DEFINE Is(w) ==
             w = [k \in 0..(Len(a) + Len(b)) |->
                    IF k = 0 THEN [i |-> 0, j |-> 0, ops |-> <<>>]
                    ELSE LET v == w[k - 1] IN
                      IF v.i < Len(a) /\ v.i + 1 \notin {p[1] : p \in m}
                        THEN [i |-> v.i + 1, j |-> v.j,
                              ops |-> Append(v.ops, Op("-", a[v.i + 1]))]
                      ELSE IF v.j < Len(b) /\ v.j + 1 \notin {p[2] : p \in m}
                        THEN [i |-> v.i, j |-> v.j + 1,
                              ops |-> Append(v.ops, Op("+", b[v.j + 1]))]
                      ELSE IF v.i < Len(a)
                        THEN [i |-> v.i + 1, j |-> v.j + 1,
                              ops |-> Append(v.ops, Op(" ", a[v.i + 1]))]
                      ELSE v]
<1>8. \A w : Is(w) <=> w = [k \in 0..N |-> IF k = 0 THEN Begin
                                           ELSE Walked(a, b, m, w[k - 1])]
  BY DEF Walked, Begin, N
<1>9. Is(f)
  <2>1. \A k \in 0..N : k # 0 => k \in 1..N
    BY <1>1
  <2>2. f = [k \in 0..N |-> IF k = 0 THEN Begin ELSE Walked(a, b, m, f[k - 1])]
    BY <1>7, <2>1
  <2> HIDE DEF Is
  <2> QED BY <1>8, <2>2
<1>10. Script(a, b, m) = (CHOOSE w : Is(w))[Len(a) + Len(b)].ops
  BY Zenon DEF Script
<1> HIDE DEF Is
<1>11. PICK w : Is(w) /\ Script(a, b, m) = w[N].ops
  BY <1>9, <1>10 DEF N
<1>12. w[0] = Begin /\ \A k \in 1..N : w[k] = Walked(a, b, m, w[k - 1])
  <2>1. 0 \in 0..N /\ \A k \in 1..N : k \in 0..N /\ k # 0
    BY <1>1
  <2> QED BY <1>8, <1>11, <2>1
<1> QED BY <1>11, <1>12 DEF N, Begin

LEMMA ScriptRelates ==
  ASSUME NEW a \in Seq(Text), NEW b \in Seq(Text), NEW m \in Alignments(a, b)
  PROVE  Relates(Script(a, b, m), a, b, Len(a), Len(b))
<1> DEFINE N == Len(a) + Len(b)
<1>1. Len(a) \in Nat /\ Len(b) \in Nat /\ N \in Nat
  OBVIOUS
<1>2. PICK w : /\ w[0] = [i |-> 0, j |-> 0, ops |-> <<>>]
               /\ \A k \in 1..N : w[k] = Walked(a, b, m, w[k - 1])
               /\ Script(a, b, m) = w[N].ops
  BY ScriptRecursion
<1> DEFINE T == {k \in 0..N : Underway(a, b, m, w[k], k)}
<1>3. 0 \in T
  <2> DEFINE v == [i |-> 0, j |-> 0, ops |-> <<>>]
  <2>1. <<>> \in Seq(Ops) /\ Len(<<>>) = 0
    OBVIOUS
  <2>2. v \in [i : 0..Len(a), j : 0..Len(b), ops : Seq(Ops)]
    BY <1>1, <2>1
  <2>3. v.i = 0 /\ v.j = 0 /\ v.ops = <<>>
    OBVIOUS
  <2>4. Relates(<<>>, a, b, 0, 0)
    <3>1. \A t \in 1..0 : FALSE
      OBVIOUS
    <3> QED BY <2>1, <3>1, CountZero DEF Relates
  <2>5. \A p \in m : p[1] <= 0 <=> p[2] <= 0
    <3> TAKE p \in m
    <3>1. p[1] \in 1..Len(a) /\ p[2] \in 1..Len(b)
      BY AlignmentFacts
    <3> QED BY <3>1
  <2> HIDE DEF v
  <2>6. Underway(a, b, m, v, 0)
    BY <2>2, <2>3, <2>4, <2>5 DEF Underway
  <2>7. w[0] = v
    BY <1>2 DEF v
  <2> QED BY <1>1, <2>6, <2>7
<1>4. \A k \in 0..(N - 1) : k \in T => k + 1 \in T
  <2> SUFFICES ASSUME NEW k \in 0..(N - 1), k \in T
               PROVE  k + 1 \in T
    OBVIOUS
  <2>1. k \in Nat /\ k + 1 \in 1..N /\ k + 1 \in 0..N /\ (k + 1) - 1 = k
    BY <1>1
  <2>2. w[k + 1] = Walked(a, b, m, w[k])
    BY <1>2, <2>1
  <2>3. Underway(a, b, m, w[k], k)
    OBVIOUS
  <2>4. Underway(a, b, m, Walked(a, b, m, w[k]), k + 1)
    BY <2>1, <2>3, OneMoreLine
  <2> QED BY <2>1, <2>2, <2>4
<1> HIDE DEF T
<1>5. N \in T
  <2>1. 0..N \subseteq T
    BY <1>1, <1>3, <1>4, InductionUpTo
  <2> QED BY <1>1, <2>1
<1>6. Underway(a, b, m, w[N], N)
  BY <1>5 DEF T
<1>7. w[N].i = Len(a) /\ w[N].j = Len(b)
  <2> DEFINE x == w[N].i
             y == w[N].j
  <2>1. x \in 0..Len(a) /\ y \in 0..Len(b)
    <3>1. w[N] \in [i : 0..Len(a), j : 0..Len(b), ops : Seq(Ops)]
      BY <1>6 DEF Underway
    <3> QED BY <3>1
  <2>2. x + y >= N \/ (x = Len(a) /\ y = Len(b))
    BY <1>6 DEF Underway
  <2> HIDE DEF x, y
  <2>3. x = Len(a) /\ y = Len(b)
    BY <1>1, <2>1, <2>2
  <2> QED BY <2>3 DEF x, y
<1>8. Relates(w[N].ops, a, b, w[N].i, w[N].j)
  BY <1>6 DEF Underway
<1> QED BY <1>2, <1>7, <1>8

-----------------------------------------------------------------------------
(* The hunks of a script.                                                  *)

RunsOf == [first : Nat, last : Nat]

(* Where the run x ends; 0 before the first run.                           *)
End(runs, x) == IF x = 0 THEN 0 ELSE runs[x].last

(* The runs of the first k lines, in order: no line between them is kept,   *)
(* nor the line before a run.                                              *)
Covers(script, runs, k) ==
  /\ runs \in Seq(RunsOf)
  /\ \A x \in 1..Len(runs) :
       /\ End(runs, x - 1) < runs[x].first
       /\ runs[x].first <= runs[x].last /\ runs[x].last <= k
       /\ runs[x].first > 1 => ~Kept(script, runs[x].first - 1)
       /\ \A t \in Nat : End(runs, x - 1) < t /\ t < runs[x].first
                           => ~Kept(script, t)
  /\ \A t \in Nat : End(runs, Len(runs)) < t /\ t <= k => ~Kept(script, t)

(* The last run with k as its last line.                                   *)
Extended(runs, k) == [runs EXCEPT ![Len(runs)].last = k]

(* One step of Runs.                                                       *)
Ran(script, k, runs) ==
  IF ~Kept(script, k) THEN runs
  ELSE IF k > 1 /\ Kept(script, k - 1)
    THEN Extended(runs, k)
    ELSE Append(runs, [first |-> k, last |-> k])

LEMMA ExtendedRun ==
  ASSUME NEW runs \in Seq(RunsOf), NEW k \in Nat
  PROVE  /\ Extended(runs, k) \in Seq(RunsOf)
         /\ Len(Extended(runs, k)) = Len(runs)
         /\ \A x \in 1..Len(runs) :
              /\ Extended(runs, k)[x].first = runs[x].first
              /\ Extended(runs, k)[x].last =
                   IF x = Len(runs) THEN k ELSE runs[x].last
<1> DEFINE n == Len(runs)
           more == Extended(runs, k)
<1>1. n \in Nat /\ runs \in [1..n -> RunsOf]
  BY LenProperties
<1>2. \A x \in 1..n : runs[x] \in RunsOf
  BY <1>1
<1>3. more = [x \in 1..n |-> IF x = n THEN [runs[x] EXCEPT !.last = k]
                              ELSE runs[x]]
  BY <1>1 DEF Extended
<1> HIDE DEF more
<1>4. \A x \in 1..n : [runs[x] EXCEPT !.last = k]
                        = [first |-> runs[x].first, last |-> k]
  <2> TAKE x \in 1..n
  <2>1. runs[x] \in [first : Nat, last : Nat]
    BY <1>2 DEF RunsOf
  <2> QED BY <2>1
<1>5. \A x \in 1..n : more[x] = IF x = n THEN [first |-> runs[x].first, last |-> k]
                                ELSE runs[x]
  BY <1>3, <1>4
<1>6. more \in [1..n -> RunsOf]
  <2>1. \A x \in 1..n : runs[x].first \in Nat
    BY <1>2 DEF RunsOf
  <2> QED BY <1>2, <1>3, <1>4, <2>1 DEF RunsOf
<1>7. more \in Seq(RunsOf)
  BY <1>1, <1>6, SeqDef
<1>8. Len(more) = n
  <2>1. DOMAIN more = 1..Len(more) /\ Len(more) \in Nat /\ DOMAIN more = 1..n
    BY <1>6, <1>7, LenProperties
  <2> QED BY <1>1, <2>1, SameLength
<1>9. \A x \in 1..n : /\ more[x].first = runs[x].first
                      /\ more[x].last = IF x = n THEN k ELSE runs[x].last
  <2> TAKE x \in 1..n
  <2>1. CASE x = n
    <3>1. more[x] = [first |-> runs[x].first, last |-> k]
      BY <1>5, <2>1
    <3> QED BY <2>1, <3>1
  <2>2. CASE x # n
    BY <1>5, <2>2
  <2> QED BY <2>1, <2>2
<1> QED BY <1>7, <1>8, <1>9 DEF more

LEMMA RanType ==
  ASSUME NEW script, NEW k \in Nat, NEW runs \in Seq(RunsOf)
  PROVE  Ran(script, k, runs) \in Seq(RunsOf)
<1>1. [first |-> k, last |-> k] \in RunsOf
  BY DEF RunsOf
<1>2. Append(runs, [first |-> k, last |-> k]) \in Seq(RunsOf)
  BY <1>1, AppendProperties
<1> QED BY <1>2, ExtendedRun DEF Ran

LEMMA OneMoreKept ==
  ASSUME NEW script, NEW k \in Nat, NEW runs, Covers(script, runs, k)
  PROVE  Covers(script, Ran(script, k + 1, runs), k + 1)
<1> DEFINE n == Len(runs)
           more == Ran(script, k + 1, runs)
<1>1. runs \in Seq(RunsOf) /\ n \in Nat
  BY DEF Covers
<1>2. \A x \in 1..n : runs[x].first \in Nat /\ runs[x].last \in Nat
  <2>1. \A x \in 1..n : runs[x] \in RunsOf
    BY <1>1, ElementOfSeq
  <2> QED BY <2>1 DEF RunsOf
<1>3. \A x \in 0..n : End(runs, x) \in Nat /\ End(runs, x) <= k
  BY <1>1, <1>2 DEF Covers, End
<1>4. n \in 0..n
  BY <1>1
<1>5. CASE ~Kept(script, k + 1)
  <2>1. more = runs
    BY <1>5 DEF Ran
  <2>2. ASSUME NEW t \in Nat, End(runs, n) < t, t <= k + 1
        PROVE  ~Kept(script, t)
    <3>1. CASE t = k + 1
      BY <1>5, <3>1
    <3>2. CASE t # k + 1
      <4>1. t <= k
        BY <2>2, <3>2
      <4> QED BY <2>2, <4>1 DEF Covers
    <3> QED BY <3>1, <3>2
  <2>3. \A x \in 1..n : runs[x].last <= k + 1
    BY <1>2 DEF Covers
  <2> QED BY <2>1, <2>2, <2>3 DEF Covers
<1>6. CASE Kept(script, k + 1) /\ k + 1 > 1 /\ Kept(script, (k + 1) - 1)
  <2>1. more = Extended(runs, k + 1)
    BY <1>6 DEF Ran
  <2>2. n >= 1 /\ runs[n].last = k
    <3>1. ~(End(runs, n) < k)
      BY <1>6 DEF Covers
    <3>2. End(runs, n) = k /\ k > 0
      BY <1>3, <1>4, <1>6, <3>1
    <3> QED BY <1>1, <3>2 DEF End
  <2>3. /\ more \in Seq(RunsOf) /\ Len(more) = n
        /\ \A x \in 1..n :
             /\ more[x].first = runs[x].first
             /\ more[x].last = IF x = n THEN k + 1 ELSE runs[x].last
    <3>1. k + 1 \in Nat
      OBVIOUS
    <3> HIDE DEF more
    <3> QED BY <1>1, <2>1, <3>1, ExtendedRun
  <2> HIDE DEF more
  <2>4. \A x \in 0..(n - 1) : End(more, x) = End(runs, x)
    BY <1>1, <2>3 DEF End
  <2>5. End(more, n) = k + 1
    BY <1>1, <2>2, <2>3 DEF End
  <2>6. ASSUME NEW x \in 1..n
        PROVE  /\ End(more, x - 1) < more[x].first
               /\ more[x].first <= more[x].last /\ more[x].last <= k + 1
               /\ more[x].first > 1 => ~Kept(script, more[x].first - 1)
               /\ \A t \in Nat : End(more, x - 1) < t /\ t < more[x].first
                                   => ~Kept(script, t)
    <3>1. x - 1 \in 0..(n - 1)
      BY <1>1
    <3>2. End(more, x - 1) = End(runs, x - 1) /\ more[x].first = runs[x].first
      BY <2>3, <2>4, <3>1
    <3>3. /\ End(runs, x - 1) < runs[x].first
          /\ runs[x].first <= runs[x].last /\ runs[x].last <= k
          /\ runs[x].first > 1 => ~Kept(script, runs[x].first - 1)
          /\ \A t \in Nat : End(runs, x - 1) < t /\ t < runs[x].first
                              => ~Kept(script, t)
      BY DEF Covers
    <3>4. more[x].first <= more[x].last /\ more[x].last <= k + 1
      BY <1>2, <2>3, <3>3
    <3> QED BY <3>2, <3>3, <3>4
  <2>7. \A t \in Nat : ~(k + 1 < t /\ t <= k + 1)
    OBVIOUS
  <2>8. Covers(script, more, k + 1)
    BY <2>3, <2>5, <2>6, <2>7 DEF Covers
  <2> QED BY <2>8 DEF more
<1>7. CASE Kept(script, k + 1) /\ ~(k + 1 > 1 /\ Kept(script, (k + 1) - 1))
  <2> DEFINE run == [first |-> k + 1, last |-> k + 1]
  <2>1. more = Append(runs, run)
    BY <1>7 DEF Ran
  <2>2. run \in RunsOf /\ run.first = k + 1 /\ run.last = k + 1
    BY DEF RunsOf
  <2> HIDE DEF run
  <2>3. /\ more \in Seq(RunsOf) /\ Len(more) = n + 1 /\ more[n + 1] = run
        /\ \A x \in 1..n : more[x] = runs[x]
    BY <1>1, <2>1, <2>2, AppendProperties
  <2> HIDE DEF more
  <2>4. \A x \in 0..n : End(more, x) = End(runs, x)
    BY <1>1, <2>3 DEF End
  <2>5. End(more, n + 1) = k + 1
    BY <1>1, <2>2, <2>3 DEF End
  <2>6. ASSUME NEW x \in 1..(n + 1)
        PROVE  /\ End(more, x - 1) < more[x].first
               /\ more[x].first <= more[x].last /\ more[x].last <= k + 1
               /\ more[x].first > 1 => ~Kept(script, more[x].first - 1)
               /\ \A t \in Nat : End(more, x - 1) < t /\ t < more[x].first
                                   => ~Kept(script, t)
    <3>1. CASE x = n + 1
      <4>1. End(more, x - 1) = End(runs, n) /\ more[x].first = k + 1
            /\ more[x].last = k + 1
        BY <1>1, <1>4, <2>2, <2>3, <2>4, <3>1
      <4>2. End(runs, n) < k + 1
        BY <1>3, <1>4
      <4>3. k + 1 > 1 => ~Kept(script, (k + 1) - 1)
        BY <1>7
      <4>4. ASSUME NEW t \in Nat, End(runs, n) < t, t < k + 1
            PROVE  ~Kept(script, t)
        <5>1. t <= k
          BY <4>4
        <5> QED BY <4>4, <5>1 DEF Covers
      <4> QED BY <4>1, <4>2, <4>3, <4>4
    <3>2. CASE x # n + 1
      <4>1. x \in 1..n /\ x - 1 \in 0..n
        BY <1>1, <3>2
      <4>2. End(more, x - 1) = End(runs, x - 1) /\ more[x] = runs[x]
        BY <2>3, <2>4, <4>1
      <4>3. /\ End(runs, x - 1) < runs[x].first
            /\ runs[x].first <= runs[x].last /\ runs[x].last <= k
            /\ runs[x].first > 1 => ~Kept(script, runs[x].first - 1)
            /\ \A t \in Nat : End(runs, x - 1) < t /\ t < runs[x].first
                                => ~Kept(script, t)
        BY <4>1 DEF Covers
      <4>4. runs[x].last <= k + 1
        BY <1>2, <4>1, <4>3
      <4> QED BY <4>2, <4>3, <4>4
    <3> QED BY <3>1, <3>2
  <2>7. \A t \in Nat : ~(k + 1 < t /\ t <= k + 1)
    OBVIOUS
  <2>8. Covers(script, more, k + 1)
    BY <2>3, <2>5, <2>6, <2>7 DEF Covers
  <2> QED BY <2>8 DEF more
<1> QED BY <1>5, <1>6, <1>7

LEMMA RunsRecursion ==
  ASSUME NEW script \in Seq(Ops)
  PROVE  \E r : /\ r[0] = <<>>
                /\ \A k \in 1..Len(script) : r[k] = Ran(script, k, r[k - 1])
                /\ Runs(script) = r[Len(script)]
<1> DEFINE N == Len(script)
           V == Seq(RunsOf)
           step == [k \in 1..N |-> [v \in V |-> Ran(script, k, v)]]
<1>1. N \in Nat /\ <<>> \in V
  OBVIOUS
<1>2. Steps(step, N, V)
  <2>1. \A k \in 1..N : \A v \in V : Ran(script, k, v) \in V
    BY <1>1, RanType
  <2> HIDE DEF V
  <2> QED BY <2>1 DEF Steps
<1>3. \A k \in 1..N : \A v \in V : step[k][v] = Ran(script, k, v)
  <2> HIDE DEF V
  <2> QED OBVIOUS
<1> HIDE DEF step, V
<1>4. PICK f : Iterates(f, N, V, <<>>, step)
  BY <1>1, <1>2, Recursion, Zenon
<1>5. /\ f \in [0..N -> V] /\ f[0] = <<>>
      /\ \A k \in 1..N : f[k] = Ran(script, k, f[k - 1])
  <2>1. /\ f \in [0..N -> V] /\ f[0] = <<>>
        /\ \A k \in 1..N : f[k] = step[k][f[k - 1]]
    BY <1>4 DEF Iterates
  <2>2. \A k \in 1..N : f[k - 1] \in V
    BY <1>1, <2>1
  <2> QED BY <1>3, <2>1, <2>2
<1> DEFINE Is(r) ==
             r = [k \in 0..Len(script) |->
                    IF k = 0 THEN <<>>
                    ELSE IF ~Kept(script, k) THEN r[k - 1]
                    ELSE IF k > 1 /\ Kept(script, k - 1)
                      THEN [r[k - 1] EXCEPT ![Len(r[k - 1])].last = k]
                      ELSE Append(r[k - 1], [first |-> k, last |-> k])]
<1>6. \A r : Is(r) <=> r = [k \in 0..N |-> IF k = 0 THEN <<>>
                                           ELSE Ran(script, k, r[k - 1])]
  BY DEF Ran, Extended
<1>7. Is(f)
  <2>1. \A k \in 0..N : k # 0 => k \in 1..N
    BY <1>1
  <2>2. f = [k \in 0..N |-> IF k = 0 THEN <<>> ELSE Ran(script, k, f[k - 1])]
    BY <1>5, <2>1
  <2> HIDE DEF Is
  <2> QED BY <1>6, <2>2
<1>8. Runs(script) = (CHOOSE r : Is(r))[Len(script)]
  BY Zenon DEF Runs
<1> HIDE DEF Is
<1>9. PICK r : Is(r) /\ Runs(script) = r[N]
  BY <1>7, <1>8
<1>10. r[0] = <<>> /\ \A k \in 1..N : r[k] = Ran(script, k, r[k - 1])
  <2>1. 0 \in 0..N /\ \A k \in 1..N : k \in 0..N /\ k # 0
    BY <1>1
  <2> QED BY <1>6, <1>9, <2>1
<1> QED BY <1>9, <1>10

LEMMA RunsCover ==
  ASSUME NEW script \in Seq(Ops)
  PROVE  Covers(script, Runs(script), Len(script))
<1> DEFINE N == Len(script)
<1>1. N \in Nat
  OBVIOUS
<1>2. PICK r : /\ r[0] = <<>>
               /\ \A k \in 1..N : r[k] = Ran(script, k, r[k - 1])
               /\ Runs(script) = r[N]
  BY RunsRecursion
<1> DEFINE T == {k \in 0..N : Covers(script, r[k], k)}
<1>3. 0 \in T
  <2>1. <<>> \in Seq(RunsOf) /\ Len(<<>>) = 0 /\ \A x \in 1..0 : FALSE
    OBVIOUS
  <2>2. \A t \in Nat : ~(End(<<>>, 0) < t /\ t <= 0)
    BY DEF End
  <2>3. Covers(script, <<>>, 0)
    BY <2>1, <2>2 DEF Covers
  <2> QED BY <1>1, <1>2, <2>3
<1>4. \A k \in 0..(N - 1) : k \in T => k + 1 \in T
  <2> SUFFICES ASSUME NEW k \in 0..(N - 1), k \in T
               PROVE  k + 1 \in T
    OBVIOUS
  <2>1. k \in Nat /\ k + 1 \in 1..N /\ k + 1 \in 0..N /\ (k + 1) - 1 = k
    BY <1>1
  <2>2. r[k + 1] = Ran(script, k + 1, r[k])
    BY <1>2, <2>1
  <2>3. Covers(script, Ran(script, k + 1, r[k]), k + 1)
    BY <2>1, OneMoreKept
  <2> QED BY <2>1, <2>2, <2>3
<1> HIDE DEF T
<1>5. N \in T
  <2>1. 0..N \subseteq T
    BY <1>1, <1>3, <1>4, InductionUpTo
  <2> QED BY <1>1, <2>1
<1> QED BY <1>2, <1>5 DEF T

(* The line t of a script, in the two texts.                               *)
LEMMA ScriptLine ==
  ASSUME NEW a \in Seq(Text), NEW b \in Seq(Text), NEW ops,
         Relates(ops, a, b, Len(a), Len(b)), NEW t \in 1..Len(ops)
  PROVE  LET O(n) == CountTo(ops, OldMarks, n)
             P(n) == CountTo(ops, NewMarks, n) IN
         /\ ops[t] \in Ops
         /\ O(t - 1) \in 0..Len(a) /\ P(t - 1) \in 0..Len(b)
         /\ O(t) \in 0..Len(a) /\ P(t) \in 0..Len(b)
         /\ ops[t].mark \in OldMarks => O(t) = O(t - 1) + 1 /\ ops[t].line = a[O(t)]
         /\ ops[t].mark \notin OldMarks => O(t) = O(t - 1)
         /\ ops[t].mark \in NewMarks => P(t) = P(t - 1) + 1 /\ ops[t].line = b[P(t)]
         /\ ops[t].mark \notin NewMarks => P(t) = P(t - 1)
<1> DEFINE O(n) == CountTo(ops, OldMarks, n)
           P(n) == CountTo(ops, NewMarks, n)
           L == Len(ops)
<1>1. /\ ops \in Seq(Ops) /\ L \in Nat /\ O(L) = Len(a) /\ P(L) = Len(b)
      /\ ops[t].mark \in OldMarks => ops[t].line = a[O(t)]
      /\ ops[t].mark \in NewMarks => ops[t].line = b[P(t)]
  BY DEF Relates
<1>2. ops[t] \in Ops
  BY <1>1, ElementOfSeq
<1>3. \A n \in 0..L : /\ O(n) \in Nat /\ P(n) \in Nat
                      /\ O(n) <= O(L) /\ P(n) <= P(L)
  <2> TAKE n \in 0..L
  <2>1. n \in Nat /\ L \in Nat /\ n <= L
    BY <1>1
  <2> QED BY <2>1, CountType, CountGrows
<1>4. t - 1 \in Nat /\ (t - 1) + 1 = t /\ t - 1 \in 0..L /\ t \in 0..L
  BY <1>1
<1>5. /\ O((t - 1) + 1) = O(t - 1) + (IF ops[(t - 1) + 1].mark \in OldMarks THEN 1 ELSE 0)
      /\ P((t - 1) + 1) = P(t - 1) + (IF ops[(t - 1) + 1].mark \in NewMarks THEN 1 ELSE 0)
  BY <1>4, CountNext
<1>6. Len(a) \in Nat /\ Len(b) \in Nat
  OBVIOUS
<1> HIDE DEF O, P, L
<1>7. /\ O(t - 1) \in 0..Len(a) /\ P(t - 1) \in 0..Len(b)
      /\ O(t) \in 0..Len(a) /\ P(t) \in 0..Len(b)
  BY <1>1, <1>3, <1>4, <1>6
<1>8. /\ O(t) = O(t - 1) + (IF ops[t].mark \in OldMarks THEN 1 ELSE 0)
      /\ P(t) = P(t - 1) + (IF ops[t].mark \in NewMarks THEN 1 ELSE 0)
  BY <1>4, <1>5
<1>9. /\ ops[t].mark \in OldMarks => O(t) = O(t - 1) + 1 /\ ops[t].line = a[O(t)]
      /\ ops[t].mark \notin OldMarks => O(t) = O(t - 1)
      /\ ops[t].mark \in NewMarks => P(t) = P(t - 1) + 1 /\ ops[t].line = b[P(t)]
      /\ ops[t].mark \notin NewMarks => P(t) = P(t - 1)
  BY <1>1, <1>7, <1>8
<1> QED BY <1>2, <1>7, <1>9 DEF O, P

(* The counts of a place in a script.                                      *)
LEMMA ScriptPlace ==
  ASSUME NEW a \in Seq(Text), NEW b \in Seq(Text), NEW ops,
         Relates(ops, a, b, Len(a), Len(b)), NEW t \in 0..Len(ops)
  PROVE  /\ CountTo(ops, OldMarks, t) \in 0..Len(a)
         /\ CountTo(ops, NewMarks, t) \in 0..Len(b)
<1>1. /\ Len(ops) \in Nat /\ Len(a) \in Nat /\ Len(b) \in Nat
      /\ CountTo(ops, OldMarks, Len(ops)) = Len(a)
      /\ CountTo(ops, NewMarks, Len(ops)) = Len(b)
  BY DEF Relates
<1>2. t \in Nat /\ t <= Len(ops)
  BY <1>1
<1>3. /\ CountTo(ops, OldMarks, t) \in Nat /\ CountTo(ops, NewMarks, t) \in Nat
      /\ CountTo(ops, OldMarks, t) <= CountTo(ops, OldMarks, Len(ops))
      /\ CountTo(ops, NewMarks, t) <= CountTo(ops, NewMarks, Len(ops))
  BY <1>1, <1>2, CountType, CountGrows
<1> QED BY <1>1, <1>3

(* The lines after u up to v are equal lines of both texts.                *)
Equal(ops, u, v) == \A t \in Nat : u < t /\ t <= v => ops[t].mark = " "

(* The lines of a after place u, up to v, continue those of b up to u.      *)
Continues(ops, a, b, u, v) ==
  SubSeq(b, 1, CountTo(ops, NewMarks, u))
    \o SubSeq(a, CountTo(ops, OldMarks, u) + 1, CountTo(ops, OldMarks, v))
  = SubSeq(b, 1, CountTo(ops, NewMarks, v))

(* A stretch of equal lines is the same in both texts.                     *)
LEMMA Stretch ==
  ASSUME NEW a \in Seq(Text), NEW b \in Seq(Text), NEW ops,
         Relates(ops, a, b, Len(a), Len(b)),
         NEW u \in 0..Len(ops), NEW v \in u..Len(ops),
         Equal(ops, u, v)
  PROVE  Continues(ops, a, b, u, v)
<1> DEFINE O(n) == CountTo(ops, OldMarks, n)
           P(n) == CountTo(ops, NewMarks, n)
           L == Len(ops)
<1>1. L \in Nat /\ Len(a) \in Nat /\ Len(b) \in Nat /\ u \in Nat /\ v \in Nat /\ u <= v
  BY DEF Relates
<1>2. \A n \in 0..L : O(n) \in 0..Len(a) /\ P(n) \in 0..Len(b)
  BY ScriptPlace
<1> DEFINE Same(n) == SubSeq(b, 1, P(u)) \o SubSeq(a, O(u) + 1, O(n)) = SubSeq(b, 1, P(n))
           T == {x \in 0..(v - u) : Same(u + x) /\ O(u + x) >= O(u)}
<1>3. ASSUME NEW n \in 0..L
      PROVE  SubSeq(b, 1, P(n)) \in Seq(Text)
  <2>1. \A t \in 1..P(n) : b[t] \in Text
    BY <1>1, <1>2, ElementOfSeq, SMTT(60)
  <2>2. P(n) \in Int
    BY <1>2
  <2> HIDE DEF P
  <2> QED BY <2>1, <2>2, SubSeqProperties
<1>4. ASSUME NEW n \in 0..L
      PROVE  SubSeq(a, O(u) + 1, O(n)) \in Seq(Text)
  <2>1. O(u) \in 0..Len(a) /\ O(n) \in 0..Len(a)
    BY <1>1, <1>2
  <2>2. \A t \in (O(u) + 1)..O(n) : a[t] \in Text
    BY <1>1, <2>1, ElementOfSeq
  <2>3. O(u) + 1 \in Int /\ O(n) \in Int
    BY <2>1
  <2> HIDE DEF O
  <2> QED BY <2>2, <2>3, SubSeqProperties
<1>5. 0 \in T
  <2>1. u + 0 = u /\ u \in 0..L /\ O(u) \in Int
    BY <1>1, <1>2
  <2>2. SubSeq(a, O(u) + 1, O(u)) = <<>>
    <3>1. O(u) + 1 \in Int /\ O(u) < O(u) + 1
      BY <2>1
    <3> HIDE DEF O
    <3> QED BY <2>1, <3>1, SubSeqEmpty
  <2>3. SubSeq(b, 1, P(u)) \o <<>> = SubSeq(b, 1, P(u))
    BY <1>3, <2>1, ConcatEmptySeq
  <2>4. Same(u)
    <3> HIDE DEF O, P
    <3> QED BY <2>2, <2>3
  <2>5. O(u) >= O(u) /\ 0 \in 0..(v - u)
    <3> HIDE DEF O, P
    <3> QED BY <1>1, <2>1
  <2> HIDE DEF Same, O
  <2> QED BY <2>1, <2>4, <2>5
<1>6. \A x \in 0..((v - u) - 1) : x \in T => x + 1 \in T
  <2> SUFFICES ASSUME NEW x \in 0..((v - u) - 1), x \in T
               PROVE  x + 1 \in T
    OBVIOUS
  <2> DEFINE t == (u + x) + 1
  <2>1. /\ t \in 1..L /\ t - 1 = u + x /\ t = u + (x + 1) /\ t \in Nat
        /\ u < t /\ t <= v /\ x + 1 \in 0..(v - u)
        /\ u + x \in 0..L /\ t \in 0..L
    BY <1>1
  <2> HIDE DEF t
  <2>2. ops[t].mark \in OldMarks /\ ops[t].mark \in NewMarks
    BY <2>1 DEF Equal, OldMarks, NewMarks
  <2>3. /\ O(t) = O(t - 1) + 1 /\ P(t) = P(t - 1) + 1
        /\ ops[t].line = a[O(t)] /\ ops[t].line = b[P(t)]
    BY <2>1, <2>2, ScriptLine
  <2>10. O(t) = O(t - 1) + 1 /\ P(t) = P(t - 1) + 1
    BY <2>3
  <2>4. O(t - 1) >= O(u) /\ Same(t - 1)
    BY <2>1
  <2>11. O(t - 1) >= O(u)
    BY <2>4
  <2>5. /\ O(t) \in 0..Len(a) /\ P(t) \in 0..Len(b) /\ O(u) \in 0..Len(a)
        /\ O(t - 1) \in 0..Len(a) /\ P(t - 1) \in 0..Len(b)
    BY <1>1, <1>2, <2>1
  <2>6. SubSeq(a, O(u) + 1, O(t)) = SubSeq(a, O(u) + 1, O(t - 1)) \o <<a[O(t)]>>
    <3>1. O(u) + 1 \in 1..Len(a) /\ O(t) \in (O(u) + 1)..Len(a) /\ O(t) - 1 = O(t - 1)
      <4> HIDE DEF O, P
      <4> QED BY <1>1, <2>5, <2>10, <2>11, SMTT(60)
    <3> HIDE DEF O
    <3>2. SubSeq(a, O(u) + 1, O(t)) = SubSeq(a, O(u) + 1, O(t) - 1) \o <<a[O(t)]>>
      BY <3>1, SubSeqRecursiveSecond
    <3> QED BY <3>1, <3>2
  <2>7. SubSeq(b, 1, P(t)) = SubSeq(b, 1, P(t - 1)) \o <<b[P(t)]>>
    <3>1. 1 \in 1..Len(b) /\ P(t) \in 1..Len(b) /\ P(t) - 1 = P(t - 1)
      <4> HIDE DEF O, P
      <4>1. P(t) = P(t - 1) + 1 /\ P(t) \in 0..Len(b) /\ P(t - 1) \in 0..Len(b)
        BY <2>5, <2>10
      <4> DEFINE now == P(t)
                 before == P(t - 1)
      <4>2. now = before + 1 /\ now \in 0..Len(b) /\ before \in 0..Len(b)
        BY <4>1
      <4> HIDE DEF now, before
      <4>3. 1 \in 1..Len(b) /\ now \in 1..Len(b) /\ now - 1 = before
        BY <1>1, <4>2
      <4> QED BY <4>3 DEF now, before
    <3> HIDE DEF P
    <3>2. SubSeq(b, 1, P(t)) = SubSeq(b, 1, P(t) - 1) \o <<b[P(t)]>>
      BY <3>1, SubSeqRecursiveSecond
    <3> QED BY <3>1, <3>2
  <2>8. Same(t)
    <3> DEFINE w == SubSeq(b, 1, P(u))
               y == SubSeq(a, O(u) + 1, O(t - 1))
               z == <<a[O(t)]>>
    <3>1. w \in Seq(Text) /\ y \in Seq(Text)
      BY <1>1, <1>3, <1>4, <2>1
    <3>2. z \in Seq(Text)
      <4>1. O(t) \in 1..Len(a)
        <5> HIDE DEF O
        <5> QED BY <1>1, <2>5, <2>10
      <4>2. a[O(t)] \in Text
        BY <4>1, ElementOfSeq
      <4> HIDE DEF O
      <4> QED BY <4>2, OneSymbol
    <3>3. (w \o y) \o z = w \o (y \o z)
      <4> HIDE DEF w, y, z
      <4>1. w \in Seq(Text) /\ y \in Seq(Text) /\ z \in Seq(Text)
        BY <3>1, <3>2
      <4>2. Associative(w, y, z)
        BY <4>1, Associates
      <4> QED BY <4>2 DEF Associative
    <3>4. w \o y = SubSeq(b, 1, P(t - 1))
      BY <2>4
    <3>5. SubSeq(a, O(u) + 1, O(t)) = y \o z
      BY <2>6
    <3>6. SubSeq(b, 1, P(t)) = (w \o y) \o z
      BY <2>3, <2>7, <3>4
    <3>7. w \o SubSeq(a, O(u) + 1, O(t)) = SubSeq(b, 1, P(t))
      <4> HIDE DEF w, y, z, O, P
      <4> QED BY <3>3, <3>5, <3>6
    <3> QED BY <3>7
  <2>9. O(t) >= O(u)
    <3> HIDE DEF O, P
    <3> QED BY <2>5, <2>10, <2>11
  <2> HIDE DEF Same, O
  <2> QED BY <2>1, <2>8, <2>9
<1>7. v - u \in T
  <2> HIDE DEF T
  <2>1. v - u \in Nat
    BY <1>1
  <2>2. 0..(v - u) \subseteq T
    BY <1>5, <1>6, <2>1, InductionUpTo
  <2> QED BY <2>1, <2>2
<1>8. u + (v - u) = v
  BY <1>1
<1>9. Same(v)
  <2> HIDE DEF Same, O
  <2> QED BY <1>7, <1>8
<1> QED BY <1>9 DEF Continues

-----------------------------------------------------------------------------
(* Applying hunks.                                                         *)

ApplyStates == [ok : BOOLEAN, cursor : Nat, output : Seq(Text), changed : Nat]

LEMMA FailsType ==
  ASSUME NEW state \in ApplyStates
  PROVE  Fails(state) \in ApplyStates
BY DEF Fails, ApplyStates

LEMMA ApplyOpType ==
  ASSUME NEW lines, NEW state \in ApplyStates, NEW op \in Ops
  PROVE  ApplyOp(lines, state, op) \in ApplyStates
<1>1. /\ state.ok \in BOOLEAN /\ state.cursor \in Nat
      /\ state.output \in Seq(Text) /\ state.changed \in Nat /\ op.line \in Text
  BY DEF ApplyStates, Ops
<1>2. Append(state.output, op.line) \in Seq(Text)
  BY <1>1, AppendProperties
<1> DEFINE done == [ok |-> TRUE,
                    cursor |-> state.cursor + (IF op.mark = "+" THEN 0 ELSE 1),
                    output |-> IF op.mark = "-" THEN state.output
                                                ELSE Append(state.output, op.line),
                    changed |-> state.changed + (IF op.mark = " " THEN 0 ELSE 1)]
<1>3. done \in ApplyStates
  <2>1. \A n \in Nat : n + 0 \in Nat /\ n + 1 \in Nat
    OBVIOUS
  <2>2. /\ state.cursor + (IF op.mark = "+" THEN 0 ELSE 1) \in Nat
        /\ state.changed + (IF op.mark = " " THEN 0 ELSE 1) \in Nat
    BY <1>1, <2>1, Zenon
  <2> QED BY <1>1, <1>2, <2>1, <2>2 DEF ApplyStates
<1>4. ApplyOp(lines, state, op) \in {state, Fails(state), done}
  BY DEF ApplyOp
<1> HIDE DEF done
<1> QED BY <1>3, <1>4, FailsType

(* The body of a hunk, line by line.                                       *)
LEMMA BodyRecursion ==
  ASSUME NEW lines, NEW begun \in ApplyStates, NEW body \in Seq(Ops)
  PROVE  \E s : /\ s[0] = begun
                /\ \A i \in 1..Len(body) : s[i] = ApplyOp(lines, s[i - 1], body[i])
                /\ \A i \in 0..Len(body) : s[i] \in ApplyStates
                /\ ApplyBody(lines, begun, body) = s[Len(body)]
<1> DEFINE N == Len(body)
           V == ApplyStates
           step == [i \in 1..N |-> [v \in V |-> ApplyOp(lines, v, body[i])]]
<1>1. N \in Nat /\ begun \in V
  OBVIOUS
<1>2. \A i \in 1..N : \A v \in V : ApplyOp(lines, v, body[i]) \in V
  BY ElementOfSeq, ApplyOpType
<1>3. Steps(step, N, V)
  <2> HIDE DEF V
  <2> QED BY <1>2 DEF Steps
<1>4. \A i \in 1..N : \A v \in V : step[i][v] = ApplyOp(lines, v, body[i])
  <2> HIDE DEF V
  <2> QED OBVIOUS
<1> HIDE DEF step, V
<1>5. PICK f : Iterates(f, N, V, begun, step)
  BY <1>1, <1>3, Recursion, Zenon
<1>6. /\ f \in [0..N -> V] /\ f[0] = begun
      /\ \A i \in 1..N : f[i] = ApplyOp(lines, f[i - 1], body[i])
  <2>1. /\ f \in [0..N -> V] /\ f[0] = begun
        /\ \A i \in 1..N : f[i] = step[i][f[i - 1]]
    BY <1>5 DEF Iterates
  <2>2. \A i \in 1..N : f[i - 1] \in V
    BY <1>1, <2>1
  <2> QED BY <1>4, <2>1, <2>2
<1> DEFINE Is(s) ==
             s = [i \in 0..Len(body) |->
                    IF i = 0 THEN begun
                    ELSE ApplyOp(lines, s[i - 1], body[i])]
<1>7. Is(f)
  <2>1. \A i \in 0..N : i # 0 => i \in 1..N
    BY <1>1
  <2> QED BY <1>6, <2>1
<1>8. ApplyBody(lines, begun, body) = (CHOOSE s : Is(s))[Len(body)]
  BY Zenon DEF ApplyBody
<1>9. PICK s : Is(s) /\ ApplyBody(lines, begun, body) = s[N]
  <2> HIDE DEF Is
  <2> QED BY <1>7, <1>8
<1>10. s[0] = begun /\ \A i \in 1..N : s[i] = ApplyOp(lines, s[i - 1], body[i])
  <2>1. 0 \in 0..N /\ \A i \in 1..N : i \in 0..N /\ i # 0
    BY <1>1
  <2> QED BY <1>9, <2>1
<1>11. \A i \in 0..N : s[i] \in V
  <2> DEFINE T == {i \in 0..N : s[i] \in V}
  <2>1. 0 \in T
    BY <1>1, <1>10
  <2>2. \A i \in 0..(N - 1) : i \in T => i + 1 \in T
    <3> TAKE i \in 0..(N - 1)
    <3>1. i + 1 \in 1..N /\ i + 1 \in 0..N /\ (i + 1) - 1 = i
      BY <1>1
    <3>2. HAVE i \in T
    <3> QED BY <1>2, <1>10, <3>1, <3>2
  <2> HIDE DEF T
  <2>3. 0..N \subseteq T
    BY <1>1, <2>1, <2>2, InductionUpTo
  <2> QED BY <2>3 DEF T
<1> HIDE DEF Is
<1> QED BY <1>9, <1>10, <1>11 DEF V

(* Where the application of a script stands that has got to its line t: at  *)
(* the right line of a, with the right lines of b written.                 *)
At(ops, b, state, t) ==
  /\ state \in ApplyStates
  /\ state.ok
  /\ state.cursor = CountTo(ops, OldMarks, t)
  /\ state.output = SubSeq(b, 1, CountTo(ops, NewMarks, t))

LEMMA ApplyOpAt ==
  ASSUME NEW a \in Seq(Text), NEW b \in Seq(Text), NEW ops,
         Relates(ops, a, b, Len(a), Len(b)), NEW t \in 1..Len(ops),
         NEW state, At(ops, b, state, t - 1)
  PROVE  At(ops, b, ApplyOp(a, state, ops[t]), t)
<1> DEFINE op == ops[t]
           O(n) == CountTo(ops, OldMarks, n)
           P(n) == CountTo(ops, NewMarks, n)
<1>1. /\ op \in Ops
      /\ O(t - 1) \in 0..Len(a) /\ P(t - 1) \in 0..Len(b)
      /\ O(t) \in 0..Len(a) /\ P(t) \in 0..Len(b)
      /\ op.mark \in OldMarks => O(t) = O(t - 1) + 1 /\ op.line = a[O(t)]
      /\ op.mark \notin OldMarks => O(t) = O(t - 1)
      /\ op.mark \in NewMarks => P(t) = P(t - 1) + 1 /\ op.line = b[P(t)]
      /\ op.mark \notin NewMarks => P(t) = P(t - 1)
  BY ScriptLine
<1>2. /\ state \in ApplyStates /\ state.ok
      /\ state.cursor = O(t - 1) /\ state.output = SubSeq(b, 1, P(t - 1))
  BY DEF At
<1>3. Len(a) \in Nat /\ Len(b) \in Nat
  OBVIOUS
<1>4. op.mark \in Marks
  BY <1>1 DEF Ops
<1> HIDE DEF op, O, P
<1>5. ~(/\ op.mark \in OldMarks
        /\ state.cursor >= Len(a) \/ a[state.cursor + 1] # op.line)
  <2> SUFFICES ASSUME op.mark \in OldMarks
               PROVE  ~(state.cursor >= Len(a)) /\ a[state.cursor + 1] = op.line
    OBVIOUS
  <2>1. O(t) = O(t - 1) + 1 /\ op.line = a[O(t)]
    BY <1>1
  <2>2. state.cursor + 1 = O(t)
    BY <1>2, <2>1
  <2>3. ~(O(t - 1) >= Len(a))
    BY <1>1, <1>3, <2>1
  <2> QED BY <1>2, <2>1, <2>2, <2>3
<1> DEFINE next == ApplyOp(a, state, op)
<1>6. next = [ok |-> TRUE,
              cursor |-> state.cursor + (IF op.mark = "+" THEN 0 ELSE 1),
              output |-> IF op.mark = "-" THEN state.output
                                          ELSE Append(state.output, op.line),
              changed |-> state.changed + (IF op.mark = " " THEN 0 ELSE 1)]
  BY <1>2, <1>5 DEF ApplyOp
<1>7. next \in ApplyStates
  BY <1>1, <1>2, ApplyOpType
<1>8. next.ok /\ next.cursor = state.cursor + (IF op.mark = "+" THEN 0 ELSE 1)
      /\ next.output = IF op.mark = "-" THEN state.output
                                        ELSE Append(state.output, op.line)
  <2> DEFINE c == state.cursor + (IF op.mark = "+" THEN 0 ELSE 1)
             o == IF op.mark = "-" THEN state.output
                                   ELSE Append(state.output, op.line)
             d == state.changed + (IF op.mark = " " THEN 0 ELSE 1)
  <2>1. next = [ok |-> TRUE, cursor |-> c, output |-> o, changed |-> d]
    BY <1>6
  <2> HIDE DEF next, c, o, d
  <2>2. next.ok /\ next.cursor = c /\ next.output = o
    BY <2>1
  <2> QED BY <2>2 DEF c, o
<1> HIDE DEF next
<1>9. next.cursor = O(t)
  <2>1. op.mark = "+" <=> op.mark \notin OldMarks
    BY <1>4 DEF Marks, OldMarks
  <2>2. O(t) = O(t - 1) + (IF op.mark = "+" THEN 0 ELSE 1)
    BY <1>1, <2>1
  <2> QED BY <1>2, <1>8, <2>2
<1>10. next.output = SubSeq(b, 1, P(t))
  <2>1. op.mark = "-" <=> op.mark \notin NewMarks
    BY <1>4 DEF Marks, NewMarks
  <2>2. CASE op.mark \in NewMarks
    <3>1. P(t) = P(t - 1) + 1 /\ op.line = b[P(t)]
      BY <1>1, <2>2
    <3>2. 1 \in 1..Len(b) /\ P(t) \in 1..Len(b) /\ P(t) - 1 = P(t - 1)
      <4>1. P(t) = P(t - 1) + 1 /\ P(t - 1) \in 0..Len(b) /\ P(t) \in 0..Len(b)
        BY <1>1, <3>1
      <4> QED BY <1>3, <4>1
    <3>3. SubSeq(b, 1, P(t)) = SubSeq(b, 1, P(t) - 1) \o <<b[P(t)]>>
      BY <3>2, SubSeqRecursiveSecond
    <3>4. SubSeq(b, 1, P(t - 1)) \in Seq(Text) /\ op.line \in Text
      <4>1. state.output \in Seq(Text) /\ op.line \in Text
        BY <1>1, <1>2 DEF ApplyStates, Ops
      <4> QED BY <1>2, <4>1
    <3>5. Append(SubSeq(b, 1, P(t - 1)), op.line) = SubSeq(b, 1, P(t - 1)) \o <<op.line>>
      BY <3>4, AppendIsConcat
    <3> QED BY <1>2, <1>8, <2>1, <2>2, <3>1, <3>2, <3>3, <3>5
  <2>3. CASE op.mark \notin NewMarks
    BY <1>1, <1>2, <1>8, <2>1, <2>3
  <2> QED BY <2>2, <2>3
<1>11. At(ops, b, next, t)
  BY <1>7, <1>8, <1>9, <1>10 DEF At, O, P
<1> QED BY <1>11 DEF next, op

LEMMA ApplyBodyAt ==
  ASSUME NEW a \in Seq(Text), NEW b \in Seq(Text), NEW ops,
         Relates(ops, a, b, Len(a), Len(b)),
         NEW first \in 1..Len(ops), NEW last \in first..Len(ops),
         NEW begun, At(ops, b, begun, first - 1)
  PROVE  At(ops, b, ApplyBody(a, begun, SubSeq(ops, first, last)), last)
<1> DEFINE body == SubSeq(ops, first, last)
           N == last - first + 1
<1>1. ops \in Seq(Ops) /\ Len(ops) \in Nat /\ first \in Nat /\ last \in Nat
  BY DEF Relates
<1>2. N \in Nat /\ first <= last
  BY <1>1
<1>3. /\ body \in Seq(Ops) /\ Len(body) = N
      /\ \A i \in 1..N : body[i] = ops[first + i - 1]
  <2>1. \A i \in first..last : ops[i] \in Ops
    BY <1>1, ElementOfSeq
  <2> QED BY <1>1, <1>2, <2>1, SubSeqProperties
<1> HIDE DEF body
<1>4. begun \in ApplyStates
  BY DEF At
<1>5. PICK s : /\ s[0] = begun
               /\ \A i \in 1..N : s[i] = ApplyOp(a, s[i - 1], body[i])
               /\ ApplyBody(a, begun, body) = s[N]
  <2>1. \E s : /\ s[0] = begun
               /\ \A i \in 1..Len(body) : s[i] = ApplyOp(a, s[i - 1], body[i])
               /\ \A i \in 0..Len(body) : s[i] \in ApplyStates
               /\ ApplyBody(a, begun, body) = s[Len(body)]
    BY <1>3, <1>4, BodyRecursion
  <2> QED BY <1>3, <2>1
<1> DEFINE T == {i \in 0..N : At(ops, b, s[i], (first - 1) + i)}
<1>6. 0 \in T
  <2>1. (first - 1) + 0 = first - 1 /\ 0 \in 0..N
    BY <1>1, <1>2
  <2> QED BY <1>5, <2>1
<1>7. \A i \in 0..(N - 1) : i \in T => i + 1 \in T
  <2> SUFFICES ASSUME NEW i \in 0..(N - 1), i \in T
               PROVE  i + 1 \in T
    OBVIOUS
  <2> DEFINE t == first + i
  <2>1. /\ i + 1 \in 1..N /\ i + 1 \in 0..N /\ (i + 1) - 1 = i
        /\ t \in 1..Len(ops) /\ t - 1 = (first - 1) + i
        /\ t = (first - 1) + (i + 1) /\ t = first + (i + 1) - 1
    BY <1>1, <1>2
  <2> HIDE DEF t
  <2>2. At(ops, b, s[i], t - 1)
    BY <2>1
  <2>3. s[i + 1] = ApplyOp(a, s[i], ops[t])
    BY <1>3, <1>5, <2>1
  <2>4. At(ops, b, s[i + 1], t)
    BY <2>1, <2>2, <2>3, ApplyOpAt
  <2> QED BY <2>1, <2>4
<1> HIDE DEF T
<1>8. N \in T
  <2>1. 0..N \subseteq T
    BY <1>2, <1>6, <1>7, InductionUpTo
  <2> QED BY <1>2, <2>1
<1>9. (first - 1) + N = last
  BY <1>1
<1> QED BY <1>5, <1>8, <1>9 DEF T, body

HunkRec == [start : Nat, old : Nat, new : Nat, body : Seq(Ops)]

(* The hunk of a run says its own lengths, and starts after the lines of    *)
(* the old text that come before the run.                                  *)
LEMMA HunkFacts ==
  ASSUME NEW ops \in Seq(Ops), NEW run \in RunsOf,
         1 <= run.first, run.first <= run.last, run.last <= Len(ops),
         run.first > 1 => ~Kept(ops, run.first - 1)
  PROVE  LET h == Hunk(ops, run) IN
         /\ h \in HunkRec
         /\ h.body = SubSeq(ops, run.first, run.last)
         /\ Count(h.body, OldMarks) = h.old /\ Count(h.body, NewMarks) = h.new
         /\ HunkStart(h) = CountTo(ops, OldMarks, run.first - 1)
<1> DEFINE u == run.first
           v == run.last
           body == SubSeq(ops, u, v)
           before == CountTo(ops, OldMarks, u - 1)
           old == Count(body, OldMarks)
           new == Count(body, NewMarks)
           start == IF old = 0 THEN before ELSE before + 1
           h == [start |-> start, old |-> old, new |-> new, body |-> body]
<1>1. /\ u \in Nat /\ v \in Nat /\ Len(ops) \in Nat /\ 1 <= u /\ u <= v /\ v <= Len(ops)
      /\ u - 1 \in Nat /\ v - u + 1 \in Nat /\ 1 <= v - u + 1
  <2>1. u \in Nat /\ v \in Nat /\ Len(ops) \in Nat
    BY DEF RunsOf
  <2>2. 1 <= u /\ u <= v /\ v <= Len(ops)
    OBVIOUS
  <2> HIDE DEF u, v
  <2> QED BY <2>1, <2>2
<1>2. u > 1 => ~Kept(ops, u - 1)
  OBVIOUS
<1>3. Hunk(ops, run) = h
  BY DEF Hunk
<1> HIDE DEF u, v
<1>4. /\ body \in Seq(Ops) /\ Len(body) = v - u + 1
      /\ \A i \in 1..(v - u + 1) : body[i] = ops[u + i - 1]
  <2>1. \A i \in u..v : ops[i] \in Ops
    BY <1>1, ElementOfSeq
  <2> QED BY <1>1, <2>1, SubSeqProperties, SMTT(60)
<1> HIDE DEF body
<1>5. before \in Nat /\ old \in Nat /\ new \in Nat
  <2>1. Len(body) \in Nat
    BY <1>1, <1>4
  <2> QED BY <1>1, <2>1, CountType DEF Count
<1>6. old = 0 => u = 1
  <2> SUFFICES ASSUME old = 0, u # 1
               PROVE  FALSE
    OBVIOUS
  <2>1. body[1] = ops[u] /\ 0 + 1 \in 1..Len(body)
    <3>1. 1 \in 1..(v - u + 1) /\ u + 1 - 1 = u
      BY <1>1
    <3> QED BY <1>4, <3>1
  <2>2. ops[u].mark \notin OldMarks
    <3> SUFFICES ASSUME ops[u].mark \in OldMarks
                 PROVE  FALSE
      OBVIOUS
    <3>1. CountTo(body, OldMarks, 0 + 1) = CountTo(body, OldMarks, 0) + 1
      <4>1. body[0 + 1].mark \in OldMarks
        BY <2>1
      <4>2. CountTo(body, OldMarks, 0 + 1)
              = CountTo(body, OldMarks, 0)
                  + (IF body[0 + 1].mark \in OldMarks THEN 1 ELSE 0)
        BY CountNext
      <4> QED BY <4>1, <4>2
    <3>2. CountTo(body, OldMarks, 0 + 1) <= old
      <4>1. 0 + 1 \in Nat /\ Len(body) \in Nat /\ 0 + 1 <= Len(body)
        BY <1>1, <1>4
      <4> QED BY <4>1, CountGrows DEF Count
    <3>3. CountTo(body, OldMarks, 0) = 0
      BY CountZero
    <3> HIDE DEF old
    <3> QED BY <3>1, <3>2, <3>3
  <2>3. ops[u].mark # " "
    BY <2>2 DEF OldMarks
  <2>4. Kept(ops, u - 1)
    <3>1. u \in DOMAIN ops
      BY <1>1
    <3>2. u <= (u - 1) + Context /\ u - 1 <= u + Context
      BY <1>1, LimitsAssumption
    <3> QED BY <2>3, <3>1, <3>2 DEF Kept
  <2>5. u > 1
    BY <1>1
  <2> QED BY <1>2, <2>4, <2>5
<1>7. u = 1 => before = 0
  <2>1. u = 1 => u - 1 = 0
    OBVIOUS
  <2> QED BY <2>1, CountZero
<1> HIDE DEF before, old, new
<1>8. start \in Nat /\ (IF start = 0 THEN 0 ELSE start - 1) = before
  BY <1>5, <1>6, <1>7
<1>9. /\ h.start = start /\ h.old = old /\ h.new = new /\ h.body = body
  <2> HIDE DEF start
  <2> QED OBVIOUS
<1>10. h \in HunkRec
  <2> HIDE DEF start
  <2> QED BY <1>4, <1>5, <1>8 DEF HunkRec
<1> HIDE DEF h, start
<1>11. HunkStart(h) = before
  BY <1>8, <1>9 DEF HunkStart
<1> QED BY <1>3, <1>9, <1>10, <1>11 DEF body, old, new, before, u, v

(* The lines between the hunks are equal lines of both texts.              *)
LEMMA NotKeptIsEqual ==
  ASSUME NEW ops, NEW t \in Nat, t \in DOMAIN ops, ~Kept(ops, t)
  PROVE  ops[t].mark = " "
<1>1. t <= t + Context
  BY LimitsAssumption
<1> QED BY <1>1 DEF Kept


(* A hunk begins: the lines before it are copied.                          *)
Begun(lines, state, start) ==
  [state EXCEPT !.cursor = start,
     !.output = @ \o SubSeq(lines, state.cursor + 1, start)]

LEMMA BegunFacts ==
  ASSUME NEW lines \in Seq(Text), NEW state \in ApplyStates,
         NEW start \in Nat, start <= Len(lines)
  PROVE  /\ Begun(lines, state, start) \in ApplyStates
         /\ Begun(lines, state, start).ok = state.ok
         /\ Begun(lines, state, start).cursor = start
         /\ Begun(lines, state, start).output
              = state.output \o SubSeq(lines, state.cursor + 1, start)
<1> DEFINE c == state.cursor
           part == SubSeq(lines, c + 1, start)
           output == state.output \o part
           begun == Begun(lines, state, start)
<1>1. c \in Nat /\ state.output \in Seq(Text) /\ Len(lines) \in Nat
  BY DEF ApplyStates
<1>2. part \in Seq(Text)
  <2> HIDE DEF c
  <2>1. \A t \in (c + 1)..start : lines[t] \in Text
    BY <1>1, ElementOfSeq
  <2>2. c + 1 \in Int /\ start \in Int
    BY <1>1
  <2> QED BY <2>1, <2>2, SubSeqProperties
<1> HIDE DEF part
<1>3. output \in Seq(Text)
  BY <1>1, <1>2, ConcatProperties
<1>4. begun = [state EXCEPT !.cursor = start, !.output = output]
  BY DEF Begun, part
<1> HIDE DEF output, begun
<1>5. /\ begun.ok = state.ok /\ begun.cursor = start /\ begun.output = output
      /\ begun \in ApplyStates
  BY <1>3, <1>4 DEF ApplyStates
<1> QED BY <1>5 DEF begun, output, part, c

LEMMA ApplyBodyType ==
  ASSUME NEW lines, NEW begun \in ApplyStates, NEW body \in Seq(Ops)
  PROVE  ApplyBody(lines, begun, body) \in ApplyStates
<1>1. PICK s : /\ s[0] = begun
               /\ \A i \in 1..Len(body) : s[i] = ApplyOp(lines, s[i - 1], body[i])
               /\ \A i \in 0..Len(body) : s[i] \in ApplyStates
               /\ ApplyBody(lines, begun, body) = s[Len(body)]
  BY BodyRecursion
<1>2. Len(body) \in 0..Len(body)
  OBVIOUS
<1> QED BY <1>1, <1>2

LEMMA ApplyHunkType ==
  ASSUME NEW lines \in Seq(Text), NEW state \in ApplyStates, NEW hunk \in HunkRec
  PROVE  ApplyHunk(lines, state, hunk) \in ApplyStates
<1> DEFINE start == HunkStart(hunk)
           begun == Begun(lines, state, start)
           ended == ApplyBody(lines, begun, hunk.body)
<1>1. ApplyHunk(lines, state, hunk) =
        IF ~state.ok THEN state
        ELSE IF start < state.cursor \/ start > Len(lines) THEN Fails(state)
        ELSE IF \/ Count(hunk.body, OldMarks) # hunk.old
                \/ Count(hunk.body, NewMarks) # hunk.new THEN Fails(ended)
        ELSE ended
  BY DEF ApplyHunk, Begun
<1>2. start \in Nat
  BY DEF HunkStart, HunkRec
<1>3. hunk.body \in Seq(Ops)
  BY DEF HunkRec
<1> HIDE DEF start
<1>4. ASSUME ~(start > Len(lines))
      PROVE  ended \in ApplyStates
  <2>1. start <= Len(lines)
    BY <1>2, <1>4
  <2>2. begun \in ApplyStates
    BY <1>2, <2>1, BegunFacts
  <2> HIDE DEF begun
  <2> QED BY <1>3, <2>2, ApplyBodyType
<1> HIDE DEF ended
<1>5. CASE ~state.ok
  BY <1>1, <1>5
<1>6. CASE start < state.cursor \/ start > Len(lines)
  BY <1>1, <1>6, FailsType
<1>7. CASE state.ok /\ ~(start < state.cursor \/ start > Len(lines))
  BY <1>1, <1>4, <1>7, FailsType
<1> QED BY <1>5, <1>6, <1>7

LEMMA ApplyHunkAt ==
  ASSUME NEW a \in Seq(Text), NEW b \in Seq(Text), NEW ops,
         Relates(ops, a, b, Len(a), Len(b)),
         NEW u \in Nat, NEW run \in RunsOf,
         u < run.first, run.first <= run.last, run.last <= Len(ops),
         run.first > 1 => ~Kept(ops, run.first - 1),
         \A t \in Nat : u < t /\ t < run.first => ~Kept(ops, t),
         NEW state, At(ops, b, state, u)
  PROVE  At(ops, b, ApplyHunk(a, state, Hunk(ops, run)), run.last)
<1> DEFINE first == run.first
           last == run.last
           hunk == Hunk(ops, run)
           start == HunkStart(hunk)
           begun == Begun(a, state, start)
           ended == ApplyBody(a, begun, hunk.body)
           O(n) == CountTo(ops, OldMarks, n)
           P(n) == CountTo(ops, NewMarks, n)
<1>1. /\ ops \in Seq(Ops) /\ Len(ops) \in Nat /\ Len(a) \in Nat
      /\ first \in Nat /\ last \in Nat
  BY DEF Relates, RunsOf
<1>2. /\ u < first /\ first <= last /\ last <= Len(ops) /\ 1 <= first
      /\ first > 1 => ~Kept(ops, first - 1)
  BY <1>1
<1>3. /\ hunk \in HunkRec
      /\ hunk.body = SubSeq(ops, first, last)
      /\ Count(hunk.body, OldMarks) = hunk.old /\ Count(hunk.body, NewMarks) = hunk.new
      /\ start = O(first - 1)
  BY <1>1, <1>2, HunkFacts
<1>4. /\ state \in ApplyStates /\ state.ok = TRUE
      /\ state.cursor = O(u) /\ state.output = SubSeq(b, 1, P(u))
  BY DEF At, ApplyStates
<1>5. Equal(ops, u, first - 1)
  <2> SUFFICES ASSUME NEW t \in Nat, u < t, t <= first - 1
               PROVE  ops[t].mark = " "
    BY DEF Equal
  <2>1. t < first /\ t \in DOMAIN ops
    BY <1>1, <1>2
  <2>2. ~Kept(ops, t)
    BY <2>1
  <2> QED BY <2>1, <2>2, NotKeptIsEqual
<1>6. u \in 0..Len(ops) /\ first - 1 \in u..Len(ops) /\ first - 1 \in 0..Len(ops)
      /\ first - 1 \in Nat /\ u <= first - 1
  <2> HIDE DEF first, last
  <2> QED BY <1>1, <1>2
<1>7. O(u) <= O(first - 1) /\ O(first - 1) \in 0..Len(a) /\ O(u) \in Nat
  <2>1. O(u) <= O(first - 1)
    BY <1>6, CountGrows
  <2>2. O(first - 1) \in 0..Len(a) /\ O(u) \in 0..Len(a)
    BY <1>6, ScriptPlace
  <2> QED BY <2>1, <2>2
<1>8. SubSeq(b, 1, P(u)) \o SubSeq(a, O(u) + 1, O(first - 1)) = SubSeq(b, 1, P(first - 1))
  <2> DEFINE v == first - 1
  <2>1. u \in 0..Len(ops) /\ v \in u..Len(ops) /\ Equal(ops, u, v)
    BY <1>5, <1>6
  <2>3. a \in Seq(Text) /\ b \in Seq(Text) /\ Relates(ops, a, b, Len(a), Len(b))
    OBVIOUS
  <2> HIDE DEF v
  <2>2. Continues(ops, a, b, u, v)
    BY <2>1, <2>3, Stretch
  <2> QED BY <2>2 DEF v, Continues
<1> HIDE DEF first, last, hunk, start, O
<1>9. start \in Nat /\ start <= Len(a) /\ start >= O(u)
  BY <1>1, <1>3, <1>7
<1>10. /\ begun \in ApplyStates /\ begun.ok = state.ok /\ begun.cursor = start
       /\ begun.output = state.output \o SubSeq(a, state.cursor + 1, start)
  BY <1>4, <1>9, BegunFacts
<1> HIDE DEF begun
<1>11. begun.output = SubSeq(b, 1, P(first - 1))
  <2>1. SubSeq(a, state.cursor + 1, start) = SubSeq(a, O(u) + 1, O(first - 1))
    BY <1>3, <1>4
  <2> QED BY <1>4, <1>8, <1>10, <2>1
<1> HIDE DEF P
<1>12. At(ops, b, begun, first - 1)
  BY <1>3, <1>4, <1>10, <1>11 DEF At, O, P
<1>13. At(ops, b, ended, last)
  <2>1. first \in 1..Len(ops) /\ last \in first..Len(ops)
    BY <1>1, <1>2
  <2>2. At(ops, b, ApplyBody(a, begun, SubSeq(ops, first, last)), last)
    BY <1>12, <2>1, ApplyBodyAt
  <2> QED BY <1>3, <2>2
<1>14. ApplyHunk(a, state, hunk) =
        IF ~state.ok THEN state
        ELSE IF start < state.cursor \/ start > Len(a) THEN Fails(state)
        ELSE IF \/ Count(hunk.body, OldMarks) # hunk.old
                \/ Count(hunk.body, NewMarks) # hunk.new THEN Fails(ended)
        ELSE ended
  BY DEF ApplyHunk, Begun, start, begun
<1>15. ~(start < O(u) \/ start > Len(a))
  BY <1>1, <1>7, <1>9
<1> HIDE DEF ended
<1>16. ApplyHunk(a, state, hunk) = ended
  BY <1>3, <1>4, <1>14, <1>15
<1> QED BY <1>13, <1>16 DEF hunk, last


LEMMA HunksFacts ==
  ASSUME NEW ops \in Seq(Ops)
  PROVE  /\ Hunks(ops) \in Seq(HunkRec)
         /\ Len(Hunks(ops)) = Len(Runs(ops))
         /\ \A x \in 1..Len(Runs(ops)) : Hunks(ops)[x] = Hunk(ops, Runs(ops)[x])
<1> DEFINE runs == Runs(ops)
           N == Len(runs)
<1>1. runs \in Seq(RunsOf) /\ N \in Nat /\ Len(ops) \in Nat
  BY RunsCover DEF Covers
<1>2. Covers(ops, runs, Len(ops))
  BY RunsCover
<1> HIDE DEF runs
<1>3. DOMAIN runs = 1..N
  BY <1>1
<1>4. Hunks(ops) = [x \in 1..N |-> Hunk(ops, runs[x])]
  BY <1>3 DEF Hunks, runs
<1>5. ASSUME NEW x \in 1..N
      PROVE  Hunk(ops, runs[x]) \in HunkRec
  <2>1. runs[x] \in RunsOf
    BY <1>1, ElementOfSeq
  <2>2. /\ End(runs, x - 1) < runs[x].first
        /\ runs[x].first <= runs[x].last /\ runs[x].last <= Len(ops)
        /\ runs[x].first > 1 => ~Kept(ops, runs[x].first - 1)
    BY <1>2 DEF Covers
  <2>3. End(runs, x - 1) \in Nat
    <3>1. x # 1 => x - 1 \in 1..N
      BY <1>1
    <3>2. x # 1 => runs[x - 1] \in RunsOf
      BY <1>1, <3>1, ElementOfSeq
    <3>3. x # 1 => runs[x - 1].last \in Nat
      BY <3>2 DEF RunsOf
    <3>4. x = 1 => x - 1 = 0
      OBVIOUS
    <3> QED BY <3>3, <3>4 DEF End
  <2>4. runs[x].first \in Nat
    BY <2>1 DEF RunsOf
  <2>5. 1 <= runs[x].first
    BY <2>2, <2>3, <2>4
  <2> QED BY <2>1, <2>2, <2>5, HunkFacts
<1> DEFINE hunks == [x \in 1..N |-> Hunk(ops, runs[x])]
<1>6. hunks \in [1..N -> HunkRec]
  BY <1>5
<1>7. \A x \in 1..N : hunks[x] = Hunk(ops, runs[x])
  OBVIOUS
<1> HIDE DEF hunks
<1>8. hunks \in Seq(HunkRec) /\ Len(hunks) = N
  BY <1>1, <1>6, SeqDef
<1> QED BY <1>4, <1>7, <1>8 DEF runs, hunks

FirstState == [ok |-> TRUE, cursor |-> 0, output |-> <<>>, changed |-> 0]

LEMMA HunksRecursion ==
  ASSUME NEW lines \in Seq(Text), NEW hunks \in Seq(HunkRec)
  PROVE  \E s : /\ s[0] = FirstState
                /\ \A x \in 1..Len(hunks) : s[x] = ApplyHunk(lines, s[x - 1], hunks[x])
                /\ ApplyHunks(lines, hunks) = s[Len(hunks)]
<1> DEFINE N == Len(hunks)
           V == ApplyStates
           step == [x \in 1..N |-> [v \in V |-> ApplyHunk(lines, v, hunks[x])]]
<1>1. N \in Nat /\ FirstState \in V
  <2>1. <<>> \in Seq(Text) /\ 0 \in Nat
    OBVIOUS
  <2> QED BY <2>1 DEF FirstState, ApplyStates
<1>2. \A x \in 1..N : \A v \in V : ApplyHunk(lines, v, hunks[x]) \in V
  BY ElementOfSeq, ApplyHunkType
<1>3. Steps(step, N, V)
  <2> HIDE DEF V
  <2> QED BY <1>2 DEF Steps
<1>4. \A x \in 1..N : \A v \in V : step[x][v] = ApplyHunk(lines, v, hunks[x])
  <2> HIDE DEF V
  <2> QED OBVIOUS
<1> HIDE DEF step, V
<1>5. PICK f : Iterates(f, N, V, FirstState, step)
  BY <1>1, <1>3, Recursion, Zenon
<1>6. /\ f \in [0..N -> V] /\ f[0] = FirstState
      /\ \A x \in 1..N : f[x] = ApplyHunk(lines, f[x - 1], hunks[x])
  <2>1. /\ f \in [0..N -> V] /\ f[0] = FirstState
        /\ \A x \in 1..N : f[x] = step[x][f[x - 1]]
    BY <1>5 DEF Iterates
  <2>2. \A x \in 1..N : f[x - 1] \in V
    BY <1>1, <2>1, SMTT(60)
  <2> QED BY <1>4, <2>1, <2>2
<1> DEFINE Is(s) ==
             s = [x \in 0..Len(hunks) |->
                    IF x = 0
                      THEN [ok |-> TRUE, cursor |-> 0, output |-> <<>>, changed |-> 0]
                      ELSE ApplyHunk(lines, s[x - 1], hunks[x])]
<1>7. \A s : Is(s) <=> s = [x \in 0..N |-> IF x = 0 THEN FirstState
                                           ELSE ApplyHunk(lines, s[x - 1], hunks[x])]
  BY DEF FirstState
<1>8. ApplyHunks(lines, hunks) = (CHOOSE s : Is(s))[Len(hunks)]
  BY Zenon DEF ApplyHunks
<1> HIDE DEF Is
<1>9. Is(f)
  <2>1. \A x \in 0..N : x # 0 => x \in 1..N
    BY <1>1
  <2>2. f = [x \in 0..N |-> IF x = 0 THEN FirstState
                            ELSE ApplyHunk(lines, f[x - 1], hunks[x])]
    BY <1>6, <2>1
  <2> QED BY <1>7, <2>2
<1>10. PICK s : Is(s) /\ ApplyHunks(lines, hunks) = s[N]
  BY <1>8, <1>9
<1>11. s[0] = FirstState /\ \A x \in 1..N : s[x] = ApplyHunk(lines, s[x - 1], hunks[x])
  <2>1. 0 \in 0..N /\ \A x \in 1..N : x \in 0..N /\ x # 0
    BY <1>1
  <2> QED BY <1>7, <1>10, <2>1
<1> QED BY <1>10, <1>11

(* A diff applies to the text it was made from, and leads to the other.    *)
LEMMA HunksApply ==
  ASSUME NEW a \in Seq(Text), NEW b \in Seq(Text), NEW ops,
         Relates(ops, a, b, Len(a), Len(b))
  PROVE  LET last == ApplyHunks(a, Hunks(ops)) IN
         /\ last.ok = TRUE
         /\ last.output \o SubSeq(a, last.cursor + 1, Len(a)) = b
<1> DEFINE runs == Runs(ops)
           hunks == Hunks(ops)
           N == Len(runs)
           L == Len(ops)
<1>1. ops \in Seq(Ops) /\ L \in Nat /\ Len(a) \in Nat /\ Len(b) \in Nat
  BY DEF Relates
<1>2. /\ hunks \in Seq(HunkRec) /\ Len(hunks) = N
      /\ \A x \in 1..N : hunks[x] = Hunk(ops, runs[x])
  BY <1>1, HunksFacts
<1>3. Covers(ops, runs, L)
  BY <1>1, RunsCover
<1>4. runs \in Seq(RunsOf) /\ N \in Nat
  BY <1>3 DEF Covers
<1> HIDE DEF runs, hunks
<1>5. PICK s : /\ s[0] = FirstState
               /\ \A x \in 1..Len(hunks) : s[x] = ApplyHunk(a, s[x - 1], hunks[x])
               /\ ApplyHunks(a, hunks) = s[Len(hunks)]
  BY <1>2, HunksRecursion
<1>6. \A x \in 0..N : End(runs, x) \in Nat
  <2> TAKE x \in 0..N
  <2>1. CASE x = 0
    BY <2>1 DEF End
  <2>2. CASE x # 0
    <3>1. runs[x] \in RunsOf
      BY <1>4, <2>2, ElementOfSeq
    <3>2. runs[x].last \in Nat
      BY <3>1 DEF RunsOf
    <3> QED BY <2>2, <3>2 DEF End
  <2> QED BY <2>1, <2>2
<1> DEFINE T == {x \in 0..N : At(ops, b, s[x], End(runs, x))}
<1>7. 0 \in T
  <2>1. End(runs, 0) = 0
    BY DEF End
  <2>2. FirstState \in ApplyStates /\ FirstState.ok /\ FirstState.cursor = 0
        /\ FirstState.output = <<>>
    <3>1. <<>> \in Seq(Text) /\ 0 \in Nat
      OBVIOUS
    <3> QED BY <3>1 DEF FirstState, ApplyStates
  <2>3. CountTo(ops, OldMarks, 0) = 0 /\ CountTo(ops, NewMarks, 0) = 0
    BY CountZero
  <2>4. SubSeq(b, 1, 0) = <<>>
    BY SubSeqEmpty
  <2>5. At(ops, b, FirstState, 0)
    BY <2>2, <2>3, <2>4 DEF At
  <2>6. 0 \in 0..N
    BY <1>4
  <2>7. s[0] = FirstState
    BY <1>5
  <2> QED BY <2>1, <2>5, <2>6, <2>7
<1>8. \A x \in 0..(N - 1) : x \in T => x + 1 \in T
  <2> SUFFICES ASSUME NEW x \in 0..(N - 1), x \in T
               PROVE  x + 1 \in T
    OBVIOUS
  <2> DEFINE y == x + 1
             run == runs[y]
             u == End(runs, x)
  <2>1. /\ y \in 1..N /\ y \in 0..N /\ y - 1 = x /\ y # 0 /\ x \in 0..N
    BY <1>4
  <2>2. At(ops, b, s[x], u)
    OBVIOUS
  <2> HIDE DEF y
  <2>3. s[y] = ApplyHunk(a, s[x], Hunk(ops, run))
    BY <1>2, <1>5, <2>1
  <2>4. /\ End(runs, y - 1) < runs[y].first
        /\ runs[y].first <= runs[y].last /\ runs[y].last <= L
        /\ runs[y].first > 1 => ~Kept(ops, runs[y].first - 1)
        /\ \A t \in Nat : End(runs, y - 1) < t /\ t < runs[y].first
                            => ~Kept(ops, t)
    BY <1>3, <2>1 DEF Covers
  <2>5. u \in Nat /\ run \in RunsOf
    <3>1. run \in RunsOf
      BY <1>4, <2>1, ElementOfSeq
    <3> QED BY <1>6, <2>1, <3>1
  <2>6. End(runs, y - 1) = u /\ End(runs, y) = run.last
    BY <2>1 DEF End
  <2> HIDE DEF run, u
  <2>7. /\ u < run.first /\ run.first <= run.last /\ run.last <= Len(ops)
        /\ run.first > 1 => ~Kept(ops, run.first - 1)
        /\ \A t \in Nat : u < t /\ t < run.first => ~Kept(ops, t)
    BY <2>4, <2>6 DEF run
  <2>8. At(ops, b, ApplyHunk(a, s[x], Hunk(ops, run)), run.last)
    BY <2>2, <2>5, <2>7, ApplyHunkAt
  <2>9. At(ops, b, s[y], End(runs, y))
    BY <2>3, <2>6, <2>8
  <2> QED BY <2>1, <2>9 DEF y
<1>9. At(ops, b, s[N], End(runs, N))
  <2> HIDE DEF T
  <2>1. 0..N \subseteq T
    BY <1>4, <1>7, <1>8, InductionUpTo
  <2>2. N \in T
    BY <1>4, <2>1
  <2> QED BY <2>2 DEF T
<1> DEFINE last == ApplyHunks(a, hunks)
           u == End(runs, N)
           O(n) == CountTo(ops, OldMarks, n)
           P(n) == CountTo(ops, NewMarks, n)
<1>10. last.ok = TRUE /\ last.cursor = O(u) /\ last.output = SubSeq(b, 1, P(u))
  <2>1. last = s[N]
    BY <1>2, <1>5
  <2> HIDE DEF last
  <2> QED BY <1>9, <2>1 DEF At, ApplyStates
<1>11. u \in 0..L
  <2>1. u <= L
    <3>1. CASE N = 0
      BY <1>1, <3>1 DEF End
    <3>2. CASE N # 0
      <4>1. N \in 1..N
        BY <1>4, <3>2
      <4>2. runs[N].last <= L
        BY <1>3, <4>1 DEF Covers
      <4> QED BY <3>2, <4>2 DEF End
    <3> QED BY <3>1, <3>2
  <2>2. u \in Nat
    BY <1>4, <1>6
  <2> QED BY <1>1, <2>1, <2>2
<1>12. Equal(ops, u, L)
  <2> SUFFICES ASSUME NEW t \in Nat, u < t, t <= L
               PROVE  ops[t].mark = " "
    BY DEF Equal
  <2>1. ~Kept(ops, t)
    BY <1>3 DEF Covers
  <2>2. t \in DOMAIN ops
    <3>1. u \in Nat /\ 1 <= t
      BY <1>11
    <3> QED BY <1>1, <3>1
  <2> QED BY <2>1, <2>2, NotKeptIsEqual
<1> HIDE DEF u
<1>13. Continues(ops, a, b, u, L)
  <2>1. L \in u..Len(ops)
    BY <1>1, <1>11
  <2> QED BY <1>11, <1>12, <2>1, Stretch
<1>14. O(L) = Len(a) /\ P(L) = Len(b)
  BY DEF Relates
<1>15. SubSeq(b, 1, Len(b)) = b
  <2> DEFINE w == SubSeq(b, 1, Len(b))
  <2>1. \A i \in 1..Len(b) : b[i] \in Text
    BY ElementOfSeq
  <2>2. w \in Seq(Text) /\ Len(w) = Len(b) /\ \A i \in 1..Len(b) : w[i] = b[i]
    BY <1>1
  <2> HIDE DEF w
  <2>3. w = b
    BY <1>1, <2>2, SameLength
  <2> QED BY <2>3 DEF w
<1>16. SubSeq(b, 1, P(u)) \o SubSeq(a, O(u) + 1, Len(a)) = b
  BY <1>13, <1>14, <1>15 DEF Continues
<1> HIDE DEF last
<1>17. last.output \o SubSeq(a, last.cursor + 1, Len(a)) = b
  BY <1>10, <1>16
<1> QED BY <1>10, <1>17 DEF last, hunks


(* A removed or added line that looks like a file header is a line of one   *)
(* of the texts.                                                           *)
LooksLikeOne(line) == line # <<>> /\ Head(line) \in {"-- ", "++ "}

LEMMA HeaderLine ==
  ASSUME NEW a \in Seq(Text), NEW b \in Seq(Text), NEW ops,
         Relates(ops, a, b, Len(a), Len(b)), ~OneFile(Hunks(ops))
  PROVE  \E line \in Range(a) \cup Range(b) : LooksLikeOne(line)
<1> DEFINE runs == Runs(ops)
           N == Len(runs)
           L == Len(ops)
           O(n) == CountTo(ops, OldMarks, n)
           P(n) == CountTo(ops, NewMarks, n)
<1>1. ops \in Seq(Ops) /\ L \in Nat /\ Len(a) \in Nat /\ Len(b) \in Nat
  BY DEF Relates
<1>2. /\ Hunks(ops) \in Seq(HunkRec) /\ Len(Hunks(ops)) = N
      /\ \A x \in 1..N : Hunks(ops)[x] = Hunk(ops, runs[x])
  BY <1>1, HunksFacts
<1>3. Covers(ops, runs, L)
  BY <1>1, RunsCover
<1>4. PICK h \in Range(Hunks(ops)) : \E o \in Range(h.body) : LooksLikeHeader(o)
  BY DEF OneFile
<1>5. PICK x \in 1..N : h = Hunk(ops, runs[x])
  <2>1. DOMAIN Hunks(ops) = 1..N
    BY <1>2
  <2>2. PICK x \in DOMAIN Hunks(ops) : h = Hunks(ops)[x]
    BY <1>4 DEF Range
  <2> QED BY <1>2, <2>1, <2>2
<1> HIDE DEF runs
<1> DEFINE first == runs[x].first
           last == runs[x].last
<1>6. h.body = SubSeq(ops, first, last)
  BY <1>5 DEF Hunk
<1>7. /\ End(runs, x - 1) < first /\ first <= last /\ last <= L
  BY <1>3 DEF Covers
<1>8. first \in Nat /\ last \in Nat /\ End(runs, x - 1) \in Nat
  <2>1. runs \in Seq(RunsOf) /\ N \in Nat
    BY <1>3 DEF Covers
  <2>2. runs[x] \in RunsOf
    BY <2>1, ElementOfSeq
  <2>3. x # 1 => x - 1 \in 1..N
    BY <2>1
  <2>4. x # 1 => runs[x - 1] \in RunsOf
    BY <2>1, <2>3, ElementOfSeq
  <2>5. x # 1 => runs[x - 1].last \in Nat
    BY <2>4 DEF RunsOf
  <2>6. x = 1 => x - 1 = 0
    OBVIOUS
  <2> QED BY <2>2, <2>5, <2>6 DEF End, RunsOf
<1> HIDE DEF first, last
<1>9. 1 <= first
  BY <1>7, <1>8
<1>10. PICK o \in Range(h.body) : LooksLikeHeader(o)
  BY <1>4
<1>11. PICK t \in 1..L : o = ops[t]
  <2> DEFINE body == SubSeq(ops, first, last)
             M == last - first + 1
  <2>1. \A i \in first..last : ops[i] \in Ops
    BY <1>1, <1>7, <1>8, <1>9, ElementOfSeq
  <2>2. /\ body \in Seq(Ops) /\ Len(body) = M
        /\ \A i \in 1..M : body[i] = ops[first + i - 1]
    BY <1>7, <1>8, <2>1, SubSeqProperties
  <2> HIDE DEF body
  <2>3. PICK i \in 1..M : o = body[i]
    <3>1. DOMAIN body = 1..M
      BY <2>2
    <3>2. body = h.body
      BY <1>6 DEF body
    <3> QED BY <3>1, <3>2 DEF Range
  <2>4. first + i - 1 \in 1..L
    BY <1>1, <1>7, <1>8, <1>9
  <2> QED BY <2>2, <2>3, <2>4
<1>12. /\ O(t - 1) \in 0..Len(a) /\ P(t - 1) \in 0..Len(b)
       /\ O(t) \in 0..Len(a) /\ P(t) \in 0..Len(b)
       /\ o.mark \in OldMarks => O(t) = O(t - 1) + 1 /\ o.line = a[O(t)]
       /\ o.mark \in NewMarks => P(t) = P(t - 1) + 1 /\ o.line = b[P(t)]
  BY <1>11, ScriptLine
<1>13. LooksLikeOne(o.line) /\ o.mark \in {"-", "+"}
  BY <1>10 DEF LooksLikeHeader, LooksLikeOne
<1>14. o.line \in Range(a) \cup Range(b)
  <2> HIDE DEF O, P
  <2>1. CASE o.mark = "-"
    <3>1. o.mark \in OldMarks
      BY <2>1 DEF OldMarks
    <3>2. O(t) = O(t - 1) + 1 /\ o.line = a[O(t)]
      BY <1>12, <3>1
    <3>3. O(t) = O(t - 1) + 1 /\ O(t - 1) \in 0..Len(a) /\ O(t) \in 0..Len(a)
      BY <1>12, <3>2
    <3>4. O(t) \in 1..Len(a)
      BY <1>1, <3>3
    <3>5. DOMAIN a = 1..Len(a)
      OBVIOUS
    <3> QED BY <3>2, <3>4, <3>5 DEF Range
  <2>2. CASE o.mark = "+"
    <3>1. o.mark \in NewMarks
      BY <2>2 DEF NewMarks
    <3>2. P(t) = P(t - 1) + 1 /\ o.line = b[P(t)]
      BY <1>12, <3>1
    <3>3. P(t) = P(t - 1) + 1 /\ P(t - 1) \in 0..Len(b) /\ P(t) \in 0..Len(b)
      BY <1>12, <3>2
    <3>4. P(t) \in 1..Len(b)
      BY <1>1, <3>3
    <3>5. DOMAIN b = 1..Len(b)
      OBVIOUS
    <3> QED BY <3>2, <3>4, <3>5 DEF Range
  <2> QED BY <1>13, <2>1, <2>2
<1> QED BY <1>13, <1>14

(* Every diff of two texts has a hunk, applies to the lines of the old one  *)
(* and leads to those of the new one.                                      *)
LEMMA DiffFacts ==
  ASSUME NEW old \in Text, NEW new \in Text, NEW hunks \in Diffs(old, new)
  PROVE  /\ Applied(old, hunks).ok = OneFile(hunks)
         /\ Applied(old, hunks).content = Joined(Lines(new), old)
         /\ ~OneFile(hunks) =>
              \E line \in Range(Lines(old)) \cup Range(Lines(new)) : LooksLikeOne(line)
<1> DEFINE a == Lines(old)
           b == Lines(new)
<1>1. a \in Seq(Text) /\ b \in Seq(Text)
  BY LinesType
<1>2. PICK m \in Alignments(a, b) : hunks = Hunks(Script(a, b, m)) /\ hunks # <<>>
  BY DEF Diffs
<1> DEFINE ops == Script(a, b, m)
           last == ApplyHunks(a, hunks)
           rest == SubSeq(a, last.cursor + 1, Len(a))
<1>3. Relates(ops, a, b, Len(a), Len(b))
  BY <1>1, ScriptRelates
<1>4. Applied(old, hunks) =
        [ok |-> last.ok /\ OneFile(hunks) /\ hunks # <<>>,
         changed |-> last.changed, content |-> Joined(last.output \o rest, old)]
  BY DEF Applied
<1> HIDE DEF a, b, ops
<1>5. last.ok = TRUE /\ last.output \o rest = b
  <2>1. /\ ApplyHunks(a, Hunks(ops)).ok = TRUE
        /\ ApplyHunks(a, Hunks(ops)).output
             \o SubSeq(a, ApplyHunks(a, Hunks(ops)).cursor + 1, Len(a)) = b
    BY <1>1, <1>3, HunksApply
  <2>2. hunks = Hunks(ops)
    BY <1>2 DEF ops
  <2> QED BY <2>1, <2>2
<1>6. ~OneFile(hunks) => \E line \in Range(a) \cup Range(b) : LooksLikeOne(line)
  <2>1. hunks = Hunks(ops)
    BY <1>2 DEF ops
  <2> QED BY <1>1, <1>3, <2>1, HeaderLine
<1> HIDE DEF last, rest
<1>7. Applied(old, hunks).ok = OneFile(hunks)
  <2>1. OneFile(hunks) \in BOOLEAN
    BY DEF OneFile
  <2> QED BY <1>2, <1>4, <1>5, <2>1
<1>8. Applied(old, hunks).content = Joined(b, old)
  BY <1>4, <1>5
<1> QED BY <1>6, <1>7, <1>8 DEF a, b

-----------------------------------------------------------------------------
(* The workers.                                                            *)

(* What was stored is the diff of applicable edits to the stored source.    *)
StoredWell ==
  proposal.status = "stored" =>
    /\ proposal.edits \in Edits /\ Applicable(source, proposal.edits)
    /\ proposal.wanted = Replaced(source, proposal.edits)
    /\ proposal.hunks \in Diffs(source, proposal.wanted)
    /\ OneFile(proposal.hunks)

(* What was refused for a header had applicable edits and such a diff.      *)
RefusedWell ==
  proposal.status = "refused" /\ proposal.why = "header" =>
    /\ proposal.edits \in Edits /\ Applicable(source, proposal.edits)
    /\ \E hunks \in Diffs(source, Replaced(source, proposal.edits)) :
         ~OneFile(hunks)

(* A verdict is about the stored proposal, which no longer changes.         *)
JudgedWell ==
  verdict # Nothing =>
    /\ pc = "done" /\ proposal.status = "stored"
    /\ verdict.applied = Applied(source, proposal.hunks).ok
    /\ verdict.result = Applied(source, proposal.hunks).content
    /\ verdict.status = "valid" => Current = source

Consistent ==
  /\ source \in Text /\ disk \in Contents
  /\ pc \in {"load", "generate"} => proposal = Nothing
  /\ pc = "validate" => proposal.status = "stored"
  /\ pc # "done" => verdict = Nothing
  /\ StoredWell /\ RefusedWell /\ JudgedWell

LEMMA ContentsAreTexts ==
  ASSUME NEW text \in Contents
  PROVE  text \in Text /\ Universal(text) \in Text
<1>1. text \in Text
  BY TextsAssumption DEF Text
<1> QED BY <1>1, UniversalText

LEMMA InitConsistent == Init => Consistent
<1> SUFFICES ASSUME Init
             PROVE  Consistent
  OBVIOUS
<1>1. <<>> \in Text
  BY DEF Text
<1>2. Nothing.status = "none"
  BY DEF Nothing
<1> QED BY <1>1, <1>2 DEF Init, Consistent, StoredWell, RefusedWell, JudgedWell

LEMMA NextConsistent == Consistent /\ [Next]_vars => Consistent'
<1> SUFFICES ASSUME Consistent, [Next]_vars
             PROVE  Consistent'
  OBVIOUS
<1>0. Nothing.status = "none"
  BY DEF Nothing
<1>1. CASE Edit
  <2>1. disk' \in Contents
    BY <1>1 DEF Edit
  <2>2. /\ UNCHANGED <<pinned, source, proposal, verdict, pc>>
        /\ pc # "done"
    BY <1>1 DEF Edit
  <2>3. verdict' = Nothing
    BY <2>2 DEF Consistent
  <2> QED BY <2>1, <2>2, <2>3
      DEF Consistent, StoredWell, RefusedWell, JudgedWell
<1>2. CASE Load
  <2>1. source' = IF pinned THEN disk ELSE Universal(disk)
    BY <1>2 DEF Load
  <2>2. pc = "load" /\ pc' = "generate" /\ UNCHANGED <<disk, proposal, verdict>>
    BY <1>2 DEF Load
  <2>3. source' \in Text
    BY <2>1, ContentsAreTexts DEF Consistent
  <2>4. proposal' = Nothing /\ verdict' = Nothing /\ disk' \in Contents
    BY <2>2 DEF Consistent
  <2> QED BY <1>0, <2>2, <2>3, <2>4
      DEF Consistent, StoredWell, RefusedWell, JudgedWell
<1>3. CASE Generate
  <2>1. pc = "generate" /\ UNCHANGED <<pinned, disk, source, verdict>>
    BY <1>3 DEF Generate
  <2>2. verdict' = Nothing /\ source' \in Text /\ disk' \in Contents
    BY <2>1 DEF Consistent
  <2>3. PICK edits \in Edits :
          IF ~Applicable(source, edits) THEN Refuse(edits, "edits")
          ELSE LET wanted == Replaced(source, edits) IN
            \/ Refuse(edits, "citations")
            \/ Diffs(source, wanted) = {} /\ Refuse(edits, "lines")
            \/ \E hunks \in Diffs(source, wanted) :
                 IF ~OneFile(hunks) THEN Refuse(edits, "header")
                 ELSE /\ proposal' = [status |-> "stored", edits |-> edits,
                                      wanted |-> wanted, hunks |-> hunks]
                      /\ pc' = "validate"
    BY <1>3 DEF Generate
  <2> DEFINE wanted == Replaced(source, edits)
  <2>4. ASSUME NEW why \in {"edits", "citations", "lines"}, Refuse(edits, why)
        PROVE  Consistent'
    <3>1. proposal' = [status |-> "refused", edits |-> edits, why |-> why]
          /\ pc' = "done"
      BY <2>4 DEF Refuse
    <3>2. proposal'.status = "refused" /\ proposal'.why # "header"
      BY <3>1
    <3> QED BY <2>2, <3>1, <3>2 DEF Consistent, StoredWell, RefusedWell, JudgedWell
  <2>5. CASE Applicable(source, edits) /\ \E hunks \in Diffs(source, wanted) :
                                             ~OneFile(hunks) /\ Refuse(edits, "header")
    <3>1. proposal' = [status |-> "refused", edits |-> edits, why |-> "header"]
          /\ pc' = "done"
      BY <2>5 DEF Refuse
    <3>2. proposal'.status = "refused" /\ proposal'.edits = edits
      BY <3>1
    <3>3. RefusedWell'
      BY <2>1, <2>5, <3>2 DEF RefusedWell
    <3> QED BY <2>2, <3>1, <3>2, <3>3 DEF Consistent, StoredWell, JudgedWell
  <2>6. ASSUME Applicable(source, edits),
               NEW hunks \in Diffs(source, wanted), OneFile(hunks),
               proposal' = [status |-> "stored", edits |-> edits,
                            wanted |-> wanted, hunks |-> hunks],
               pc' = "validate"
        PROVE  Consistent'
    <3> HIDE DEF wanted
    <3>1. /\ proposal'.status = "stored" /\ proposal'.edits = edits
          /\ proposal'.wanted = wanted /\ proposal'.hunks = hunks
      BY <2>6
    <3>2. StoredWell'
      BY <2>1, <2>6, <3>1 DEF StoredWell, wanted
    <3> QED BY <2>2, <2>6, <3>1, <3>2 DEF Consistent, RefusedWell, JudgedWell
  <2> QED BY <2>3, <2>4, <2>5, <2>6
<1>4. CASE Validate
  <2> DEFINE applied == Applied(source, proposal.hunks)
             small == applied.changed <= MaximumChangedLines
  <2>1. pc = "validate" /\ pc' = "done" /\ UNCHANGED <<pinned, disk, source, proposal>>
    BY <1>4 DEF Validate
  <2>2. PICK parses \in BOOLEAN :
          verdict' =
            [status |-> IF Current = source /\ applied.ok /\ small /\ parses
                          THEN "valid" ELSE "invalid",
             current |-> Current = source, applied |-> applied.ok,
             small |-> small, parses |-> parses,
             result |-> applied.content]
    BY <1>4 DEF Validate
  <2> HIDE DEF applied, small
  <2>3. /\ verdict'.applied = applied.ok /\ verdict'.result = applied.content
        /\ verdict'.status = IF Current = source /\ applied.ok /\ small /\ parses
                               THEN "valid" ELSE "invalid"
    BY <2>2
  <2>4. verdict'.status = "valid" => Current = source
    BY <2>3
  <2>5. Current' = Current
    BY <2>1 DEF Current
  <2>6. JudgedWell'
    BY <2>1, <2>3, <2>4, <2>5 DEF Consistent, JudgedWell, applied
  <2> QED BY <2>1, <2>6 DEF Consistent, StoredWell, RefusedWell
<1>5. CASE UNCHANGED vars
  BY <1>5 DEF vars, Consistent, StoredWell, RefusedWell, JudgedWell, Current
<1> QED BY <1>1, <1>2, <1>3, <1>4, <1>5 DEF Next, Done

(* The invariant that the properties follow from: what was stored is the    *)
(* diff of edits that apply, to the source it is stored with, and a verdict *)
(* is about that proposal and that source (Generate, Validate).            *)
THEOREM ProposalsConsistent == Spec => []Consistent
<1>1. Init => Consistent
  BY InitConsistent
<1>2. Consistent /\ [Next]_vars => Consistent'
  BY NextConsistent
<1> QED BY <1>1, <1>2, PTL DEF Spec

(* Whatever the text and the edits, as many as there may be: replacing from *)
(* the last place to the first, as apply_exact_replacements does, leaves    *)
(* every symbol outside of the edits' places as it was, and in order.      *)
THEOREM EditsExact == Spec => []EditsAreExact
<1>1. Consistent => EditsAreExact
  BY ReplacedIsIntended DEF Consistent, StoredWell, EditsAreExact
<1> QED BY <1>1, ProposalsConsistent, PTL

(* A patch found valid turns the source that the validator loaded into what *)
(* the edits ask for, whichever alignment difflib chose and however many    *)
(* hunks it made: the same lines whatever ends them (splitlines), and the   *)
(* same text if all of its lines end with \n, as the join makes them do     *)
(* (apply_unified_diff).                                                   *)
THEOREM ValidIsIntended == Spec => []ValidPatchIsIntended
<1>1. Consistent => ValidPatchIsIntended
  <2> SUFFICES ASSUME Consistent, verdict.status = "valid"
               PROVE  /\ Current = source
                      /\ KeepsEnd(proposal.wanted, source)
                         => /\ Lines(verdict.result) = Lines(proposal.wanted)
                            /\ UnixText(proposal.wanted)
                                 => verdict.result = proposal.wanted
    BY DEF ValidPatchIsIntended
  <2>1. verdict # Nothing
    BY DEF Nothing
  <2>2. /\ Current = source /\ proposal.status = "stored"
        /\ verdict.result = Applied(source, proposal.hunks).content
    BY <2>1 DEF Consistent, JudgedWell
  <2> DEFINE wanted == proposal.wanted
  <2>3. /\ source \in Text /\ proposal.edits \in Edits
        /\ Applicable(source, proposal.edits)
        /\ wanted = Replaced(source, proposal.edits)
        /\ proposal.hunks \in Diffs(source, wanted)
    BY <2>2 DEF Consistent, StoredWell
  <2>4. wanted \in Text
    BY <2>3, ReplacedIsIntended
  <2>5. verdict.result = Joined(Lines(wanted), source)
    BY <2>2, <2>3, <2>4, DiffFacts
  <2> HIDE DEF wanted
  <2>6. ASSUME KeepsEnd(wanted, source)
        PROVE  /\ Lines(verdict.result) = Lines(wanted)
               /\ UnixText(wanted) => verdict.result = wanted
    BY <2>4, <2>5, <2>6, JoinedLines
  <2> QED BY <2>2, <2>6 DEF wanted
<1> QED BY <1>1, ProposalsConsistent, PTL

(* No patch is lost between generation and the pull request: what passed    *)
(* the check of its diff applies to the stored source, and a diff that does *)
(* not pass it has a line that starts like a file header.                  *)
THEOREM EditsSurviveTheDiff == Spec => []EditsSurvive
<1>1. Consistent => EditsSurvive
  <2> SUFFICES ASSUME Consistent
               PROVE  EditsSurvive
    OBVIOUS
  <2>1. ASSUME proposal.status = "refused", proposal.why = "header"
        PROVE  \E line \in Range(Lines(source))
                             \cup Range(Lines(Replaced(source, proposal.edits))) :
                 line # <<>> /\ Head(line) \in {"-- ", "++ "}
    <3> DEFINE wanted == Replaced(source, proposal.edits)
    <3>1. /\ source \in Text /\ proposal.edits \in Edits
          /\ Applicable(source, proposal.edits)
          /\ \E hunks \in Diffs(source, wanted) : ~OneFile(hunks)
      BY <2>1 DEF Consistent, RefusedWell
    <3>2. wanted \in Text
      BY <3>1, ReplacedIsIntended
    <3>3. \E line \in Range(Lines(source)) \cup Range(Lines(wanted)) :
            LooksLikeOne(line)
      BY <3>1, <3>2, DiffFacts
    <3> QED BY <3>3 DEF LooksLikeOne
  <2>2. ASSUME verdict # Nothing
        PROVE  verdict.applied
    <3>1. /\ proposal.status = "stored"
          /\ verdict.applied = Applied(source, proposal.hunks).ok
      BY <2>2 DEF Consistent, JudgedWell
    <3>2. /\ source \in Text /\ proposal.edits \in Edits
          /\ Applicable(source, proposal.edits)
          /\ proposal.wanted = Replaced(source, proposal.edits)
          /\ proposal.hunks \in Diffs(source, proposal.wanted)
          /\ OneFile(proposal.hunks)
      BY <3>1 DEF Consistent, StoredWell
    <3>3. proposal.wanted \in Text
      BY <3>2, ReplacedIsIntended
    <3>4. Applied(source, proposal.hunks).ok = OneFile(proposal.hunks)
      BY <3>2, <3>3, DiffFacts
    <3> QED BY <3>1, <3>2, <3>4
  <2> QED BY <2>1, <2>2 DEF EditsSurvive
<1> QED BY <1>1, ProposalsConsistent, PTL

=============================================================================
