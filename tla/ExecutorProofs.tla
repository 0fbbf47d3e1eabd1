--------------------------- MODULE ExecutorProofs ---------------------------
(***************************************************************************)
(* Theorems about Executor.                                                *)
(***************************************************************************)
EXTENDS Executor, WellFoundedInduction, SequenceTheorems, TLAPS

-----------------------------------------------------------------------------
(* Induction over the runes of a text, for a set and not for a predicate.  *)

LEMMA Induction ==
  ASSUME NEW m \in Nat, NEW S, 0 \in S, \A i \in 1 .. m : i - 1 \in S => i \in S
  PROVE  \A i \in 0 .. m : i \in S
  <1> DEFINE T == {i \in 0 .. m : i \notin S}
  <1>1. SUFFICES ASSUME T # {} PROVE FALSE
    OBVIOUS
  <1>2. T \subseteq Nat
    OBVIOUS
  <1> DEFINE R == OpToRel(<, Nat)
  <1>3. IsWellFoundedOn(R, Nat)
    BY NatLessThanWellFounded
  <1>4. \A x, y \in Nat : x < y => <<x, y>> \in R
    BY DEF OpToRel
  <1> HIDE DEF R, T
  <1>5. PICK x \in T : \A y \in T : ~ (<<y, x>> \in R)
    BY <1>1, <1>2, <1>3, WFMin
  <1>6. x \in 1 .. m /\ x \notin S
    BY <1>5 DEF T
  <1>7. x - 1 \notin T
    <2>1. x - 1 \in Nat /\ x \in Nat /\ x - 1 < x
      BY <1>6
    <2>2. <<x - 1, x>> \in R
      BY <1>4, <2>1
    <2>3. QED
      BY <1>5, <2>2
  <1>8. QED
    BY <1>6, <1>7 DEF T

-----------------------------------------------------------------------------
(* The recursive functions are what their equations say.                   *)

Start == [mode |-> "code", pair |-> FALSE, stmt |-> <<>>, ended |-> <<>>]

\* g gives the readings of the first n runes.
ReadsTo(g, t, n) ==
  g = [j \in 0 .. n |-> IF j = 0 THEN Start ELSE ReadRune(t, g[j - 1], j)]

\* The reading of nothing, and of one rune more.
LEMMA ReadingDef ==
  ASSUME NEW t, Len(t) \in Nat
  PROVE  /\ Reading(t, 0) = Start
         /\ \A i \in 1 .. Len(t) : Reading(t, i) = ReadRune(t, Reading(t, i - 1), i)
  <1> DEFINE S == {n \in 0 .. Len(t) : \E g : ReadsTo(g, t, n)}
             after == CHOOSE g : ReadsTo(g, t, Len(t))
  <1>1. \A i \in 0 .. Len(t) : i \in S
    <2>1. 0 \in S
      <3>1. ReadsTo([j \in 0 .. 0 |-> Start], t, 0)
        BY DEF ReadsTo
      <3>2. QED
        BY <3>1
    <2>2. ASSUME NEW i \in 1 .. Len(t), i - 1 \in S PROVE i \in S
      <3>1. PICK g : ReadsTo(g, t, i - 1)
        BY <2>2
      <3> DEFINE h == [j \in 0 .. i |-> IF j = i THEN ReadRune(t, g[i - 1], i) ELSE g[j]]
      <3>2. \A j \in 0 .. i - 1 : g[j] = IF j = 0 THEN Start ELSE ReadRune(t, g[j - 1], j)
        BY <3>1 DEF ReadsTo
      <3>3. \A j \in 0 .. i : h[j] = IF j = 0 THEN Start ELSE ReadRune(t, h[j - 1], j)
        BY <3>2
      <3>4. ReadsTo(h, t, i)
        BY <3>3 DEF ReadsTo
      <3> HIDE DEF h
      <3>5. QED
        BY <3>4
    <2> HIDE DEF S
    <2>3. QED
      BY <2>1, <2>2, Induction
  <1>2. Len(t) \in 0 .. Len(t)
    OBVIOUS
  <1>3. \E g : ReadsTo(g, t, Len(t))
    BY <1>1, <1>2
  <1>4. ReadsTo(after, t, Len(t))
    BY <1>3
  <1>5. \A i : Reading(t, i) = after[i]
    BY DEF Reading, Start, ReadsTo
  <1> HIDE DEF after
  <1>6. \A i \in 0 .. Len(t) : after[i] = IF i = 0 THEN Start
                                           ELSE ReadRune(t, after[i - 1], i)
    BY <1>4 DEF ReadsTo
  <1>7. QED
    BY <1>5, <1>6

-----------------------------------------------------------------------------
(* One rune, by the lexical mode it is read in.                            *)

Mode     == {"code", "single", "double", "back", "dash", "hash", "block"}
LexState == [mode : Mode, pair : BOOLEAN, stmt : Seq(Rune), ended : Seq(Seq(Rune))]

\* The statements of s with the one that r ends.
Ended(s) == IF s.stmt = <<>> THEN s.ended ELSE Append(s.ended, s.stmt)

\* The fields of a reading taken one rune further.
LEMMA ReadShape ==
  ASSUME NEW t, NEW i, NEW s \in LexState
  PROVE  LET r == ReadRune(t, s, i) IN
         r = [mode |-> r.mode, pair |-> r.pair, stmt |-> r.stmt, ended |-> r.ended]
  BY DEF ReadRune, LexState

LEMMA ReadSecond ==
  ASSUME NEW t, NEW i, NEW s \in LexState, s.pair
  PROVE  /\ ReadRune(t, s, i).mode = s.mode
         /\ ReadRune(t, s, i).pair = FALSE
         /\ s.mode \in {"single", "double"} => ReadRune(t, s, i).stmt = Append(s.stmt, t[i])
         /\ s.mode \notin {"single", "double"} => ReadRune(t, s, i).stmt = s.stmt
         /\ ReadRune(t, s, i).ended = s.ended
  BY DEF ReadRune, LexState

LEMMA ReadSemicolon ==
  ASSUME NEW t, NEW i, NEW s \in LexState, ~s.pair, s.mode = "code", t[i] = ";"
  PROVE  /\ ReadRune(t, s, i).mode = "code"
         /\ ReadRune(t, s, i).pair = FALSE
         /\ ReadRune(t, s, i).stmt = <<>>
         /\ ReadRune(t, s, i).ended = Ended(s)
  BY DEF ReadRune, LexState, Opened, Ended

LEMMA ReadBlank ==
  ASSUME NEW t, NEW i, NEW s \in LexState, ~s.pair, s.mode = "code", t[i] \in Blank
  PROVE  ReadRune(t, s, i) = s
  BY DEF ReadRune, LexState, Opened, Blank, Comment

\* The mode that begins at rune i of plain code.
OpenedAt(t, i) == Opened(t[i], RuneAt(t, i + 1), RuneAt(t, i + 2))

LEMMA ReadCode ==
  ASSUME NEW t, NEW i, NEW s \in LexState, ~s.pair, s.mode = "code",
         t[i] # ";", t[i] \notin Blank
  PROVE  /\ ReadRune(t, s, i).mode = OpenedAt(t, i)
         /\ ReadRune(t, s, i).pair <=> OpenedAt(t, i) = "block"
         /\ OpenedAt(t, i) \in Comment => ReadRune(t, s, i).stmt = s.stmt
         /\ OpenedAt(t, i) \notin Comment => ReadRune(t, s, i).stmt = Append(s.stmt, t[i])
         /\ ReadRune(t, s, i).ended = s.ended
  BY DEF ReadRune, LexState, Comment, OpenedAt

LEMMA ReadLiteral ==
  ASSUME NEW t, NEW i, NEW s \in LexState, ~s.pair, s.mode \in {"single", "double", "back"}
  PROVE  /\ ReadRune(t, s, i).pair <=> s.mode # "back" /\ t[i] = "bs"
         /\ t[i] = Closing[s.mode] => ReadRune(t, s, i).mode = "code"
         /\ t[i] # Closing[s.mode] => ReadRune(t, s, i).mode = s.mode
         /\ ReadRune(t, s, i).stmt = Append(s.stmt, t[i])
         /\ ReadRune(t, s, i).ended = s.ended
  <1>1. \A m : m = "code" \/ m = s.mode => {s.mode, m} \cap Comment = {}
    BY DEF Comment
  <1>2. Closing[s.mode] \in {"sq", "dq", "tick"}
    <2>1. Closing["single"] = "sq" /\ Closing["double"] = "dq" /\ Closing["back"] = "tick"
      BY DEF Closing
    <2>2. QED
      BY <2>1
  <1>3. QED
    BY <1>1, <1>2 DEF ReadRune, LexState

LEMMA ReadLineMode ==
  ASSUME NEW t, NEW i, NEW s \in LexState, ~s.pair, s.mode \in {"dash", "hash"}
  PROVE  /\ t[i] = "nl" => ReadRune(t, s, i).mode = "code"
         /\ t[i] # "nl" => ReadRune(t, s, i).mode = s.mode
  <1>1. Closing["dash"] = "nl" /\ Closing["hash"] = "nl"
    BY DEF Closing
  <1>2. QED
    BY <1>1 DEF ReadRune, LexState

LEMMA ReadLine ==
  ASSUME NEW t, NEW i, NEW s \in LexState, ~s.pair, s.mode \in {"dash", "hash"}
  PROVE  /\ ReadRune(t, s, i).pair = FALSE
         /\ ReadRune(t, s, i).stmt = s.stmt
         /\ ReadRune(t, s, i).ended = s.ended
  <1>1. \A m : {s.mode, m} \cap Comment # {}
    BY DEF Comment
  <1>2. QED
    BY <1>1 DEF ReadRune, LexState

LEMMA ReadBlock ==
  ASSUME NEW t, NEW i, NEW s \in LexState, ~s.pair, s.mode = "block"
  PROVE  /\ ReadRune(t, s, i).pair <=> t[i] = "*" /\ RuneAt(t, i + 1) = "/"
         /\ t[i] = "*" /\ RuneAt(t, i + 1) = "/" => ReadRune(t, s, i).mode = "code"
         /\ ~(t[i] = "*" /\ RuneAt(t, i + 1) = "/") => ReadRune(t, s, i).mode = "block"
         /\ ReadRune(t, s, i).stmt = s.stmt
         /\ ReadRune(t, s, i).ended = s.ended
  BY DEF ReadRune, LexState, Comment

LEMMA OpenedType == \A r, n, n2 : Opened(r, n, n2) \in Mode
  BY DEF Opened, Mode

\* How a rune may be read.
LEMMA ReadCases ==
  ASSUME NEW t, NEW i, NEW s \in LexState
  PROVE  \/ s.pair
         \/ ~s.pair /\ s.mode = "code" /\ t[i] = ";"
         \/ ~s.pair /\ s.mode = "code" /\ t[i] \in Blank
         \/ ~s.pair /\ s.mode = "code" /\ t[i] # ";" /\ t[i] \notin Blank
         \/ ~s.pair /\ s.mode \in {"single", "double", "back"}
         \/ ~s.pair /\ s.mode \in {"dash", "hash"}
         \/ ~s.pair /\ s.mode = "block"
  BY DEF LexState, Mode

LEMMA ReadRuneType ==
  ASSUME NEW t \in Seq(Rune), NEW i \in 1 .. Len(t), NEW s \in LexState
  PROVE  ReadRune(t, s, i) \in LexState
  <1> DEFINE r == ReadRune(t, s, i)
  <1>1. t[i] \in Rune /\ Append(s.stmt, t[i]) \in Seq(Rune)
    BY DEF LexState
  <1>2. Ended(s) \in Seq(Seq(Rune)) /\ <<>> \in Seq(Rune)
    BY DEF LexState, Ended
  <1>3. r = [mode |-> r.mode, pair |-> r.pair, stmt |-> r.stmt, ended |-> r.ended]
    BY ReadShape
  <1>4. s.mode \in Mode /\ s.pair \in BOOLEAN /\ s.stmt \in Seq(Rune)
        /\ s.ended \in Seq(Seq(Rune))
    BY DEF LexState
  <1>5. "code" \in Mode /\ "block" \in Mode
    BY DEF Mode
  <1>6. r.pair \in BOOLEAN
    BY DEF ReadRune, LexState
  <1>7. r.mode \in Mode
    <2>1. CASE ~s.pair /\ s.mode = "code"
      <3>1. Opened(t[i], RuneAt(t, i + 1), RuneAt(t, i + 2)) \in Mode
        BY OpenedType
      <3>2. r.mode = Opened(t[i], RuneAt(t, i + 1), RuneAt(t, i + 2))
        BY <2>1 DEF ReadRune, LexState
      <3>3. QED
        BY <3>1, <3>2
    <2>2. CASE s.pair
      BY <1>4, <2>2, ReadSecond
    <2>3. CASE ~s.pair /\ s.mode # "code"
      <3>1. r.mode \in {"code", "block", s.mode}
        BY <2>3 DEF ReadRune, LexState
      <3>2. QED
        BY <1>4, <1>5, <3>1
    <2>4. QED
      BY <2>1, <2>2, <2>3
  <1>8. r.stmt \in Seq(Rune)
    <2>1. r.stmt \in {s.stmt, Append(s.stmt, t[i]), <<>>}
      BY DEF ReadRune
    <2>2. QED
      BY <1>1, <1>2, <1>4, <2>1
  <1>9. r.ended \in Seq(Seq(Rune))
    <2>1. r.ended \in {s.ended, Ended(s)}
      BY DEF ReadRune, Ended, LexState
    <2>2. QED
      BY <1>2, <1>4, <2>1
  <1>10. \A m \in Mode, p \in BOOLEAN, w \in Seq(Rune), e \in Seq(Seq(Rune)) :
          [mode |-> m, pair |-> p, stmt |-> w, ended |-> e] \in LexState
    BY DEF LexState
  <1> HIDE DEF r
  <1>11. r \in LexState
    BY <1>3, <1>6, <1>7, <1>8, <1>9, <1>10
  <1>12. QED
    BY <1>11 DEF r

LEMMA ReadingType ==
  ASSUME NEW t \in Seq(Rune)
  PROVE  \A i \in 0 .. Len(t) : Reading(t, i) \in LexState
  <1> DEFINE S == {i \in 0 .. Len(t) : Reading(t, i) \in LexState}
  <1>1. Len(t) \in Nat
    OBVIOUS
  <1>2. 0 \in S
    <2>1. Start \in LexState
      BY DEF Start, LexState, Mode
    <2>2. QED
      BY <1>1, <2>1, ReadingDef
  <1>3. ASSUME NEW i \in 1 .. Len(t), i - 1 \in S PROVE i \in S
    <2>1. ReadRune(t, Reading(t, i - 1), i) \in LexState
      BY <1>3, ReadRuneType
    <2>2. QED
      BY <1>1, <2>1, ReadingDef
  <1>4. \A i \in 0 .. Len(t) : i \in S
    <2> HIDE DEF S
    <2>1. QED
      BY <1>1, <1>2, <1>3, Induction
  <1>5. QED
    BY <1>4

LEMMA OpenedBlock ==
  \A r, n, n2 : Opened(r, n, n2) = "block" => r = "/" /\ n = "*"
  BY DEF Opened

\* A rune that was read together with the one before belongs to an escape, or is
\* the second of a comment's two.
LEMMA PairedRune ==
  ASSUME NEW t \in Seq(Rune), NEW i \in 0 .. Len(t), Reading(t, i).pair
  PROVE  \/ Reading(t, i).mode \in {"single", "double"}
         \/ Reading(t, i).mode = "block" /\ RuneAt(t, i + 1) = "*"
         \/ Reading(t, i).mode = "code" /\ RuneAt(t, i + 1) = "/"
  <1>1. i # 0
    BY ReadingDef DEF Start
  <1>2. i \in 1 .. Len(t) /\ i - 1 \in 0 .. Len(t)
    BY <1>1
  <1> DEFINE s == Reading(t, i - 1)
  <1>3. s \in LexState /\ Reading(t, i) = ReadRune(t, s, i)
    BY <1>2, ReadingType, ReadingDef
  <1>4. Reading(t, i).pair
    OBVIOUS
  <1> HIDE DEF s
  <1>5. CASE s.pair
    BY <1>3, <1>4, <1>5, ReadSecond
  <1>6. CASE ~s.pair /\ s.mode = "code" /\ t[i] = ";"
    BY <1>3, <1>4, <1>6, ReadSemicolon
  <1>7. CASE ~s.pair /\ s.mode = "code" /\ t[i] \in Blank
    BY <1>3, <1>4, <1>7, ReadBlank
  <1>8. CASE ~s.pair /\ s.mode = "code" /\ t[i] # ";" /\ t[i] \notin Blank
    <2>1. Reading(t, i).mode = OpenedAt(t, i) /\ OpenedAt(t, i) = "block"
      BY <1>3, <1>4, <1>8, ReadCode
    <2>2. QED
      BY <2>1, OpenedBlock DEF OpenedAt
  <1>9. CASE ~s.pair /\ s.mode \in {"single", "double", "back"}
    <2>1. ReadRune(t, s, i).pair <=> s.mode # "back" /\ t[i] = "bs"
      BY <1>3, <1>9, ReadLiteral
    <2>2. s.mode \in {"single", "double"} /\ t[i] = "bs"
      BY <1>3, <1>4, <1>9, <2>1
    <2>3. t[i] # Closing[s.mode]
      <3>1. Closing["single"] = "sq" /\ Closing["double"] = "dq"
        BY DEF Closing
      <3>2. QED
        BY <2>2, <3>1
    <2>4. ReadRune(t, s, i).mode = s.mode
      BY <1>3, <1>9, <2>3, ReadLiteral
    <2>5. QED
      BY <1>3, <2>2, <2>4
  <1>10. CASE ~s.pair /\ s.mode \in {"dash", "hash"}
    <2>1. ~ReadRune(t, s, i).pair
      BY <1>3, <1>10, ReadLine
    <2>2. QED
      BY <1>3, <1>4, <2>1
  <1>11. CASE ~s.pair /\ s.mode = "block"
    BY <1>3, <1>4, <1>11, ReadBlock
  <1>12. QED
    BY <1>3, <1>5, <1>6, <1>7, <1>8, <1>9, <1>10, <1>11, ReadCases

-----------------------------------------------------------------------------
(* Prefixes and concatenations.                                            *)

\* s is a prefix of t, element by element.
Begins(s, t) == Len(s) <= Len(t) /\ \A k \in 1 .. Len(s) : s[k] = t[k]

LEMMA BeginsIsPrefix ==
  ASSUME NEW S, NEW s \in Seq(S), NEW t \in Seq(S), Begins(s, t)
  PROVE  IsPrefix(s, t)
  <1>1. Len(s) <= Len(t) /\ Len(s) \in Nat /\ Len(t) \in Nat
    BY DEF Begins
  <1>2. SubSeq(s, 1, Len(s)) = s
    BY SubSeqFull
  <1>3. SubSeq(t, 1, Len(s)) \in Seq(S) /\ Len(SubSeq(t, 1, Len(s))) = Len(s)
    BY <1>1
  <1>4. \A k \in 1 .. Len(s) : SubSeq(t, 1, Len(s))[k] = s[k]
    BY <1>1 DEF Begins
  <1>5. SubSeq(t, 1, Len(s)) = s
    BY <1>3, <1>4, SeqEqual
  <1>6. QED
    BY <1>1, <1>2, <1>5 DEF IsPrefix

LEMMA BeginsTransitive ==
  ASSUME NEW S, NEW s \in Seq(S), NEW t \in Seq(S), NEW u \in Seq(S),
         Begins(s, t), Begins(t, u)
  PROVE  Begins(s, u)
  BY DEF Begins

LEMMA BeginsEqual ==
  ASSUME NEW S, NEW s \in Seq(S), NEW t \in Seq(S), Begins(s, t), Len(s) = Len(t)
  PROVE  s = t
  BY SeqEqual DEF Begins

LEMMA ConcatAppend ==
  ASSUME NEW S, NEW s \in Seq(S), NEW t \in Seq(S), NEW e \in S
  PROVE  s \o Append(t, e) = Append(s \o t, e)
  <1>1. s \o t \in Seq(S) /\ <<e>> \in Seq(S)
    OBVIOUS
  <1>2. Append(t, e) = t \o <<e>> /\ Append(s \o t, e) = (s \o t) \o <<e>>
    BY <1>1, AppendIsConcat
  <1>3. QED
    BY <1>1, <1>2, ConcatAssociative

\* The statements that have ended stay as they are.
LEMMA EndedStep ==
  ASSUME NEW t \in Seq(Rune), NEW i \in 1 .. Len(t)
  PROVE  Begins(Reading(t, i - 1).ended, Reading(t, i).ended)
  <1> DEFINE s == Reading(t, i - 1)
  <1>1. s \in LexState /\ Reading(t, i) = ReadRune(t, s, i)
    BY ReadingType, ReadingDef
  <1>2. s.ended \in Seq(Seq(Rune)) /\ s.stmt \in Seq(Rune)
    BY <1>1 DEF LexState
  <1> HIDE DEF s
  <1>3. Begins(s.ended, s.ended) /\ Begins(s.ended, Ended(s))
    BY <1>2 DEF Begins, Ended
  <1>4. Reading(t, i).ended \in {s.ended, Ended(s)}
    <2>1. ReadRune(t, s, i).ended \in {s.ended, Ended(s)}
      BY <1>1 DEF ReadRune, Ended, LexState
    <2>2. QED
      BY <1>1, <2>1
  <1>5. QED
    BY <1>3, <1>4 DEF s

LEMMA EndedGrows ==
  ASSUME NEW t \in Seq(Rune), NEW i \in 0 .. Len(t)
  PROVE  Begins(Reading(t, i).ended, Reading(t, Len(t)).ended)
  <1> DEFINE m == Len(t) - i
             S == {k \in 0 .. m : Begins(Reading(t, i).ended, Reading(t, i + k).ended)}
  <1>1. m \in Nat /\ \A k \in 0 .. m : i + k \in 0 .. Len(t)
    OBVIOUS
  <1>2. \A k \in 0 .. m : Reading(t, i + k).ended \in Seq(Seq(Rune))
    BY <1>1, ReadingType DEF LexState
  <1>3. 0 \in S
    <2>1. Reading(t, i).ended \in Seq(Seq(Rune)) /\ i + 0 = i
      BY ReadingType DEF LexState
    <2>2. QED
      BY <2>1 DEF Begins
  <1>4. ASSUME NEW k \in 1 .. m, k - 1 \in S PROVE k \in S
    <2>1. i + k \in 1 .. Len(t) /\ (i + k) - 1 = i + (k - 1) /\ k - 1 \in 0 .. m
      BY <1>1
    <2>2. Begins(Reading(t, i + (k - 1)).ended, Reading(t, i + k).ended)
      BY <2>1, EndedStep
    <2>3. Begins(Reading(t, i).ended, Reading(t, i + (k - 1)).ended)
      BY <1>4
    <2>4. Reading(t, i).ended \in Seq(Seq(Rune))
      BY ReadingType DEF LexState
    <2>5. Reading(t, i + (k - 1)).ended \in Seq(Seq(Rune))
      BY <1>2, <2>1
    <2>8. Reading(t, i + k).ended \in Seq(Seq(Rune))
      <3>1. k \in 0 .. m
        OBVIOUS
      <3> HIDE DEF m
      <3>2. QED
        BY <1>2, <3>1
    <2>6. Begins(Reading(t, i).ended, Reading(t, i + k).ended)
      BY <2>2, <2>3, <2>4, <2>5, <2>8, BeginsTransitive
    <2>7. QED
      BY <2>6
  <1>5. \A k \in 0 .. m : k \in S
    <2> HIDE DEF S, m
    <2>1. QED
      BY <1>1, <1>3, <1>4, Induction
  <1>6. m \in S /\ i + m = Len(t)
    BY <1>1, <1>5
  <1>7. QED
    BY <1>6

-----------------------------------------------------------------------------
(* A piece is read like the runes it is cut from.                          *)

\* p is the reading s of a longer text without the statements E that ended before.
Shifted(E, s, p) ==
  s.mode = p.mode /\ s.pair = p.pair /\ s.stmt = p.stmt /\ s.ended = E \o p.ended

\* What decides how a rune is read is the same at i of t and at k of u.
Alike(t, i, u, k) ==
  /\ t[i] = u[k]
  /\ OpenedAt(t, i) = OpenedAt(u, k)
  /\ t[i] = "*" => (RuneAt(t, i + 1) = "/" <=> RuneAt(u, k + 1) = "/")

LEMMA ShiftRune ==
  ASSUME NEW t, NEW i, NEW u, NEW k, Alike(t, i, u, k),
         NEW s \in LexState, NEW p \in LexState, NEW E \in Seq(Seq(Rune)), Shifted(E, s, p)
  PROVE  Shifted(E, ReadRune(t, s, i), ReadRune(u, p, k))
  <1>1. /\ s.mode = p.mode /\ s.pair = p.pair /\ s.stmt = p.stmt
        /\ s.ended = E \o p.ended
    BY DEF Shifted
  <1>2. t[i] = u[k] /\ OpenedAt(t, i) = OpenedAt(u, k)
    BY DEF Alike
  <1>3. CASE s.pair
    <2>1. /\ ReadRune(t, s, i).mode = s.mode /\ ReadRune(t, s, i).pair = FALSE
          /\ s.mode \in {"single", "double"} => ReadRune(t, s, i).stmt = Append(s.stmt, t[i])
          /\ s.mode \notin {"single", "double"} => ReadRune(t, s, i).stmt = s.stmt
          /\ ReadRune(t, s, i).ended = s.ended
      BY <1>3, ReadSecond
    <2>2. /\ ReadRune(u, p, k).mode = p.mode /\ ReadRune(u, p, k).pair = FALSE
          /\ p.mode \in {"single", "double"} => ReadRune(u, p, k).stmt = Append(p.stmt, u[k])
          /\ p.mode \notin {"single", "double"} => ReadRune(u, p, k).stmt = p.stmt
          /\ ReadRune(u, p, k).ended = p.ended
      BY <1>1, <1>3, ReadSecond
    <2>3. QED
      BY <1>1, <1>2, <2>1, <2>2 DEF Shifted
  <1>4. CASE ~s.pair /\ s.mode = "code" /\ t[i] = ";"
    <2>1. /\ ReadRune(t, s, i).mode = "code" /\ ReadRune(t, s, i).pair = FALSE
          /\ ReadRune(t, s, i).stmt = <<>> /\ ReadRune(t, s, i).ended = Ended(s)
      BY <1>4, ReadSemicolon
    <2>2. /\ ReadRune(u, p, k).mode = "code" /\ ReadRune(u, p, k).pair = FALSE
          /\ ReadRune(u, p, k).stmt = <<>> /\ ReadRune(u, p, k).ended = Ended(p)
      BY <1>1, <1>2, <1>4, ReadSemicolon
    <2>3. Ended(s) = E \o Ended(p)
      <3>1. p.ended \in Seq(Seq(Rune)) /\ p.stmt \in Seq(Rune)
        BY DEF LexState
      <3>2. E \o Append(p.ended, p.stmt) = Append(E \o p.ended, p.stmt)
        BY <3>1, ConcatAppend
      <3>3. QED
        BY <1>1, <3>2 DEF Ended
    <2>4. QED
      BY <2>1, <2>2, <2>3 DEF Shifted
  <1>5. CASE ~s.pair /\ s.mode = "code" /\ t[i] \in Blank
    <2>1. ReadRune(t, s, i) = s /\ ReadRune(u, p, k) = p
      BY <1>1, <1>2, <1>5, ReadBlank
    <2>2. QED
      BY <2>1
  <1>6. CASE ~s.pair /\ s.mode = "code" /\ t[i] # ";" /\ t[i] \notin Blank
    <2>1. /\ ReadRune(t, s, i).mode = OpenedAt(t, i)
          /\ ReadRune(t, s, i).pair <=> OpenedAt(t, i) = "block"
          /\ OpenedAt(t, i) \in Comment => ReadRune(t, s, i).stmt = s.stmt
          /\ OpenedAt(t, i) \notin Comment => ReadRune(t, s, i).stmt = Append(s.stmt, t[i])
          /\ ReadRune(t, s, i).ended = s.ended
      BY <1>6, ReadCode
    <2>2. /\ ReadRune(u, p, k).mode = OpenedAt(u, k)
          /\ ReadRune(u, p, k).pair <=> OpenedAt(u, k) = "block"
          /\ OpenedAt(u, k) \in Comment => ReadRune(u, p, k).stmt = p.stmt
          /\ OpenedAt(u, k) \notin Comment => ReadRune(u, p, k).stmt = Append(p.stmt, u[k])
          /\ ReadRune(u, p, k).ended = p.ended
      <3>1. ~p.pair /\ p.mode = "code" /\ u[k] # ";" /\ u[k] \notin Blank
        BY <1>1, <1>2, <1>6
      <3>2. QED
        BY <3>1, ReadCode
    <2>3. ReadRune(t, s, i).pair = ReadRune(u, p, k).pair
      <3>1. ReadRune(t, s, i).pair \in BOOLEAN /\ ReadRune(u, p, k).pair \in BOOLEAN
        BY DEF ReadRune, LexState
      <3>2. ReadRune(t, s, i).pair <=> ReadRune(u, p, k).pair
        BY <1>2, <2>1, <2>2
      <3>3. QED
        BY <3>1, <3>2
    <2>4. QED
      BY <1>1, <1>2, <2>1, <2>2, <2>3 DEF Shifted
  <1>7. CASE ~s.pair /\ s.mode \in {"single", "double", "back"}
    <2>1. /\ ReadRune(t, s, i).pair <=> s.mode # "back" /\ t[i] = "bs"
          /\ t[i] = Closing[s.mode] => ReadRune(t, s, i).mode = "code"
          /\ t[i] # Closing[s.mode] => ReadRune(t, s, i).mode = s.mode
          /\ ReadRune(t, s, i).stmt = Append(s.stmt, t[i])
          /\ ReadRune(t, s, i).ended = s.ended
      BY <1>7, ReadLiteral
    <2>2. /\ ReadRune(u, p, k).pair <=> p.mode # "back" /\ u[k] = "bs"
          /\ u[k] = Closing[p.mode] => ReadRune(u, p, k).mode = "code"
          /\ u[k] # Closing[p.mode] => ReadRune(u, p, k).mode = p.mode
          /\ ReadRune(u, p, k).stmt = Append(p.stmt, u[k])
          /\ ReadRune(u, p, k).ended = p.ended
      BY <1>1, <1>7, ReadLiteral
    <2>3. ReadRune(t, s, i).pair = ReadRune(u, p, k).pair
      <3>1. ReadRune(t, s, i).pair \in BOOLEAN /\ ReadRune(u, p, k).pair \in BOOLEAN
        BY DEF ReadRune, LexState
      <3>2. ReadRune(t, s, i).pair <=> ReadRune(u, p, k).pair
        BY <1>1, <1>2, <2>1, <2>2
      <3>3. QED
        BY <3>1, <3>2
    <2>4. ReadRune(t, s, i).mode = ReadRune(u, p, k).mode
      BY <1>1, <1>2, <2>1, <2>2
    <2>5. QED
      BY <1>1, <1>2, <2>1, <2>2, <2>3, <2>4 DEF Shifted
  <1>8. CASE ~s.pair /\ s.mode \in {"dash", "hash"}
    <2>1. /\ ReadRune(t, s, i).pair = FALSE
          /\ ReadRune(t, s, i).stmt = s.stmt
          /\ ReadRune(t, s, i).ended = s.ended
      BY <1>8, ReadLine
    <2>4. /\ ReadRune(u, p, k).pair = FALSE
          /\ ReadRune(u, p, k).stmt = p.stmt
          /\ ReadRune(u, p, k).ended = p.ended
      BY <1>1, <1>8, ReadLine
    <2>2. /\ t[i] = "nl" => ReadRune(t, s, i).mode = "code"
          /\ t[i] # "nl" => ReadRune(t, s, i).mode = s.mode
          /\ u[k] = "nl" => ReadRune(u, p, k).mode = "code"
          /\ u[k] # "nl" => ReadRune(u, p, k).mode = p.mode
      BY <1>1, <1>8, ReadLineMode
    <2>3. QED
      BY <1>1, <1>2, <2>1, <2>2, <2>4 DEF Shifted
  <1>9. CASE ~s.pair /\ s.mode = "block"
    <2> DEFINE C(x, j) == x[j] = "*" /\ RuneAt(x, j + 1) = "/"
    <2>1. /\ ReadRune(t, s, i).pair <=> C(t, i)
          /\ C(t, i) => ReadRune(t, s, i).mode = "code"
          /\ ~C(t, i) => ReadRune(t, s, i).mode = "block"
          /\ ReadRune(t, s, i).stmt = s.stmt
          /\ ReadRune(t, s, i).ended = s.ended
      BY <1>9, ReadBlock
    <2>2. /\ ReadRune(u, p, k).pair <=> C(u, k)
          /\ C(u, k) => ReadRune(u, p, k).mode = "code"
          /\ ~C(u, k) => ReadRune(u, p, k).mode = "block"
          /\ ReadRune(u, p, k).stmt = p.stmt
          /\ ReadRune(u, p, k).ended = p.ended
      <3>1. ~p.pair /\ p.mode = "block"
        BY <1>1, <1>9
      <3>2. QED
        BY <3>1, ReadBlock
    <2>3. C(t, i) <=> C(u, k)
      BY DEF Alike
    <2> HIDE DEF C
    <2>4. ReadRune(t, s, i).pair = ReadRune(u, p, k).pair
      <3>1. ReadRune(t, s, i).pair \in BOOLEAN /\ ReadRune(u, p, k).pair \in BOOLEAN
        BY DEF ReadRune, LexState
      <3>2. ReadRune(t, s, i).pair <=> ReadRune(u, p, k).pair
        BY <2>1, <2>2, <2>3
      <3>3. QED
        BY <3>1, <3>2
    <2>5. QED
      BY <1>1, <2>1, <2>2, <2>3, <2>4 DEF Shifted
  <1>10. QED
    BY <1>3, <1>4, <1>5, <1>6, <1>7, <1>8, <1>9, ReadCases

LEMMA OpenedNext ==
  \A r, n, n2, m, m2 : n \notin {"-", "*"} /\ m \notin {"-", "*"}
                         => Opened(r, n, n2) = Opened(r, m, m2)
  BY DEF Opened

LEMMA OpenedSecond ==
  \A r, n, n2, m2 :
    (r = "-" /\ n = "-" => (n2 \in Blank \cup {"end"} <=> m2 \in Blank \cup {"end"}))
      => Opened(r, n, n2) = Opened(r, n, m2)
  BY DEF Opened

\* Where the runes a + 1 to b of t can be cut out without being read otherwise.
CutOut(t, a, b) ==
  /\ RuneAt(t, b + 1) \in Blank \cup {"end", ";"}
  /\ ~ (RuneAt(t, b - 1) = "-" /\ RuneAt(t, b) = "-" /\ RuneAt(t, b + 1) = ";")

LEMMA PieceAlike ==
  ASSUME NEW t \in Seq(Rune), NEW a \in 0 .. Len(t), NEW b \in a .. Len(t), CutOut(t, a, b)
  PROVE  \A k \in 1 .. b - a : Alike(t, a + k, SubSeq(t, a + 1, b), k)
  <1> SUFFICES ASSUME NEW k \in 1 .. b - a
               PROVE  Alike(t, a + k, SubSeq(t, a + 1, b), k)
    OBVIOUS
  <1> DEFINE u == SubSeq(t, a + 1, b)
             i == a + k
  <1>1. u \in Seq(Rune) /\ Len(u) = b - a /\ \A j \in 1 .. b - a : u[j] = t[a + j]
    OBVIOUS
  <1>2. i \in 1 .. Len(t) /\ b \in Nat /\ a \in Nat /\ Len(t) \in Nat
    OBVIOUS
  <1>3. \A j \in 1 .. b - a : RuneAt(u, j) = RuneAt(t, a + j)
    BY <1>1, <1>2 DEF RuneAt
  <1>4. \A j \in Nat : j > b - a => RuneAt(u, j) = "end"
    BY <1>1, <1>2 DEF RuneAt
  <1>5. t[i] = u[k] /\ RuneAt(t, i) = t[i] /\ i = a + k
    BY <1>1, <1>2 DEF RuneAt
  <1>6. RuneAt(t, b + 1) \notin {"-", "*", "/"} /\ "end" \notin {"-", "*", "/"}
    BY DEF CutOut, Blank
  <1> HIDE DEF u, i
  <1>7. CASE i = b
    <2>1. RuneAt(u, k + 1) = "end" /\ i + 1 = b + 1
      BY <1>2, <1>4, <1>5, <1>7
    <2>2. OpenedAt(t, i) = OpenedAt(u, k)
      <3>1. Opened(t[i], RuneAt(t, i + 1), RuneAt(t, i + 2))
              = Opened(t[i], "end", RuneAt(u, k + 2))
        BY <1>6, <2>1, OpenedNext
      <3>2. QED
        BY <1>5, <2>1, <3>1 DEF OpenedAt
    <2>3. QED
      BY <1>5, <1>6, <2>1, <2>2 DEF Alike, u, i
  <1>8. CASE i = b - 1
    <2>1. RuneAt(u, k + 1) = RuneAt(t, i + 1) /\ RuneAt(u, k + 2) = "end"
      <3>1. k + 1 \in 1 .. b - a /\ a + (k + 1) = i + 1 /\ k + 2 \in Nat /\ k + 2 > b - a
        BY <1>2, <1>5, <1>8
      <3>2. QED
        BY <1>3, <1>4, <3>1
    <2>2. i + 2 = b + 1 /\ i + 1 = b
      BY <1>2, <1>8
    <2>3. OpenedAt(t, i) = OpenedAt(u, k)
      <3>1. t[i] = "-" /\ RuneAt(t, i + 1) = "-"
              => RuneAt(t, i + 2) \in Blank \cup {"end"}
        BY <1>5, <1>8, <2>2 DEF CutOut
      <3>2. Opened(t[i], RuneAt(t, i + 1), RuneAt(t, i + 2))
              = Opened(t[i], RuneAt(t, i + 1), "end")
        BY <3>1, OpenedSecond
      <3>3. QED
        BY <1>5, <2>1, <3>2 DEF OpenedAt
    <2>4. QED
      BY <1>5, <2>1, <2>3 DEF Alike, u, i
  <1>9. CASE i < b - 1
    <2>1. RuneAt(u, k + 1) = RuneAt(t, i + 1) /\ RuneAt(u, k + 2) = RuneAt(t, i + 2)
      <3>1. /\ k + 1 \in 1 .. b - a /\ a + (k + 1) = i + 1
            /\ k + 2 \in 1 .. b - a /\ a + (k + 2) = i + 2
        BY <1>2, <1>5, <1>9
      <3>2. QED
        BY <1>3, <3>1
    <2>2. QED
      BY <1>5, <2>1 DEF Alike, OpenedAt, u, i
  <1>10. i <= b
    BY DEF i
  <1>11. QED
    BY <1>2, <1>7, <1>8, <1>9, <1>10

\* Plain code in which no statement has begun.
Clean(t, i) ==
  Reading(t, i).mode = "code" /\ Reading(t, i).pair = FALSE /\ Reading(t, i).stmt = <<>>

LEMMA PieceShifted ==
  ASSUME NEW t \in Seq(Rune), NEW a \in 0 .. Len(t), NEW b \in a .. Len(t), CutOut(t, a, b),
         Clean(t, a)
  PROVE  Shifted(Reading(t, a).ended, Reading(t, b),
                 Reading(SubSeq(t, a + 1, b), b - a))
  <1> DEFINE u == SubSeq(t, a + 1, b)
             m == b - a
             E == Reading(t, a).ended
             S == {k \in 0 .. m : Shifted(E, Reading(t, a + k), Reading(u, k))}
  <1>1. u \in Seq(Rune) /\ Len(u) = m /\ m \in Nat
    OBVIOUS
  <1>2. E \in Seq(Seq(Rune))
    BY ReadingType DEF LexState
  <1>3. 0 \in S
    <2>1. Reading(u, 0) = Start
      BY <1>1, ReadingDef
    <2>2. E \o <<>> = E
      BY <1>2
    <2>3. Shifted(E, Reading(t, a), Start)
      BY <2>2 DEF Shifted, Start, Clean
    <2>4. a + 0 = a
      OBVIOUS
    <2>5. QED
      BY <1>1, <2>1, <2>3, <2>4
  <1>4. ASSUME NEW k \in 1 .. m, k - 1 \in S PROVE k \in S
    <2>1. /\ a + k \in 1 .. Len(t) /\ (a + k) - 1 = a + (k - 1) /\ a + (k - 1) \in 0 .. Len(t)
          /\ k - 1 \in 0 .. m /\ k \in 1 .. Len(u)
      BY <1>1
    <2>2. Shifted(E, Reading(t, a + (k - 1)), Reading(u, k - 1))
      BY <1>4
    <2>3. Alike(t, a + k, u, k)
      BY PieceAlike
    <2>4. Reading(t, a + (k - 1)) \in LexState /\ Reading(u, k - 1) \in LexState
      <3>1. Reading(t, a + (k - 1)) \in LexState
        BY <2>1, ReadingType
      <3>2. Reading(u, k - 1) \in LexState
        BY <1>1, <2>1, ReadingType
      <3>3. QED
        BY <3>1, <3>2
    <2>5. Reading(t, a + k) = ReadRune(t, Reading(t, a + (k - 1)), a + k)
      BY <2>1, ReadingDef
    <2>6. Reading(u, k) = ReadRune(u, Reading(u, k - 1), k)
      BY <1>1, <2>1, ReadingDef
    <2> HIDE DEF E, u, m
    <2>7. Shifted(E, ReadRune(t, Reading(t, a + (k - 1)), a + k),
                  ReadRune(u, Reading(u, k - 1), k))
      BY <1>2, <2>2, <2>3, <2>4, ShiftRune
    <2>8. QED
      BY <2>5, <2>6, <2>7
  <1>5. \A k \in 0 .. m : k \in S
    <2> HIDE DEF S, m
    <2>1. QED
      BY <1>1, <1>3, <1>4, Induction
  <1>6. m \in S /\ a + m = b
    BY <1>1, <1>5
  <1>7. QED
    BY <1>6

-----------------------------------------------------------------------------
(* White space around a piece changes nothing.                             *)

\* s reads white space on from s0.
Idle(s0, s) ==
  /\ s.ended = s0.ended
  /\ s.mode \in Pending <=> s0.mode \in Pending
  /\ s0.mode \notin Pending => s.stmt = s0.stmt
  /\ s0.mode = "code" => s = s0
  /\ s.pair => s.mode \in {"single", "double"}

LEMMA IdleStep ==
  ASSUME NEW t, NEW i, t[i] \in Blank, NEW s0, NEW s \in LexState, Idle(s0, s)
  PROVE  Idle(s0, ReadRune(t, s, i))
  <1> DEFINE r == ReadRune(t, s, i)
  <1>1. /\ s.ended = s0.ended /\ (s.mode \in Pending <=> s0.mode \in Pending)
        /\ (s0.mode \notin Pending => s.stmt = s0.stmt) /\ (s0.mode = "code" => s = s0)
        /\ (s.pair => s.mode \in {"single", "double"})
    BY DEF Idle
  <1>2. t[i] # ";" /\ t[i] # "*" /\ t[i] # "bs" /\ t[i] \notin {"sq", "dq", "tick"}
    BY DEF Blank
  <1>3. CASE s.pair
    <2>1. r.mode = s.mode /\ r.pair = FALSE /\ r.ended = s.ended
      BY <1>3, ReadSecond
    <2>2. s.mode \in Pending /\ s.mode # "code"
      BY <1>1, <1>3 DEF Pending
    <2> HIDE DEF r
    <2>3. s0.mode # "code"
      BY <1>1, <2>2
    <2>4. Idle(s0, r)
      BY <1>1, <2>1, <2>2, <2>3 DEF Idle
    <2>5. QED
      BY <2>4 DEF r
  <1>4. CASE ~s.pair /\ s.mode = "code" /\ t[i] \in Blank
    <2>1. r = s
      BY <1>4, ReadBlank
    <2> HIDE DEF r
    <2>2. Idle(s0, r)
      BY <2>1
    <2>3. QED
      BY <2>2 DEF r
  <1>5. CASE ~s.pair /\ s.mode \in {"single", "double", "back"}
    <2>1. /\ r.pair <=> s.mode # "back" /\ t[i] = "bs"
          /\ t[i] = Closing[s.mode] => r.mode = "code"
          /\ t[i] # Closing[s.mode] => r.mode = s.mode
          /\ r.ended = s.ended
      BY <1>5, ReadLiteral
    <2>2. Closing["single"] = "sq" /\ Closing["double"] = "dq" /\ Closing["back"] = "tick"
      BY DEF Closing
    <2>3. t[i] # Closing[s.mode]
      BY <1>2, <1>5, <2>2
    <2>4. s.mode \in Pending /\ s.mode # "code"
      BY <1>5 DEF Pending
    <2> HIDE DEF r
    <2>5. ~r.pair /\ r.mode = s.mode /\ r.ended = s.ended
      BY <1>2, <2>1, <2>3
    <2>6. s0.mode # "code"
      BY <1>1, <2>4
    <2>7. Idle(s0, r)
      BY <1>1, <2>4, <2>5, <2>6 DEF Idle
    <2>8. QED
      BY <2>7 DEF r
  <1>6. CASE ~s.pair /\ s.mode \in {"dash", "hash"}
    <2>1. r.pair = FALSE /\ r.stmt = s.stmt /\ r.ended = s.ended
      BY <1>6, ReadLine
    <2>2. /\ t[i] = "nl" => r.mode = "code"
          /\ t[i] # "nl" => r.mode = s.mode
      BY <1>6, ReadLineMode
    <2>3. s.mode \notin Pending /\ s.mode # "code" /\ "code" \notin Pending
      BY <1>6 DEF Pending
    <2> HIDE DEF r
    <2>4. s0.mode # "code" /\ r.mode \notin Pending
      BY <1>1, <2>2, <2>3
    <2>5. Idle(s0, r)
      BY <1>1, <2>1, <2>3, <2>4 DEF Idle
    <2>6. QED
      BY <2>5 DEF r
  <1>7. CASE ~s.pair /\ s.mode = "block"
    <2>1. r.mode = "block" /\ r.pair = FALSE /\ r.ended = s.ended
      <3>1. ~(t[i] = "*" /\ RuneAt(t, i + 1) = "/")
        BY <1>2
      <3>2. r.mode = "block"
        BY <1>7, <3>1, ReadBlock
      <3>3. r.pair <=> t[i] = "*" /\ RuneAt(t, i + 1) = "/"
        BY <1>7, ReadBlock
      <3>4. r.ended = s.ended
        BY <1>7, ReadBlock
      <3>5. r.pair \in BOOLEAN
        BY DEF ReadRune, LexState
      <3>6. QED
        BY <3>1, <3>2, <3>3, <3>4, <3>5
    <2>2. s.mode \in Pending
      BY <1>7 DEF Pending
    <2> HIDE DEF r
    <2>3. s0.mode # "code"
      BY <1>1, <1>7
    <2>4. Idle(s0, r)
      BY <1>1, <1>7, <2>1, <2>2, <2>3 DEF Idle
    <2>5. QED
      BY <2>4 DEF r
  <1>8. QED
    BY <1>2, <1>3, <1>4, <1>5, <1>6, <1>7, ReadCases

LEMMA BlankRun ==
  ASSUME NEW t \in Seq(Rune), NEW i \in 0 .. Len(t), NEW j \in i .. Len(t),
         \A k \in i + 1 .. j : t[k] \in Blank,
         Reading(t, i).pair => Reading(t, i).mode \in {"single", "double"}
  PROVE  Idle(Reading(t, i), Reading(t, j))
  <1> DEFINE m == j - i
             S == {k \in 0 .. m : Idle(Reading(t, i), Reading(t, i + k))}
  <1>1. m \in Nat
    OBVIOUS
  <1>2. 0 \in S
    <2>1. i + 0 = i
      OBVIOUS
    <2>2. Idle(Reading(t, i), Reading(t, i))
      BY DEF Idle
    <2>3. QED
      BY <1>1, <2>1, <2>2
  <1>3. ASSUME NEW k \in 1 .. m, k - 1 \in S PROVE k \in S
    <2>1. /\ i + k \in 1 .. Len(t) /\ (i + k) - 1 = i + (k - 1) /\ i + (k - 1) \in 0 .. Len(t)
          /\ i + k \in i + 1 .. j
      BY <1>1
    <2>2. Reading(t, i + (k - 1)) \in LexState
      BY <2>1, ReadingType
    <2>3. Reading(t, i + k) = ReadRune(t, Reading(t, i + (k - 1)), i + k)
      BY <2>1, ReadingDef
    <2>4. Idle(Reading(t, i), Reading(t, i + (k - 1))) /\ t[i + k] \in Blank
      BY <1>3, <2>1
    <2>5. Idle(Reading(t, i), ReadRune(t, Reading(t, i + (k - 1)), i + k))
      BY <2>2, <2>4, IdleStep
    <2>6. QED
      BY <2>3, <2>5
  <1>4. \A k \in 0 .. m : k \in S
    <2> HIDE DEF S, m
    <2>1. QED
      BY <1>1, <1>2, <1>3, Induction
  <1>5. m \in 0 .. m /\ i + m = j
    BY <1>1
  <1>6. m \in S
    BY <1>4, <1>5
  <1>7. QED
    BY <1>5, <1>6

\* The least of a set of numbers, and the greatest of a bounded one.
LEMMA LeastExists ==
  ASSUME NEW S, S \subseteq Nat, S # {}
  PROVE  \E x \in S : \A y \in S : x <= y
  <1> DEFINE R == OpToRel(<, Nat)
  <1>1. IsWellFoundedOn(R, Nat)
    BY NatLessThanWellFounded
  <1>2. \A x, y \in Nat : x < y => <<x, y>> \in R
    BY DEF OpToRel
  <1> HIDE DEF R
  <1>3. PICK x \in S : \A y \in S : ~ (<<y, x>> \in R)
    BY <1>1, WFMin
  <1>4. ASSUME NEW y \in S PROVE x <= y
    <2>1. x \in Nat /\ y \in Nat /\ ~ (y < x)
      BY <1>2, <1>3
    <2>2. QED
      BY <2>1
  <1>5. QED
    BY <1>3, <1>4

LEMMA MinLeast ==
  ASSUME NEW S, S \subseteq Nat, S # {}
  PROVE  Min(S) \in S /\ \A y \in S : Min(S) <= y
  BY LeastExists DEF Min

LEMMA MaxGreatest ==
  ASSUME NEW n \in Nat, NEW S, S \subseteq 1 .. n, S # {}
  PROVE  Max(S) \in S /\ \A y \in S : y <= Max(S)
  <1> DEFINE T == {n - y : y \in S}
  <1>1. T \subseteq Nat /\ T # {}
    OBVIOUS
  <1>2. PICK z \in T : \A y \in T : z <= y
    BY <1>1, LeastExists
  <1>3. PICK x \in S : z = n - x
    BY <1>2
  <1>4. \A y \in S : x >= y
    <2>1. SUFFICES ASSUME NEW y \in S PROVE x >= y
      OBVIOUS
    <2>2. z <= n - y /\ x \in 1 .. n /\ y \in 1 .. n
      BY <1>2
    <2>3. QED
      BY <1>3, <2>2
  <1>5. Max(S) \in S /\ \A y \in S : Max(S) >= y
    BY <1>3, <1>4 DEF Max
  <1>6. QED
    <2>1. SUFFICES ASSUME NEW y \in S PROVE y <= Max(S)
      BY <1>5
    <2>2. Max(S) >= y /\ Max(S) \in 1 .. n /\ y \in 1 .. n
      BY <1>5
    <2>3. QED
      BY <2>2

\* What is left of a piece after TrimSpace, and where it stands in the text.
LEMMA TrimPiece ==
  ASSUME NEW t \in Seq(Rune), NEW lo \in 1 .. Len(t) + 1, NEW hi \in lo - 1 .. Len(t),
         NEW q, q = TrimSpace(SubSeq(t, lo, hi))
  PROVE  /\ q = <<>> => \A i \in lo .. hi : t[i] \in Blank
         /\ q # <<>> => \E a, b \in Int :
              /\ lo - 1 <= a /\ a < b /\ b <= hi
              /\ q = SubSeq(t, a + 1, b)
              /\ \A i \in lo .. a : t[i] \in Blank
              /\ \A i \in b + 1 .. hi : t[i] \in Blank
  <1> DEFINE u == SubSeq(t, lo, hi)
             kept == {i \in DOMAIN u : u[i] \notin Blank}
             c == lo - 1
  <1>1. u \in Seq(Rune) /\ Len(u) = hi - c /\ DOMAIN u = 1 .. hi - c /\ c \in Nat
        /\ \A i \in 1 .. hi - c : u[i] = t[c + i]
    OBVIOUS
  <1>2. CASE kept = {}
    <2>1. TrimSpace(u) = <<>>
      BY <1>2 DEF TrimSpace
    <2>2. \A i \in lo .. hi : i - c \in 1 .. hi - c /\ c + (i - c) = i
      BY <1>1
    <2>3. \A i \in lo .. hi : t[i] \in Blank
      BY <1>1, <1>2, <2>2
    <2>4. QED
      BY <2>1, <2>3
  <1>3. CASE kept # {}
    <2> DEFINE x == Min(kept)
               y == Max(kept)
    <2>1. kept \subseteq 1 .. hi - c /\ kept \subseteq Nat /\ hi - c \in Nat
      BY <1>1
    <2>2. x \in kept /\ \A i \in kept : x <= i
      <3> HIDE DEF kept
      <3>1. QED
        BY <1>3, <2>1, MinLeast
    <2>3. y \in kept /\ \A i \in kept : i <= y
      BY <1>3, <2>1, MaxGreatest
    <2>4. TrimSpace(u) = SubSeq(u, x, y)
      BY <1>3 DEF TrimSpace
    <2> HIDE DEF x, y
    <2>5. x \in 1 .. hi - c /\ y \in x .. hi - c
      BY <1>1, <2>2, <2>3
    <2> DEFINE a == c + x - 1
               b == c + y
    <2>6. a \in Int /\ b \in Int /\ lo - 1 <= a /\ a < b /\ b <= hi
      BY <1>1, <2>5
    <2>7. SubSeq(u, x, y) = SubSeq(t, a + 1, b)
      BY <1>1, <2>5, <2>6
    <2>8. SubSeq(u, x, y) # <<>>
      BY <1>1, <2>5
    <2>9. \A i \in lo .. hi : (i < c + x \/ i > c + y) => t[i] \in Blank
      <3>1. SUFFICES ASSUME NEW i \in lo .. hi, i < c + x \/ i > c + y
                     PROVE  t[i] \in Blank
        OBVIOUS
      <3>2. i - c \in 1 .. hi - c /\ c + (i - c) = i
        BY <1>1
      <3>3. i - c \notin kept
        <4>1. x \in Int /\ y \in Int /\ c \in Int /\ i \in Int
          BY <1>1, <2>5
        <4> HIDE DEF kept, c
        <4>2. QED
          BY <2>2, <2>3, <3>1, <4>1
      <3>4. QED
        BY <1>1, <3>2, <3>3
    <2>10. /\ \A i \in lo .. a : t[i] \in Blank
           /\ \A i \in b + 1 .. hi : t[i] \in Blank
      BY <1>1, <2>5, <2>6, <2>9
    <2>11. QED
      BY <2>4, <2>6, <2>7, <2>8, <2>10
  <1>4. QED
    BY <1>2, <1>3

\* What the server reads in a piece and in the runes of the text it is made of.
LEMMA PieceRead ==
  ASSUME NEW t \in Seq(Rune), NEW lo \in 1 .. Len(t) + 1, NEW hi \in lo - 1 .. Len(t),
         Clean(t, lo - 1),
         RuneAt(t, hi + 1) \in {"end", ";"},
         ~ (RuneAt(t, hi - 1) = "-" /\ RuneAt(t, hi) = "-" /\ RuneAt(t, hi + 1) = ";"),
         NEW q, q = TrimSpace(SubSeq(t, lo, hi)), q # <<>>
  PROVE  LET s == Reading(t, hi)
             p == Reading(q, Len(q))
         IN /\ q \in Seq(Rune)
            /\ s.ended = Reading(t, lo - 1).ended \o p.ended
            /\ s.mode \in Pending <=> p.mode \in Pending
            /\ s.mode \notin Pending => s.stmt = p.stmt
  <1>1. PICK a \in Int, b \in Int :
          /\ lo - 1 <= a /\ a < b /\ b <= hi
          /\ q = SubSeq(t, a + 1, b)
          /\ \A i \in lo .. a : t[i] \in Blank
          /\ \A i \in b + 1 .. hi : t[i] \in Blank
    BY TrimPiece
  <1>11. /\ lo \in Int /\ hi \in Int /\ Len(t) \in Nat /\ 1 <= lo /\ hi <= Len(t)
         /\ lo - 1 <= a /\ a < b /\ b <= hi
    <2>1. Len(t) \in Nat
      BY ONLY t \in Seq(Rune)
    <2>2. lo \in Int /\ hi \in Int /\ 1 <= lo /\ hi <= Len(t)
      BY ONLY <2>1, lo \in 1 .. Len(t) + 1, hi \in lo - 1 .. Len(t)
    <2>3. QED
      BY <1>1, <2>1, <2>2
  <1>2. /\ lo - 1 \in 0 .. Len(t) /\ a \in lo - 1 .. Len(t) /\ a \in 0 .. Len(t)
        /\ b \in a .. Len(t) /\ b \in 0 .. Len(t) /\ hi \in b .. Len(t) /\ (lo - 1) + 1 = lo
    BY ONLY <1>11, a \in Int, b \in Int
  <1>12. ASSUME b # hi PROVE RuneAt(t, b + 1) \in Blank
    <2>1. b + 1 \in b + 1 .. hi /\ b + 1 \in 1 .. Len(t)
      BY ONLY <1>11, <1>12, a \in Int, b \in Int
    <2>2. DOMAIN t = 1 .. Len(t)
      BY ONLY t \in Seq(Rune)
    <2>3. RuneAt(t, b + 1) = t[b + 1]
      BY <2>1, <2>2 DEF RuneAt
    <2>4. t[b + 1] \in Blank
      BY <1>1, <2>1
    <2>5. QED
      BY <2>3, <2>4
  <1>3. Reading(t, a) = Reading(t, lo - 1)
    <2>1. ~Reading(t, lo - 1).pair /\ Reading(t, lo - 1).mode = "code"
      BY DEF Clean
    <2>2. Idle(Reading(t, lo - 1), Reading(t, a))
      BY <1>1, <1>2, <2>1, BlankRun
    <2>3. QED
      BY <2>1, <2>2 DEF Idle
  <1>4. Clean(t, a)
    BY <1>3 DEF Clean
  <1>5. RuneAt(t, b + 1) \in Blank \cup {"end", ";"}
    BY <1>12
  <1>6. CutOut(t, a, b)
    <2>1. RuneAt(t, b + 1) = ";" => b = hi
      BY <1>12 DEF Blank
    <2>2. QED
      BY <1>5, <2>1 DEF CutOut
  <1>7. Shifted(Reading(t, a).ended, Reading(t, b), Reading(q, b - a))
    BY <1>1, <1>2, <1>4, <1>6, PieceShifted
  <1>8. q \in Seq(Rune) /\ Len(q) = b - a
    <2>1. a + 1 \in 1 .. Len(t) /\ b \in 1 .. Len(t) /\ a + 1 <= b /\ (b - (a + 1)) + 1 = b - a
      BY ONLY <1>11, a \in Int, b \in Int
    <2>2. SubSeq(t, a + 1, b) \in Seq(Rune) /\ Len(SubSeq(t, a + 1, b)) = b - a
      BY ONLY <2>1, t \in Seq(Rune), a \in Int, b \in Int
    <2>3. QED
      BY <1>1, <2>2
  <1>9. Idle(Reading(t, b), Reading(t, hi))
    <2>1. Reading(t, b).pair => Reading(t, b).mode \in {"single", "double"}
      <3>1. RuneAt(t, b + 1) \notin {"*", "/"}
        BY <1>5 DEF Blank
      <3>2. QED
        BY <1>2, <3>1, PairedRune
    <2>2. QED
      BY <1>1, <1>2, <2>1, BlankRun
  <1>10. QED
    <2>1. /\ Reading(t, b).mode = Reading(q, Len(q)).mode
          /\ Reading(t, b).stmt = Reading(q, Len(q)).stmt
          /\ Reading(t, b).ended = Reading(t, lo - 1).ended \o Reading(q, Len(q)).ended
      BY <1>3, <1>7, <1>8 DEF Shifted
    <2>2. /\ Reading(t, hi).ended = Reading(t, b).ended
          /\ Reading(t, hi).mode \in Pending <=> Reading(t, b).mode \in Pending
          /\ Reading(t, b).mode \notin Pending => Reading(t, hi).stmt = Reading(t, b).stmt
      BY <1>9 DEF Idle
    <2>3. QED
      BY <1>8, <2>1, <2>2

LEMMA BlankPiece ==
  ASSUME NEW t \in Seq(Rune), NEW lo \in 1 .. Len(t) + 1, NEW hi \in lo - 1 .. Len(t),
         Clean(t, lo - 1), TrimSpace(SubSeq(t, lo, hi)) = <<>>
  PROVE  Reading(t, hi) = Reading(t, lo - 1)
  <1>1. \A i \in lo .. hi : t[i] \in Blank
    BY TrimPiece
  <1>2. lo - 1 \in 0 .. Len(t) /\ hi \in lo - 1 .. Len(t) /\ (lo - 1) + 1 = lo
    OBVIOUS
  <1>3. ~Reading(t, lo - 1).pair /\ Reading(t, lo - 1).mode = "code"
    BY DEF Clean
  <1>4. Idle(Reading(t, lo - 1), Reading(t, hi))
    BY <1>1, <1>2, <1>3, BlankRun
  <1>5. QED
    BY <1>3, <1>4 DEF Idle

-----------------------------------------------------------------------------
(* What the server finds in a text.                                        *)

LEMMA AllClosed ==
  ASSUME NEW w \in Seq(Seq(Rune)), NEW e,
         e = [k \in 1 .. Len(w) |-> [words |-> w[k], closed |-> TRUE]]
  PROVE  /\ e \in Seq(Stmt) /\ Len(e) = Len(w)
         /\ \A k \in 1 .. Len(w) : e[k].closed /\ e[k].words = w[k]
  <1>1. \A k \in 1 .. Len(w) : [words |-> w[k], closed |-> TRUE] \in Stmt
    BY DEF Stmt
  <1>2. e \in [1 .. Len(w) -> Stmt] /\ Len(w) \in Nat
    BY <1>1
  <1>3. e \in Seq(Stmt) /\ Len(e) = Len(w)
    BY <1>2
  <1>4. QED
    BY <1>3

LEMMA FoundType ==
  ASSUME NEW t \in Seq(Rune)
  PROVE  Found(t) \in Seq(Stmt)
  <1> DEFINE s == Reading(t, Len(t))
  <1>1. s.stmt \in Seq(Rune) /\ s.ended \in Seq(Seq(Rune))
    BY ReadingType DEF LexState
  <1> DEFINE e == [k \in 1 .. Len(s.ended) |-> [words |-> s.ended[k], closed |-> TRUE]]
             last == IF s.mode \in Pending THEN <<[words |-> s.stmt, closed |-> FALSE]>>
                     ELSE IF s.stmt = <<>> THEN <<>> ELSE <<[words |-> s.stmt, closed |-> TRUE]>>
  <1>2. Found(t) = e \o last
    BY DEF Found
  <1> HIDE DEF s
  <1>3. \A w \in Seq(Rune), c \in BOOLEAN : [words |-> w, closed |-> c] \in Stmt
    BY DEF Stmt
  <1>4. e \in Seq(Stmt)
    BY <1>1, AllClosed
  <1>5. last \in Seq(Stmt)
    <2>1. [words |-> s.stmt, closed |-> TRUE] \in Stmt /\ [words |-> s.stmt, closed |-> FALSE] \in Stmt
      BY <1>1, <1>3
    <2>2. QED
      BY <2>1
  <1> HIDE DEF e, last
  <1>6. QED
    BY <1>2, <1>4, <1>5, ConcatProperties

\* A text that ends inside a statement has one that is not closed, the last.
LEMMA FoundTorn ==
  ASSUME NEW t \in Seq(Rune), Reading(t, Len(t)).mode \in Pending
  PROVE  /\ Len(Found(t)) = Len(Reading(t, Len(t)).ended) + 1
         /\ \A k \in 1 .. Len(Found(t)) : Found(t)[k].closed <=> k < Len(Found(t))
         /\ \A k \in 1 .. Len(Found(t)) - 1 : Found(t)[k].words = Reading(t, Len(t)).ended[k]
  <1> DEFINE s == Reading(t, Len(t))
             e == [k \in 1 .. Len(s.ended) |-> [words |-> s.ended[k], closed |-> TRUE]]
             last == [words |-> s.stmt, closed |-> FALSE]
  <1>1. s.ended \in Seq(Seq(Rune)) /\ s.stmt \in Seq(Rune)
    BY ReadingType DEF LexState
  <1>2. Found(t) = e \o <<last>>
    BY DEF Found
  <1> HIDE DEF s
  <1>3. /\ Len(s.ended) \in Nat /\ e \in Seq(Stmt) /\ Len(e) = Len(s.ended)
        /\ \A k \in 1 .. Len(s.ended) : e[k].closed /\ e[k].words = s.ended[k]
    <2>1. s.ended \in Seq(Seq(Rune)) /\ Len(s.ended) \in Nat
      BY <1>1
    <2> DEFINE w == s.ended
    <2> HIDE DEF w
    <2>2. w \in Seq(Seq(Rune)) /\ e = [k \in 1 .. Len(w) |-> [words |-> w[k], closed |-> TRUE]]
      BY <2>1 DEF w
    <2> HIDE DEF e
    <2>3. /\ e \in Seq(Stmt) /\ Len(e) = Len(w)
          /\ \A k \in 1 .. Len(w) : e[k].closed /\ e[k].words = w[k]
      BY <2>2, AllClosed
    <2>4. QED
      BY <2>1, <2>3 DEF w
  <1>9. last \in Stmt /\ ~last.closed
    BY <1>1 DEF Stmt
  <1> HIDE DEF e, last
  <1>4. /\ Len(Found(t)) = Len(s.ended) + 1
        /\ \A k \in 1 .. Len(s.ended) : Found(t)[k] = e[k]
        /\ Found(t)[Len(s.ended) + 1] = last
    BY <1>2, <1>3, <1>9
  <1>5. \A k \in 1 .. Len(s.ended) : Found(t)[k].closed /\ Found(t)[k].words = s.ended[k]
    BY <1>3, <1>4
  <1>6. ~Found(t)[Len(s.ended) + 1].closed
    BY <1>4, <1>9
  <1>7. Len(Found(t)) = Len(s.ended) + 1
        /\ \A k \in 1 .. Len(Found(t)) - 1 : Found(t)[k].words = s.ended[k]
    BY <1>3, <1>4, <1>5
  <1>8. ASSUME NEW k \in 1 .. Len(Found(t))
        PROVE  Found(t)[k].closed <=> k < Len(Found(t))
    <2>1. k \in 1 .. Len(s.ended) \/ k = Len(s.ended) + 1
      BY <1>3, <1>4
    <2>2. CASE k \in 1 .. Len(s.ended)
      BY <1>3, <1>4, <1>5, <2>2
    <2>3. CASE k = Len(s.ended) + 1
      BY <1>3, <1>4, <1>6, <2>3
    <2>4. QED
      BY <2>1, <2>2, <2>3
  <1>10. QED
    BY <1>7, <1>8 DEF s

LEMMA FoundWhole ==
  ASSUME NEW t \in Seq(Rune), Reading(t, Len(t)).mode \notin Pending
  PROVE  /\ Len(Found(t)) = Len(Ended(Reading(t, Len(t))))
         /\ \A k \in 1 .. Len(Found(t)) :
              Found(t)[k].closed /\ Found(t)[k].words = Ended(Reading(t, Len(t)))[k]
  <1> DEFINE s == Reading(t, Len(t))
             e == [k \in 1 .. Len(s.ended) |-> [words |-> s.ended[k], closed |-> TRUE]]
             last == [words |-> s.stmt, closed |-> TRUE]
  <1>1. s.ended \in Seq(Seq(Rune)) /\ s.stmt \in Seq(Rune)
    BY ReadingType DEF LexState
  <1>2. /\ s.stmt = <<>> => Found(t) = e \o <<>>
        /\ s.stmt # <<>> => Found(t) = e \o <<last>>
    BY DEF Found
  <1> HIDE DEF s
  <1>3. /\ Len(s.ended) \in Nat /\ e \in Seq(Stmt) /\ Len(e) = Len(s.ended)
        /\ \A k \in 1 .. Len(s.ended) : e[k].closed /\ e[k].words = s.ended[k]
    <2>1. s.ended \in Seq(Seq(Rune)) /\ Len(s.ended) \in Nat
      BY <1>1
    <2> DEFINE w == s.ended
    <2> HIDE DEF w
    <2>2. w \in Seq(Seq(Rune)) /\ e = [k \in 1 .. Len(w) |-> [words |-> w[k], closed |-> TRUE]]
      BY <2>1 DEF w
    <2> HIDE DEF e
    <2>3. /\ e \in Seq(Stmt) /\ Len(e) = Len(w)
          /\ \A k \in 1 .. Len(w) : e[k].closed /\ e[k].words = w[k]
      BY <2>2, AllClosed
    <2>4. QED
      BY <2>1, <2>3 DEF w
  <1>4. last \in Stmt /\ last.closed /\ last.words = s.stmt
    BY <1>1 DEF Stmt
  <1> HIDE DEF e, last
  <1>5. CASE s.stmt = <<>>
    <2>1. Len(Found(t)) = Len(s.ended) /\ \A k \in 1 .. Len(s.ended) : Found(t)[k] = e[k]
      BY <1>2, <1>3, <1>5
    <2>2. Ended(s) = s.ended
      BY <1>5 DEF Ended
    <2>3. QED
      BY <1>3, <2>1, <2>2 DEF s
  <1>6. CASE s.stmt # <<>>
    <2>1. /\ Len(Found(t)) = Len(s.ended) + 1
          /\ \A k \in 1 .. Len(s.ended) : Found(t)[k] = e[k]
          /\ Found(t)[Len(s.ended) + 1] = last
      BY <1>2, <1>3, <1>4, <1>6
    <2>3. /\ Len(Ended(s)) = Len(s.ended) + 1
          /\ \A k \in 1 .. Len(s.ended) : Ended(s)[k] = s.ended[k]
          /\ Ended(s)[Len(s.ended) + 1] = s.stmt
      BY <1>1, <1>6 DEF Ended
    <2>4. ASSUME NEW k \in 1 .. Len(Found(t))
          PROVE  Found(t)[k].closed /\ Found(t)[k].words = Ended(s)[k]
      <3>1. k \in 1 .. Len(s.ended) \/ k = Len(s.ended) + 1
        BY <1>3, <2>1
      <3>2. CASE k \in 1 .. Len(s.ended)
        BY <1>3, <2>1, <2>3, <3>2
      <3>3. CASE k = Len(s.ended) + 1
        BY <1>4, <2>1, <2>3, <3>3
      <3>4. QED
        BY <3>1, <3>2, <3>3
    <2>5. QED
      BY <2>1, <2>3, <2>4 DEF s
  <1>7. QED
    BY <1>5, <1>6

LEMMA StatementsType ==
  ASSUME NEW t \in Seq(Rune)
  PROVE  /\ Statements(t) \in Seq(Seq(Rune))
         /\ Len(Statements(t)) = Len(Found(t))
         /\ \A k \in 1 .. Len(Found(t)) : Statements(t)[k] = Found(t)[k].words
  <1>1. Found(t) \in Seq(Stmt)
    BY FoundType
  <1>2. DOMAIN Found(t) = 1 .. Len(Found(t)) /\ Len(Found(t)) \in Nat
    BY <1>1
  <1>3. \A k \in 1 .. Len(Found(t)) : Found(t)[k].words \in Seq(Rune)
    <2>1. \A k \in 1 .. Len(Found(t)) : Found(t)[k] \in Stmt
      BY <1>1
    <2>2. QED
      BY <2>1 DEF Stmt
  <1>4. Statements(t) = [k \in 1 .. Len(Found(t)) |-> Found(t)[k].words]
    BY <1>2 DEF Statements
  <1>5. QED
    BY <1>2, <1>3, <1>4

\* The statements that have ended somewhere are the first of the text's.
LEMMA StatementsBegin ==
  ASSUME NEW t \in Seq(Rune), NEW i \in 0 .. Len(t)
  PROVE  Begins(Reading(t, i).ended, Statements(t))
  <1> DEFINE s == Reading(t, Len(t))
  <1>1. /\ Reading(t, i).ended \in Seq(Seq(Rune)) /\ s.ended \in Seq(Seq(Rune))
        /\ s.stmt \in Seq(Rune) /\ Statements(t) \in Seq(Seq(Rune))
    BY ReadingType, StatementsType DEF LexState
  <1>2. Begins(Reading(t, i).ended, s.ended)
    BY EndedGrows
  <1>3. Begins(s.ended, Statements(t))
    <2>1. CASE s.mode \in Pending
      <3>1. Len(Found(t)) = Len(s.ended) + 1
            /\ \A k \in 1 .. Len(Found(t)) - 1 : Found(t)[k].words = s.ended[k]
        BY <2>1, FoundTorn
      <3>2. Len(Statements(t)) = Len(s.ended) + 1
            /\ \A k \in 1 .. Len(s.ended) + 1 : Statements(t)[k] = Found(t)[k].words
        BY <3>1, StatementsType
      <3> HIDE DEF s
      <3>3. QED
        BY <1>1, <3>1, <3>2 DEF Begins
    <2>2. CASE s.mode \notin Pending
      <3>1. Len(Found(t)) = Len(Ended(s))
            /\ \A k \in 1 .. Len(Found(t)) : Found(t)[k].words = Ended(s)[k]
        BY <2>2, FoundWhole
      <3>2. Len(Statements(t)) = Len(Ended(s))
            /\ \A k \in 1 .. Len(Ended(s)) : Statements(t)[k] = Found(t)[k].words
        BY <3>1, StatementsType
      <3> HIDE DEF s
      <3>3. Begins(s.ended, Ended(s))
        BY <1>1 DEF Begins, Ended
      <3>4. QED
        BY <1>1, <3>1, <3>2, <3>3 DEF Begins
    <2>3. QED
      BY <2>1, <2>2
  <1> HIDE DEF s
  <1>4. QED
    BY <1>1, <1>2, <1>3, BeginsTransitive

-----------------------------------------------------------------------------
(* The inductive invariant.                                                *)

Written  == Statements(text)
Unclosed == Reading(text, Len(text)).mode \in Pending

\* What has not begun is empty, and a piece is left to send where one is sent.
Order ==
  /\ at = "ping" => pos = 1 /\ mode = "code" /\ start = 1 /\ stmts = <<>>
  /\ at \in {"ping", "split"} => sent = 0 /\ ran = <<>>
  /\ at \in {"ping", "split", "exec"} => packet = <<>>
  /\ at = "exec" => sent < Len(stmts)
  /\ result = "success" => packet = <<>>

\* Plain code for the splitter does not stand between, or behind, two dashes.
NoDashes ==
  at = "split" /\ mode = "code" =>
    /\ ~ (RuneAt(text, pos - 1) = "-" /\ RuneAt(text, pos) = "-")
    /\ ~ (RuneAt(text, pos - 2) = "-" /\ RuneAt(text, pos - 1) = "-")

\* Where splitter and server read alike, they are in the same mode.
ServerMode(m) == IF m = "line" THEN "dash" ELSE m
InStep ==
  at = "split" /\ ReadAlike(text) =>
    /\ Reading(text, pos - 1).mode = ServerMode(mode)
    /\ Reading(text, pos - 1).pair => pos = Len(text) + 1

\* Until the first piece there is nothing to make one of.
BlankSoFar ==
  at = "split" /\ stmts = <<>> => \A i \in 1 .. start - 1 : text[i] \in Blank \cup {";"}

\* The statements of piece q stand in the script behind the first o.
Places(q, o) ==
  \A j \in 1 .. Len(Found(q)) : Found(q)[j].closed =>
    o + j <= Len(Written) /\ Written[o + j] = Found(q)[j].words

Whole(q) == \A j \in 1 .. Len(Found(q)) : Found(q)[j].closed
Torn(q)  == /\ Found(q) # <<>>
            /\ \A j \in 1 .. Len(Found(q)) : Found(q)[j].closed <=> j < Len(Found(q))

\* The first n pieces hold the first off[n] statements of the script, whole; the
\* piece after them, if there is one, ends inside a statement.
Covers(n, off) ==
  /\ n \in 0 .. Len(stmts) /\ off \in [0 .. n -> Nat] /\ off[0] = 0
  /\ \A k \in 1 .. n : /\ Whole(stmts[k]) /\ Places(stmts[k], off[k - 1])
                       /\ off[k] = off[k - 1] + Len(Found(stmts[k]))
  /\ n < Len(stmts) => /\ Torn(stmts[n + 1]) /\ Places(stmts[n + 1], off[n])
                       /\ ReadAlike(text) => at # "split" /\ Unclosed
  /\ n = Len(stmts) /\ at = "split" =>
       Clean(text, start - 1) /\ Len(Reading(text, start - 1).ended) = off[n]
  /\ n = Len(stmts) /\ at \in {"exec", "wait"} => off[n] = Len(Written)

\* How far Execute has come with them.
Phase(n, off) ==
  /\ at = "exec" => sent <= n /\ Len(ran) = off[sent]
  /\ at = "wait" /\ answer = "ok" =>
       /\ sent \in 1 .. n + 1
       /\ sent <= n => /\ \A j \in 1 .. Len(packet) : packet[j].closed
                       /\ Len(ran) + Len(packet) = off[sent]
       /\ sent = n + 1 => packet # <<>> /\ ~packet[Len(packet)].closed

\* The packet holds what comes next.
PacketNext ==
  /\ \A j \in 1 .. Len(packet) : packet[j].closed =>
       Len(ran) + j <= Len(Written) /\ Written[Len(ran) + j] = packet[j].words
  /\ ReadAlike(text) /\ ~Unclosed => \A j \in 1 .. Len(packet) : packet[j].closed

Outcome ==
  /\ result = "success" => ran = Written
  /\ answer = "error" => refused \/ (ReadAlike(text) => Unclosed)

Progress ==
  /\ \E n \in Nat : \E off : Covers(n, off) /\ Phase(n, off)
  /\ PacketNext /\ Outcome /\ Begins(ran, Written)

\* A connection is lost only with a reason.
Reason == at \in {"split", "exec", "wait"} /\ conn = "down" => broken

\* What the statements that ran have done, unless a connection took it away.
DbOK ==
  result # "failed" /\ (broken => <<"b">> \notin Range(ran)) =>
    /\ db.kept = Effect(ran).kept
    /\ at \notin {"close", "done"} => db = Effect(ran)

IInv ==
  /\ TypeOK /\ Order /\ NoDashes /\ InStep /\ BlankSoFar /\ Reason /\ DbOK
  /\ CutSafe(text) => Progress
  /\ FailureHasReason

-----------------------------------------------------------------------------
(* Types, and what has not begun.                                          *)

LEMMA TextRunes == TypeOK => text \in Seq(Rune) /\ Len(text) \in Nat
  BY TextAssumption DEF TypeOK

LEMMA TrimType ==
  ASSUME NEW t \in Seq(Rune), NEW lo \in 1 .. Len(t) + 1, NEW hi \in lo - 1 .. Len(t)
  PROVE  TrimSpace(SubSeq(t, lo, hi)) \in Seq(Rune)
  <1>0. PICK q : q = TrimSpace(SubSeq(t, lo, hi))
    OBVIOUS
  <1>2. CASE q # <<>>
    <2>1. PICK a \in Int, b \in Int :
            /\ lo - 1 <= a /\ a < b /\ b <= hi
            /\ q = SubSeq(t, a + 1, b)
            /\ \A i \in lo .. a : t[i] \in Blank
            /\ \A i \in b + 1 .. hi : t[i] \in Blank
      BY <1>0, <1>2, TrimPiece
    <2>2. Len(t) \in Nat
      BY ONLY t \in Seq(Rune)
    <2>3. a + 1 \in 1 .. Len(t) /\ b \in 1 .. Len(t)
      BY ONLY <2>1, <2>2, a \in Int, b \in Int, lo \in 1 .. Len(t) + 1, hi \in lo - 1 .. Len(t)
    <2>4. SubSeq(t, a + 1, b) \in Seq(Rune)
      BY ONLY <2>3, t \in Seq(Rune), a \in Int, b \in Int
    <2>5. QED
      BY <1>0, <2>1, <2>4
  <1>3. CASE q = <<>>
    BY <1>0, <1>3
  <1>4. QED
    BY <1>2, <1>3

\* What a piece is, if it is one.
LEMMA FlushCases ==
  ASSUME TypeOK
  PROVE  LET q == TrimSpace(SubSeq(text, start, pos - 1)) IN
         /\ q \in Seq(Rune)
         /\ start \in 1 .. Len(text) + 1 /\ pos - 1 \in start - 1 .. Len(text)
         /\ q = <<>> => Flush = stmts
         /\ q # <<>> => Flush = Append(stmts, q)
         /\ Flush \in Seq(Seq(Rune) \ {<<>>})
  <1> DEFINE q == TrimSpace(SubSeq(text, start, pos - 1))
  <1>1. text \in Seq(Rune) /\ Len(text) \in Nat
    BY TextRunes
  <1>2. start \in 1 .. Len(text) + 1 /\ pos - 1 \in start - 1 .. Len(text)
    BY <1>1 DEF TypeOK
  <1>3. q \in Seq(Rune)
    BY <1>1, <1>2, TrimType
  <1>4. Flush = IF q = <<>> THEN stmts ELSE Append(stmts, q)
    BY DEF Flush
  <1> HIDE DEF q
  <1>5. stmts \in Seq(Seq(Rune) \ {<<>>})
    BY DEF TypeOK
  <1>6. q # <<>> => Append(stmts, q) \in Seq(Seq(Rune) \ {<<>>})
    BY <1>3, <1>5
  <1>7. QED
    BY <1>2, <1>3, <1>4, <1>5, <1>6 DEF q

LEMMA ApplyType ==
  ASSUME NEW d \in Db, NEW w \in Seq(Rune)
  PROVE  Apply(d, w) \in Db
  <1>1. /\ d.kept \in Seq(Seq(Rune)) /\ d.open \in Seq(Seq(Rune)) /\ d.tx \in BOOLEAN
        /\ d = [kept |-> d.kept, open |-> d.open, tx |-> d.tx]
    BY DEF Db
  <1>2. \A k, o \in Seq(Seq(Rune)) : \A x \in BOOLEAN : [kept |-> k, open |-> o, tx |-> x] \in Db
    BY DEF Db
  <1>3. d.kept \o d.open \in Seq(Seq(Rune)) /\ <<>> \in Seq(Seq(Rune))
    BY <1>1
  <1>4. CommitAll(d) = [kept |-> d.kept \o d.open, open |-> <<>>, tx |-> FALSE]
    BY DEF CommitAll
  <1>5. CommitAll(d) \in Db
    BY <1>2, <1>3, <1>4
  <1>6. [CommitAll(d) EXCEPT !.tx = TRUE] \in Db
    BY <1>5 DEF Db
  <1>7. Append(d.open, w) \in Seq(Seq(Rune)) /\ Append(d.kept, w) \in Seq(Seq(Rune))
    BY <1>1
  <1>8. [d EXCEPT !.open = Append(@, w)] \in Db /\ [d EXCEPT !.kept = Append(@, w)] \in Db
    BY <1>7 DEF Db
  <1>9. QED
    BY <1>5, <1>6, <1>8 DEF Apply

LEMMA RollbackType ==
  ASSUME NEW d \in Db
  PROVE  Rollback(d) \in Db
  <1>1. <<>> \in Seq(Seq(Rune))
    OBVIOUS
  <1>2. QED
    BY <1>1 DEF Db, Rollback

-----------------------------------------------------------------------------
(* The steps of the splitter that only read on.                            *)

Lex(r) ==
  \/ InLineComment(r) \/ InBlockComment(r)
  \/ InLiteral("single", r) \/ InLiteral("double", r)
  \/ StartComment(r) \/ OpenLiteral(r) \/ OtherRune(r)

LEMMA SplitCases == SplitStep => (\E r \in Rune : Lex(r)) \/ Cut \/ EndSplit
  BY DEF SplitStep, Lex

\* What one of them leaves alone.
Idles == UNCHANGED <<text, start, stmts, at, sent, result, serverVars, broken>>

LEMMA LexMoves ==
  ASSUME TypeOK, NEW r \in Rune, Lex(r)
  PROVE  /\ at = "split" /\ pos \in 1 .. Len(text) /\ text[pos] = r /\ Idles
         /\ pos' \in pos + 1 .. Len(text) + 1
         /\ mode' \in {"code", "line", "block", "single", "double"}
  <1>1. text \in Seq(Rune) /\ Len(text) \in Nat /\ DOMAIN text = 1 .. Len(text)
    BY TextRunes
  <1>2. pos \in 1 .. Len(text) + 1 /\ mode \in {"code", "line", "block", "single", "double"}
    BY <1>1 DEF TypeOK
  <1>3. \E m : Reads(m, r)
    BY DEF Lex, InLineComment, InBlockComment, InLiteral, StartComment, OpenLiteral, OtherRune
  <1>4. at = "split" /\ pos \in 1 .. Len(text) /\ text[pos] = r
    BY <1>1, <1>3 DEF Reads
  <1>5. Next2 # "end" => pos + 1 \in 1 .. Len(text)
    BY <1>1 DEF Next2, RuneAt
  <1>6. \A n, m : Advance(n, m) => Idles /\ pos' = pos + n /\ mode' = m
    BY DEF Advance, Idles
  <1>7. \/ Idles /\ pos' = pos + 1 /\ mode' \in {"code", "line", "block", "single", "double"}
        \/ /\ Idles /\ pos' = pos + 2 /\ mode' \in {"code", "line", "block", "single", "double"}
           /\ Next2 # "end"
    <2>1. CASE InLineComment(r)
      BY <1>6, <2>1 DEF InLineComment
    <2>2. CASE InBlockComment(r)
      BY <1>6, <2>2 DEF InBlockComment
    <2>3. CASE InLiteral("single", r)
      BY <1>6, <2>3 DEF InLiteral
    <2>4. CASE InLiteral("double", r)
      BY <1>6, <2>4 DEF InLiteral
    <2>5. CASE StartComment(r)
      <3>1. Next2 # "end"
        BY <2>5 DEF StartComment, StartsComment
      <3>2. QED
        BY <1>6, <2>5, <3>1 DEF StartComment
    <2>6. CASE OpenLiteral(r)
      BY <1>6, <2>6 DEF OpenLiteral
    <2>7. CASE OtherRune(r)
      BY <1>6, <2>7 DEF OtherRune
    <2>8. QED
      BY <2>1, <2>2, <2>3, <2>4, <2>5, <2>6, <2>7 DEF Lex
  <1>8. QED
    BY <1>1, <1>2, <1>4, <1>5, <1>7

\* What a cut is at, and what it does.
LEMMA CutMoves ==
  ASSUME TypeOK, Cut
  PROVE  /\ at = "split" /\ mode = "code" /\ pos \in 1 .. Len(text) /\ text[pos] = ";"
         /\ stmts' = Flush /\ pos' = pos + 1 /\ start' = pos + 1
         /\ UNCHANGED <<text, mode, at, sent, result, serverVars, broken>>
  <1>1. text \in Seq(Rune)
    BY TextRunes
  <1>2. DOMAIN text = 1 .. Len(text)
    BY ONLY <1>1
  <1>3. QED
    BY <1>2 DEF Cut, Reads

LEMMA NextCases ==
  ASSUME [Next]_vars
  PROVE  \/ UNCHANGED vars \/ (\E r \in Rune : Lex(r)) \/ Cut \/ EndSplit
         \/ Ping \/ Send \/ Reconnect \/ Answered \/ AnswerLost \/ Timeout \/ Close
         \/ Run \/ Refuse \/ Drop \/ Hangup
  BY SplitCases DEF Next, ExecuteStep

LEMMA InitType == Init => TypeOK /\ Order
  <1> SUFFICES ASSUME Init PROVE TypeOK /\ Order
    OBVIOUS
  <1>1. text \in Seq(Rune) /\ Len(text) \in Nat
    BY TextAssumption DEF Init
  <1>2. EmptyDb \in Db
    BY DEF EmptyDb, Db
  <1>3. <<>> \in Seq(Seq(Rune) \ {<<>>}) /\ <<>> \in Seq(Stmt) /\ <<>> \in Seq(Seq(Rune))
        /\ Len(stmts) = 0
    BY DEF Init
  <1>4. pos \in 1 .. Len(text) + 1 /\ start \in 1 .. pos /\ sent \in 0 .. Len(stmts)
    BY <1>1, <1>3 DEF Init
  <1>5. TypeOK
    BY <1>2, <1>3, <1>4 DEF Init, TypeOK
  <1>6. Order
    BY DEF Init, Order
  <1>7. QED
    BY <1>5, <1>6

LEMMA TypeStep ==
  ASSUME TypeOK, Order, [Next]_vars
  PROVE  TypeOK'
  <1> USE DEF Return, splitVars, serverVars
  <1>1. text \in Seq(Rune) /\ Len(text) \in Nat /\ Len(stmts) \in Nat
    BY TextRunes DEF TypeOK
  <1>2. CASE UNCHANGED vars
    BY <1>2 DEF vars, TypeOK
  <1>3. ASSUME NEW r \in Rune, Lex(r) PROVE TypeOK'
    <2>1. /\ Idles /\ pos \in 1 .. Len(text) /\ pos' \in pos + 1 .. Len(text) + 1
          /\ mode' \in {"code", "line", "block", "single", "double"}
      BY <1>3, LexMoves
    <2>2. start \in 1 .. pos'
      BY <1>1, <2>1 DEF TypeOK
    <2>3. pos' \in 1 .. Len(text) + 1
      BY <1>1, <2>1
    <2>4. QED
      BY <2>1, <2>2, <2>3 DEF TypeOK, Idles
  <1>4. CASE Cut
    <2>1. Flush \in Seq(Seq(Rune) \ {<<>>})
      BY FlushCases
    <2>2. pos \in 1 .. Len(text)
      <3>1. DOMAIN text = 1 .. Len(text)
        BY ONLY <1>1
      <3>2. QED
        BY <1>4, <3>1 DEF Cut, Reads
    <2>3. sent = 0 /\ stmts' = Flush /\ pos' = pos + 1 /\ start' = pos + 1 /\ sent' = sent
      BY <1>4 DEF Cut, Reads, Order
    <2>4. stmts' \in Seq(Seq(Rune) \ {<<>>}) /\ sent' \in 0 .. Len(stmts')
      BY <2>1, <2>3
    <2>5. pos' \in 1 .. Len(text) + 1 /\ start' \in 1 .. pos'
      BY ONLY <1>1, <2>2, <2>3
    <2>6. QED
      BY <1>4, <2>4, <2>5 DEF TypeOK, Cut
  <1>5. CASE EndSplit
    <2>1. Flush \in Seq(Seq(Rune) \ {<<>>})
      BY FlushCases
    <2>2. sent = 0
      BY <1>5 DEF EndSplit, Order
    <2>3. stmts' \in Seq(Seq(Rune) \ {<<>>}) /\ sent' \in 0 .. Len(stmts')
      BY <1>5, <2>1, <2>2 DEF EndSplit
    <2>4. pos' \in 1 .. Len(text) + 1 /\ start' \in 1 .. pos'
      BY <1>1, <1>5 DEF EndSplit, TypeOK
    <2>5. at' \in {"exec", "close"} /\ result' \in {"none", "failed"}
          /\ (result' = "none") = (at' = "exec")
      BY <1>5 DEF EndSplit, TypeOK
    <2>6. QED
      BY <1>5, <2>3, <2>4, <2>5 DEF TypeOK, EndSplit
  <1>6. CASE Ping
    BY <1>6 DEF Ping, TypeOK
  <1>7. CASE Send
    <2>1. sent < Len(stmts) /\ sent + 1 \in 1 .. Len(stmts)
      BY <1>1, <1>7 DEF Send, Order, TypeOK
    <2>2. stmts[sent + 1] \in Seq(Rune)
      BY <2>1 DEF TypeOK
    <2>3. Found(stmts[sent + 1]) \in Seq(Stmt)
      BY <2>2, FoundType
    <2>4. sent' \in 0 .. Len(stmts)
      BY <1>1, <1>7, <2>1 DEF Send
    <2>5. QED
      BY <1>7, <2>3, <2>4 DEF Send, TypeOK
  <1>8. CASE Reconnect
    <2>1. Rollback(db) \in Db
      BY RollbackType DEF TypeOK
    <2>2. QED
      BY <1>8, <2>1 DEF Reconnect, TypeOK
  <1>9. CASE Answered
    <2>1. \/ at' = "close" /\ result' \in {"success", "failed"}
          \/ at' = "exec" /\ result' = result /\ result = "none"
      BY <1>9 DEF Answered, TypeOK
    <2>2. QED
      BY <1>9, <2>1 DEF Answered, TypeOK
  <1>10. CASE AnswerLost
    BY <1>10 DEF AnswerLost, TypeOK
  <1>11. CASE Timeout
    BY <1>11 DEF Timeout, TypeOK
  <1>12. CASE Close
    BY <1>12 DEF Close, TypeOK
  <1>13. CASE Run
    <2>1. Head(packet) \in Stmt /\ Tail(packet) \in Seq(Stmt)
      BY <1>13 DEF Run, TypeOK
    <2>2. Head(packet).words \in Seq(Rune)
      BY <2>1 DEF Stmt
    <2>3. Apply(db, Head(packet).words) \in Db
      BY <2>2, ApplyType DEF TypeOK
    <2>4. Append(ran, Head(packet).words) \in Seq(Seq(Rune))
      BY <2>2 DEF TypeOK
    <2>5. QED
      BY <1>13, <2>1, <2>3, <2>4 DEF Run, TypeOK
  <1>14. CASE Refuse
    <2>1. Head(packet) \in Stmt /\ <<>> \in Seq(Stmt)
      BY <1>14 DEF Refuse, TypeOK
    <2>2. Head(packet).closed \in BOOLEAN
      BY <2>1 DEF Stmt
    <2>3. QED
      BY <1>14, <2>1, <2>2 DEF Refuse, TypeOK
  <1>15. CASE Drop
    BY <1>15 DEF Drop, TypeOK
  <1>16. CASE Hangup
    <2>1. Rollback(db) \in Db /\ <<>> \in Seq(Stmt)
      BY RollbackType DEF TypeOK
    <2>2. QED
      BY <1>16, <2>1 DEF Hangup, TypeOK
  <1>17. QED
    BY <1>2, <1>3, <1>4, <1>5, <1>6, <1>7, <1>8, <1>9, <1>10, <1>11, <1>12, <1>13, <1>14,
       <1>15, <1>16, SplitCases DEF Next, ExecuteStep

LEMMA OrderStep ==
  ASSUME TypeOK, Order, [Next]_vars
  PROVE  Order'
  <1> USE DEF Return, splitVars, serverVars
  <1>1. Len(stmts) \in Nat
    BY DEF TypeOK
  <1>2. CASE UNCHANGED vars
    BY <1>2 DEF vars, Order
  <1>3. ASSUME NEW r \in Rune, Lex(r) PROVE Order'
    BY <1>3, LexMoves DEF Idles, Order
  <1>4. CASE Cut
    BY <1>4 DEF Cut, Reads, Order
  <1>5. CASE EndSplit
    <2>1. stmts' \in Seq(Seq(Rune) \ {<<>>})
      BY <1>5, FlushCases DEF EndSplit
    <2>2. stmts' # <<>> => 0 < Len(stmts')
      BY <2>1
    <2>3. QED
      BY <1>5, <2>2 DEF EndSplit, Order
  <1>6. CASE Ping
    BY <1>6 DEF Ping, Order
  <1>7. CASE Send
    <2>1. result = "none"
      BY <1>7 DEF Send, TypeOK
    <2>2. QED
      BY <1>7, <2>1 DEF Send, Order
  <1>8. CASE Reconnect
    BY <1>8 DEF Reconnect, Order
  <1>9. CASE Answered
    BY <1>9 DEF Answered, Order
  <1>10. CASE AnswerLost \/ Timeout \/ Close
    BY <1>10 DEF AnswerLost, Timeout, Close, Order
  <1>11. CASE Run
    BY <1>11 DEF Run, Order
  <1>12. CASE Refuse
    BY <1>12 DEF Refuse, Order
  <1>13. CASE Drop \/ Hangup
    BY <1>13 DEF Drop, Hangup, Order
  <1>14. QED
    BY <1>2, <1>3, <1>4, <1>5, <1>6, <1>7, <1>8, <1>9, <1>10, <1>11, <1>12, <1>13,
       SplitCases DEF Next, ExecuteStep

-----------------------------------------------------------------------------
(* The splitter and the server, rune by rune.                              *)

LEMMA NoDashesStep ==
  ASSUME TypeOK, Order, NoDashes, [Next]_vars
  PROVE  NoDashes'
  <1> USE DEF Return, splitVars, serverVars
  <1>1. text \in Seq(Rune) /\ Len(text) \in Nat /\ DOMAIN text = 1 .. Len(text) /\ pos \in Int
    BY TextRunes DEF TypeOK
  <1> DEFINE Free(i) == /\ ~ (RuneAt(text, i - 1) = "-" /\ RuneAt(text, i) = "-")
                        /\ ~ (RuneAt(text, i - 2) = "-" /\ RuneAt(text, i - 1) = "-")
  <1>2. SUFFICES ASSUME at' = "split", mode' = "code" PROVE Free(pos') /\ text' = text
    BY DEF NoDashes
  <1>3. at = "split" /\ mode = "code" => Free(pos)
    BY DEF NoDashes
  <1>4. \A i \in 1 .. Len(text) : RuneAt(text, i) = text[i]
    BY <1>1 DEF RuneAt
  <1>5. \A i \in Int : (i + 1) - 1 = i /\ (i + 1) - 2 = i - 1 /\ (i + 2) - 1 = i + 1
    OBVIOUS
  <1>6. CASE UNCHANGED vars
    BY <1>2, <1>3, <1>6 DEF vars
  <1>7. ASSUME NEW r \in Rune, Lex(r) PROVE Free(pos') /\ text' = text
    <2>1. at = "split" /\ pos \in 1 .. Len(text) /\ RuneAt(text, pos) = r /\ text' = text
      BY <1>4, <1>7, LexMoves DEF Idles
    <2>2. CASE InLineComment(r)
      <3>1. pos' = pos + 1 /\ r = "nl"
        BY <1>2, <2>2 DEF InLineComment, Advance
      <3>2. QED
        BY <1>1, <1>5, <2>1, <3>1
    <2>3. CASE InBlockComment(r)
      <3>1. pos' = pos + 2 /\ RuneAt(text, pos + 1) = "/"
        BY <1>2, <2>3 DEF InBlockComment, Advance, Next2
      <3>2. QED
        BY <1>1, <1>5, <2>1, <3>1
    <2>4. ASSUME NEW m \in {"single", "double"}, InLiteral(m, r)
          PROVE  Free(pos') /\ text' = text
      <3>1. pos' = pos + 1 /\ r = Closing[m]
        BY <1>2, <2>4 DEF InLiteral, Advance
      <3>2. r \in {"sq", "dq"}
        BY <2>4, <3>1 DEF Closing
      <3>3. QED
        BY <1>1, <1>5, <2>1, <3>1, <3>2
    <2>5. CASE StartComment(r) \/ OpenLiteral(r)
      BY <1>2, <2>5 DEF StartComment, OpenLiteral, Advance
    <2>6. CASE OtherRune(r)
      <3>1. pos' = pos + 1 /\ mode = "code" /\ ~ (r = "-" /\ RuneAt(text, pos + 1) = "-")
        BY <2>6 DEF OtherRune, Reads, Advance, StartsComment, Next2
      <3>2. Free(pos)
        BY <1>3, <2>1, <3>1
      <3>3. QED
        BY <1>1, <1>5, <2>1, <3>1, <3>2
    <2>7. QED
      BY <1>7, <2>2, <2>3, <2>4, <2>5, <2>6 DEF Lex
  <1>8. CASE Cut
    <2>1. pos' = pos + 1 /\ pos \in 1 .. Len(text) /\ text[pos] = ";" /\ text' = text
      BY <1>1, <1>8 DEF Cut, Reads
    <2>2. QED
      BY <1>1, <1>4, <1>5, <2>1
  <1>9. CASE Ping
    <2>1. pos' = 1 /\ text' = text
      BY <1>9 DEF Ping, Order
    <2>2. RuneAt(text, 1 - 1) = "end" /\ RuneAt(text, 1 - 2) = "end"
      BY <1>1 DEF RuneAt
    <2>3. QED
      BY <2>1, <2>2
  <1>10. CASE Run \/ Refuse \/ Drop \/ Hangup
    <2>1. UNCHANGED <<text, pos, mode, at>>
      BY <1>10 DEF Run, Refuse, Drop, Hangup
    <2>2. QED
      BY <1>2, <1>3, <2>1
  <1>11. at # "split" => ~ (Send \/ Reconnect \/ Answered \/ AnswerLost \/ Timeout \/ Close)
                         \/ at' # "split"
    BY DEF Send, Reconnect, Answered, AnswerLost, Timeout, Close
  <1>12. at = "split" => ~ (Send \/ Reconnect \/ Answered \/ AnswerLost \/ Timeout \/ Close)
    BY DEF Send, Reconnect, Answered, AnswerLost, Timeout, Close
  <1>13. ~EndSplit
    BY <1>2 DEF EndSplit
  <1>14. QED
    BY <1>2, <1>6, <1>7, <1>8, <1>9, <1>10, <1>11, <1>12, <1>13, SplitCases
       DEF Next, ExecuteStep

LEMMA InStepLex ==
  ASSUME TypeOK, InStep, ReadAlike(text), NEW r \in Rune, Lex(r)
  PROVE  /\ Reading(text, pos' - 1).mode = ServerMode(mode')
         /\ Reading(text, pos' - 1).pair => pos' = Len(text) + 1
  <1> DEFINE s == Reading(text, pos - 1)
             s1 == Reading(text, pos)
             s2 == Reading(text, pos + 1)
             m1 == s1.mode
             Good(i, m) == /\ Reading(text, i - 1).mode = ServerMode(m)
                           /\ Reading(text, i - 1).pair => i = Len(text) + 1
  <1>1. text \in Seq(Rune) /\ Len(text) \in Nat /\ DOMAIN text = 1 .. Len(text)
    BY TextRunes
  <1>2. at = "split" /\ pos \in 1 .. Len(text) /\ text[pos] = r
    BY LexMoves
  <1>3. (pos + 1) - 1 = pos /\ (pos + 2) - 1 = pos + 1 /\ pos # Len(text) + 1
        /\ pos - 1 \in 0 .. Len(text) /\ pos \in 0 .. Len(text)
    BY <1>1, <1>2
  <1>4. s.mode = ServerMode(mode) /\ ~s.pair
    BY <1>2, <1>3 DEF InStep
  <1>5. s \in LexState /\ s1 \in LexState
    BY <1>1, <1>3, ReadingType
  <1>6. s1 = ReadRune(text, s, pos)
    BY <1>1, <1>2, ReadingDef
  <1>7. Next2 # "end" => /\ pos + 1 \in 1 .. Len(text) /\ text[pos + 1] = Next2
                         /\ s2 = ReadRune(text, s1, pos + 1)
    <2>1. Next2 # "end" => pos + 1 \in 1 .. Len(text) /\ text[pos + 1] = Next2
      BY <1>1 DEF Next2, RuneAt
    <2>2. pos + 1 \in 1 .. Len(text) => s2 = ReadRune(text, s1, pos + 1)
      BY <1>1, <1>3, ReadingDef
    <2>3. QED
      BY <2>1, <2>2
  <1>8. Next2 = "end" => pos + 1 = Len(text) + 1
    <2>1. SUFFICES ASSUME pos < Len(text) PROVE Next2 # "end"
      BY <1>1, <1>2
    <2>2. pos + 1 \in DOMAIN text
      BY <1>1, <1>2, <2>1
    <2>3. text[pos + 1] \in Rune
      BY <1>1, <2>2
    <2>4. QED
      BY <2>2, <2>3 DEF Next2, RuneAt, Rune
  <1>9. r \notin {"#", "tick"} /\ (r = "-" /\ Next2 = "-" => RuneAt(text, pos + 2) \in Blank \cup {"end"})
    <2>1. r \in Range(text)
      BY <1>1, <1>2 DEF Range
    <2>2. (pos + 1) + 1 = pos + 2 /\ pos \in DOMAIN text
      BY <1>1, <1>2
    <2>3. r = "-" /\ Next2 = "-" => RuneAt(text, pos + 2) \in Blank \cup {"end"}
      BY <1>2, <2>2 DEF ReadAlike, Next2
    <2>4. QED
      BY <2>1, <2>3 DEF ReadAlike
  <1> HIDE DEF s, s1, s2
  <1>10. SUFFICES Good(pos', mode')
    OBVIOUS
  <1>11. ASSUME NEW m, pos' = pos + 1, s1.mode = ServerMode(m), ~s1.pair, mode' = m
         PROVE  Good(pos', mode')
    BY <1>3, <1>11 DEF s1
  <1>12. ASSUME NEW m, pos' = pos + 2, s2.mode = ServerMode(m), ~s2.pair, mode' = m
         PROVE  Good(pos', mode')
    BY <1>3, <1>12 DEF s2
  <1> HIDE DEF Good
  <1>13. CASE InLineComment(r)
    <2>1. s.mode = "dash"
      BY <1>4, <1>13 DEF InLineComment, Reads, ServerMode
    <2>2. ~s1.pair
      BY <1>4, <1>5, <1>6, <2>1, ReadLine
    <2>3. /\ text[pos] = "nl" => s1.mode = "code"
          /\ text[pos] # "nl" => s1.mode = s.mode
      BY <1>4, <1>5, <1>6, <2>1, ReadLineMode
    <2>4. pos' = pos + 1 /\ mode' = IF r = "nl" THEN "code" ELSE "line"
      BY <1>13 DEF InLineComment, Advance
    <2>5. s1.mode = ServerMode(mode')
      BY <1>2, <2>1, <2>3, <2>4 DEF ServerMode
    <2>6. QED
      BY <1>11, <2>2, <2>4, <2>5
  <1>14. CASE InBlockComment(r)
    <2>1. s.mode = "block"
      BY <1>4, <1>14 DEF InBlockComment, Reads, ServerMode
    <2>2. /\ s1.pair <=> r = "*" /\ Next2 = "/"
          /\ r = "*" /\ Next2 = "/" => s1.mode = "code"
          /\ ~(r = "*" /\ Next2 = "/") => s1.mode = "block"
      <3>1. /\ ReadRune(text, s, pos).pair <=> text[pos] = "*" /\ RuneAt(text, pos + 1) = "/"
            /\ text[pos] = "*" /\ RuneAt(text, pos + 1) = "/"
                 => ReadRune(text, s, pos).mode = "code"
            /\ ~(text[pos] = "*" /\ RuneAt(text, pos + 1) = "/")
                 => ReadRune(text, s, pos).mode = "block"
        BY <1>4, <1>5, <2>1, ReadBlock
      <3>2. QED
        BY <1>2, <1>6, <3>1 DEF Next2
    <2>3. CASE r = "*" /\ Next2 = "/"
      <3>1. pos' = pos + 2 /\ mode' = "code"
        BY <1>14, <2>3 DEF InBlockComment, Advance
      <3>2. s2 = ReadRune(text, s1, pos + 1)
        BY <1>7, <2>3
      <3>3. s2.mode = s1.mode /\ ~s2.pair
        BY <1>5, <2>2, <2>3, <3>2, ReadSecond
      <3>4. s2.mode = ServerMode("code")
        BY <2>2, <2>3, <3>3 DEF ServerMode
      <3>5. QED
        BY <1>12, <3>1, <3>3, <3>4
    <2>4. CASE ~(r = "*" /\ Next2 = "/")
      <3>1. pos' = pos + 1 /\ mode' = "block"
        BY <1>14, <2>4 DEF InBlockComment, Advance
      <3>2. s1.mode = ServerMode("block")
        BY <2>2, <2>4 DEF ServerMode
      <3>3. QED
        BY <1>11, <2>2, <2>4, <3>1, <3>2
    <2>5. QED
      BY <2>3, <2>4
  <1>15. ASSUME NEW m \in {"single", "double"}, InLiteral(m, r) PROVE Good(pos', mode')
    <2>1. s.mode = m
      BY <1>4, <1>15 DEF InLiteral, Reads, ServerMode
    <2>2. /\ s1.pair <=> r = "bs"
          /\ r = Closing[m] => s1.mode = "code"
          /\ r # Closing[m] => s1.mode = m
      <3>1. s.mode \in {"single", "double", "back"} /\ s.mode # "back"
        BY <2>1
      <3>2. /\ ReadRune(text, s, pos).pair <=> s.mode # "back" /\ text[pos] = "bs"
            /\ text[pos] = Closing[s.mode] => ReadRune(text, s, pos).mode = "code"
            /\ text[pos] # Closing[s.mode] => ReadRune(text, s, pos).mode = s.mode
        BY <1>4, <1>5, <3>1, ReadLiteral
      <3>3. QED
        BY <1>2, <1>6, <2>1, <3>1, <3>2
    <2>3. Closing[m] # "bs" /\ ServerMode(m) = m /\ ServerMode("code") = "code"
      BY DEF Closing, ServerMode
    <2>4. CASE r = "bs" /\ Next2 # "end"
      <3>1. pos' = pos + 2 /\ mode' = m
        BY <1>15, <2>4 DEF InLiteral, Advance
      <3>2. s2 = ReadRune(text, s1, pos + 1)
        BY <1>7, <2>4
      <3>3. s2.mode = s1.mode /\ ~s2.pair
        BY <1>5, <2>2, <2>4, <3>2, ReadSecond
      <3>4. s2.mode = ServerMode(m)
        BY <2>2, <2>3, <2>4, <3>3
      <3>5. QED
        BY <1>12, <3>1, <3>3, <3>4
    <2>5. CASE r = "bs" /\ Next2 = "end"
      <3>1. pos' = pos + 1 /\ mode' = m
        BY <1>15, <2>3, <2>5 DEF InLiteral, Advance
      <3>2. s1.mode = ServerMode(m) /\ pos' = Len(text) + 1
        BY <1>8, <2>2, <2>3, <2>5, <3>1
      <3>3. QED
        BY <1>3, <3>1, <3>2 DEF Good, s1
    <2>6. CASE r # "bs"
      <3>1. pos' = pos + 1 /\ mode' = IF r = Closing[m] THEN "code" ELSE m
        BY <1>15, <2>6 DEF InLiteral, Advance
      <3>2. s1.mode = ServerMode(mode') /\ ~s1.pair
        BY <2>2, <2>3, <2>6, <3>1
      <3>3. QED
        BY <1>11, <3>1, <3>2
    <2>7. QED
      BY <2>4, <2>5, <2>6
  <1>16. ASSUME Reads("code", r)
         PROVE  /\ s.mode = "code"
                /\ r # ";" /\ r \notin Blank =>
                     s1.mode = OpenedAt(text, pos) /\ (s1.pair <=> OpenedAt(text, pos) = "block")
                /\ OpenedAt(text, pos) = Opened(r, Next2, RuneAt(text, pos + 2))
    <2>1. s.mode = "code"
      BY <1>4, <1>16 DEF Reads, ServerMode
    <2>2. ASSUME r # ";", r \notin Blank
          PROVE  s1.mode = OpenedAt(text, pos) /\ (s1.pair <=> OpenedAt(text, pos) = "block")
      <3>1. text[pos] # ";" /\ text[pos] \notin Blank
        BY <1>2, <2>2
      <3>2. ReadRune(text, s, pos).mode = OpenedAt(text, pos)
        BY <1>4, <1>5, <2>1, <3>1, ReadCode
      <3>3. ReadRune(text, s, pos).pair <=> OpenedAt(text, pos) = "block"
        BY <1>4, <1>5, <2>1, <3>1, ReadCode
      <3>4. QED
        BY <1>6, <3>2, <3>3
    <2>3. OpenedAt(text, pos) = Opened(r, Next2, RuneAt(text, pos + 2))
      BY <1>2 DEF OpenedAt, Next2
    <2>4. QED
      BY <2>1, <2>2, <2>3
  <1>17. CASE StartComment(r)
    <2>1. Reads("code", r) /\ Next2 # "end" /\ r \in {"-", "/"} /\ r # ";" /\ r \notin Blank
          /\ (r = "-" => Next2 = "-") /\ (r = "/" => Next2 = "*") /\ pos' = pos + 2
          /\ mode' = IF r = "-" THEN "line" ELSE "block"
      BY <1>17 DEF StartComment, StartsComment, Advance, Blank
    <2>2. s2 = ReadRune(text, s1, pos + 1) /\ text[pos + 1] = Next2
      BY <1>7, <2>1
    <2>3. CASE r = "-"
      <3>1. OpenedAt(text, pos) = "dash"
        BY <1>9, <1>16, <2>1, <2>3 DEF Opened
      <3>2. s1.mode = "dash" /\ ~s1.pair
        BY <1>16, <2>1, <3>1
      <3>3. text[pos + 1] # "nl"
        BY <2>1, <2>2, <2>3
      <3>4. s2.mode = s1.mode
        BY <1>5, <2>2, <3>2, <3>3, ReadLineMode
      <3>5. ~s2.pair
        BY <1>5, <2>2, <3>2, ReadLine
      <3>6. s2.mode = ServerMode("line")
        BY <3>2, <3>4 DEF ServerMode
      <3>7. QED
        BY <1>12, <2>1, <2>3, <3>5, <3>6
    <2>4. CASE r = "/"
      <3>1. OpenedAt(text, pos) = "block"
        BY <1>16, <2>1, <2>4 DEF Opened
      <3>2. s1.mode = "block" /\ s1.pair
        BY <1>16, <2>1, <3>1
      <3>3. s2.mode = s1.mode /\ ~s2.pair
        BY <1>5, <2>2, <3>2, ReadSecond
      <3>4. s2.mode = ServerMode("block")
        BY <3>2, <3>3 DEF ServerMode
      <3>5. QED
        BY <1>12, <2>1, <2>4, <3>3, <3>4
    <2>5. QED
      BY <2>1, <2>3, <2>4
  <1>18. CASE OpenLiteral(r)
    <2>1. Reads("code", r) /\ r \in {"sq", "dq"} /\ r # ";" /\ r \notin Blank /\ pos' = pos + 1
          /\ mode' = IF r = "sq" THEN "single" ELSE "double"
      BY <1>18 DEF OpenLiteral, Advance, Blank
    <2>2. OpenedAt(text, pos) = mode'
      BY <1>16, <2>1 DEF Opened
    <2>3. s1.mode = ServerMode(mode') /\ ~s1.pair
      BY <1>16, <2>1, <2>2 DEF ServerMode
    <2>4. QED
      BY <1>11, <2>1, <2>3
  <1>19. CASE OtherRune(r)
    <2>1. Reads("code", r) /\ r \notin {";", "sq", "dq"} /\ ~StartsComment(r) /\ pos' = pos + 1
          /\ mode' = "code"
      BY <1>19 DEF OtherRune, Advance
    <2>2. s1.mode = "code" /\ ~s1.pair
      <3>1. CASE r \in Blank
        <4>1. ReadRune(text, s, pos) = s
          BY <1>2, <1>4, <1>5, <1>16, <2>1, <3>1, ReadBlank
        <4>2. QED
          BY <1>4, <1>6, <1>16, <2>1, <4>1
      <3>2. CASE r \notin Blank
        <4>1. Opened(r, Next2, RuneAt(text, pos + 2)) = "code"
          BY <1>9, <2>1 DEF Opened, StartsComment
        <4>2. QED
          BY <1>16, <2>1, <3>2, <4>1
      <3>3. QED
        BY <3>1, <3>2
    <2>3. s1.mode = ServerMode("code")
      BY <2>2 DEF ServerMode
    <2>4. QED
      BY <1>11, <2>1, <2>2, <2>3
  <1>20. QED
    BY <1>13, <1>14, <1>15, <1>17, <1>18, <1>19 DEF Lex

LEMMA InStepStep ==
  ASSUME TypeOK, Order, InStep, [Next]_vars
  PROVE  InStep'
  <1> USE DEF Return, splitVars, serverVars
  <1>1. text \in Seq(Rune) /\ Len(text) \in Nat /\ DOMAIN text = 1 .. Len(text)
    BY TextRunes
  <1>2. ASSUME text' = text, at' = "split", ReadAlike(text)
        PROVE  /\ Reading(text, pos' - 1).mode = ServerMode(mode')
               /\ Reading(text, pos' - 1).pair => pos' = Len(text) + 1
    <2> DEFINE Good(i, m) == /\ Reading(text, i - 1).mode = ServerMode(m)
                             /\ Reading(text, i - 1).pair => i = Len(text) + 1
    <2> SUFFICES Good(pos', mode')
      OBVIOUS
    <2>1. at = "split" => Good(pos, mode)
      BY <1>2 DEF InStep
    <2>2. CASE UNCHANGED <<pos, mode, at>>
      BY <1>2, <2>1, <2>2
    <2>3. ASSUME NEW r \in Rune, Lex(r) PROVE Good(pos', mode')
      BY <1>2, <2>3, InStepLex
    <2>4. CASE Cut
      <3> DEFINE s == Reading(text, pos - 1)
      <3>1. /\ pos \in 1 .. Len(text) /\ text[pos] = ";" /\ mode = "code" /\ at = "split"
            /\ pos' = pos + 1 /\ mode' = "code"
        BY <2>4, CutMoves
      <3>9. pos \in 1 .. Len(text) /\ Len(text) \in Nat
        BY <1>1, <3>1
      <3>2. pos - 1 \in 0 .. Len(text) /\ (pos + 1) - 1 = pos /\ pos # Len(text) + 1
        BY ONLY <3>9
      <3>3. s \in LexState /\ Reading(text, pos) = ReadRune(text, s, pos)
        BY <1>1, <3>1, <3>2, ReadingType, ReadingDef
      <3>4. s.mode = "code" /\ ~s.pair
        BY <2>1, <3>1, <3>2 DEF ServerMode
      <3> HIDE DEF s
      <3>5. ReadRune(text, s, pos).mode = "code"
        BY <3>1, <3>3, <3>4, ReadSemicolon
      <3>6. ReadRune(text, s, pos).pair = FALSE
        BY <3>1, <3>3, <3>4, ReadSemicolon
      <3>7. Reading(text, pos).mode = ServerMode("code") /\ ~Reading(text, pos).pair
        BY <3>3, <3>5, <3>6 DEF ServerMode
      <3>8. QED
        BY <3>1, <3>2, <3>7
    <2>5. CASE Ping
      <3>1. pos' = 1 /\ mode' = "code"
        BY <2>5 DEF Ping, Order
      <3>2. Reading(text, 0) = Start /\ 1 - 1 = 0
        BY <1>1, ReadingDef
      <3>3. Good(1, "code")
        BY <3>2 DEF Start, ServerMode
      <3>4. QED
        BY <3>1, <3>3
    <2> HIDE DEF Good
    <2>6. Run \/ Refuse \/ Drop \/ Hangup => UNCHANGED <<pos, mode, at>>
      BY DEF Run, Refuse, Drop, Hangup
    <2>7. ~ (Send \/ Reconnect \/ Answered \/ AnswerLost \/ Timeout \/ Close \/ EndSplit)
      BY <1>2 DEF Send, Reconnect, Answered, AnswerLost, Timeout, Close, EndSplit
    <2>8. QED
      <3>1. UNCHANGED vars => UNCHANGED <<pos, mode, at>>
        BY DEF vars
      <3>2. \/ UNCHANGED <<pos, mode, at>> \/ (\E r \in Rune : Lex(r)) \/ Cut \/ Ping
        BY <2>6, <2>7, <3>1, NextCases
      <3>3. QED
        BY <2>2, <2>3, <2>4, <2>5, <3>2
  <1>3. text' = text
    <2>1. (\E r \in Rune : Lex(r)) => text' = text
      BY LexMoves DEF Idles
    <2>2. QED
      BY <2>1, SplitCases
         DEF Next, ExecuteStep, vars, Cut, EndSplit, Ping, Send, Reconnect, Answered,
             AnswerLost, Timeout, Close, Run, Refuse, Drop, Hangup
  <1>4. QED
    BY <1>2, <1>3 DEF InStep

LEMMA BlankSoFarStep ==
  ASSUME TypeOK, Order, BlankSoFar, [Next]_vars
  PROVE  BlankSoFar'
  <1> USE DEF Return, splitVars, serverVars
  <1>1. text \in Seq(Rune) /\ Len(text) \in Nat /\ DOMAIN text = 1 .. Len(text)
    BY TextRunes
  <1>2. CASE UNCHANGED <<text, start, stmts, at>>
    BY <1>2 DEF BlankSoFar
  <1>3. (\E r \in Rune : Lex(r)) => UNCHANGED <<text, start, stmts, at>>
    BY LexMoves DEF Idles
  <1>4. CASE Cut
    <2>1. /\ pos \in 1 .. Len(text) /\ text[pos] = ";" /\ at = "split"
          /\ start' = pos + 1 /\ stmts' = Flush /\ text' = text
      BY <1>4, CutMoves
    <2>10. start' - 1 = pos
      <3>1. start' = pos + 1
        BY <2>1
      <3>2. pos \in Int
        BY <1>1 DEF TypeOK
      <3>3. QED
        BY ONLY <3>1, <3>2
    <2>2. SUFFICES ASSUME stmts' = <<>> PROVE \A i \in 1 .. pos : text[i] \in Blank \cup {";"}
      BY <2>1, <2>10 DEF BlankSoFar
    <2>3. PICK q : q = TrimSpace(SubSeq(text, start, pos - 1))
      OBVIOUS
    <2>4. /\ q = <<>> => Flush = stmts
          /\ q # <<>> => Flush = Append(stmts, q)
          /\ start \in 1 .. Len(text) + 1 /\ pos - 1 \in start - 1 .. Len(text)
      BY <2>3, FlushCases
    <2>5. q = <<>> /\ stmts = <<>>
      <3>1. Append(stmts, q) # <<>>
        <4>1. stmts \in Seq(Seq(Rune) \ {<<>>})
          BY DEF TypeOK
        <4>2. Len(Append(stmts, q)) = Len(stmts) + 1 /\ Len(stmts) \in Nat
          BY ONLY <4>1
        <4>3. QED
          BY ONLY <4>2
      <3>2. QED
        BY <2>1, <2>2, <2>4, <3>1
    <2>6. \A i \in start .. pos - 1 : text[i] \in Blank
      BY <1>1, <2>3, <2>4, <2>5, TrimPiece
    <2>7. \A i \in 1 .. start - 1 : text[i] \in Blank \cup {";"}
      BY <2>1, <2>5 DEF BlankSoFar
    <2>8. ASSUME NEW i \in 1 .. pos PROVE text[i] \in Blank \cup {";"}
      <3>1. i \in 1 .. start - 1 \/ i \in start .. pos - 1 \/ i = pos
        <4>1. start \in Int /\ pos \in Int
          BY <1>1, <2>4 DEF TypeOK
        <4>2. QED
          BY ONLY <4>1, i \in 1 .. pos
      <3>2. QED
        BY <2>1, <2>6, <2>7, <3>1
    <2>9. QED
      BY <2>8
  <1>5. CASE Ping
    <2>1. start' = 1 /\ 1 .. 1 - 1 = {}
      BY <1>5 DEF Ping, Order
    <2>2. QED
      BY <2>1 DEF BlankSoFar
  <1>6. Run \/ Refuse \/ Drop \/ Hangup => UNCHANGED <<text, start, stmts, at>>
    BY DEF Run, Refuse, Drop, Hangup
  <1>7. Send \/ Reconnect \/ Answered \/ AnswerLost \/ Timeout \/ Close \/ EndSplit
          => at' # "split"
    BY DEF Send, Reconnect, Answered, AnswerLost, Timeout, Close, EndSplit
  <1>8. at' # "split" => BlankSoFar'
    BY DEF BlankSoFar
  <1>9. QED
    BY <1>2, <1>3, <1>4, <1>5, <1>6, <1>7, <1>8, NextCases DEF vars

LEMMA ReasonStep ==
  ASSUME TypeOK, Reason, [Next]_vars
  PROVE  Reason'
  <1> USE DEF Return, splitVars, serverVars, Reason
  <1>1. (\E r \in Rune : Lex(r)) => UNCHANGED <<at, conn, broken>>
    BY LexMoves DEF Idles
  <1>2. Cut => UNCHANGED <<at, conn, broken>>
    BY DEF Cut
  <1>3. EndSplit => at = "split" /\ UNCHANGED <<conn, broken>>
    BY DEF EndSplit
  <1>4. Answered => at = "wait" /\ UNCHANGED <<conn, broken>>
    BY DEF Answered
  <1>5. QED
    BY <1>1, <1>2, <1>3, <1>4, SplitCases
       DEF Next, ExecuteStep, vars, Ping, Send, Reconnect, AnswerLost, Timeout, Close,
           Run, Refuse, Drop, Hangup

-----------------------------------------------------------------------------
(* What the statements do.                                                 *)

\* g gives the databases after the first n statements.
EffectTo(g, w, n) ==
  g = [j \in 0 .. n |-> IF j = 0 THEN EmptyDb ELSE Apply(g[j - 1], w[j])]

\* The effects of the first n statements, for every n, in one function.
LEMMA EffectExists ==
  ASSUME NEW w, Len(w) \in Nat
  PROVE  \E g : /\ EffectTo(g, w, Len(w)) /\ Effect(w) = g[Len(w)]
                /\ g[0] = EmptyDb
                /\ \A j \in 1 .. Len(w) : g[j] = Apply(g[j - 1], w[j])
  <1> DEFINE S == {n \in 0 .. Len(w) : \E g : EffectTo(g, w, n)}
             after == CHOOSE g : EffectTo(g, w, Len(w))
  <1>1. \A i \in 0 .. Len(w) : i \in S
    <2>1. 0 \in S
      <3>1. EffectTo([j \in 0 .. 0 |-> EmptyDb], w, 0)
        BY DEF EffectTo
      <3>2. QED
        BY <3>1
    <2>2. ASSUME NEW i \in 1 .. Len(w), i - 1 \in S PROVE i \in S
      <3>1. PICK g : EffectTo(g, w, i - 1)
        BY <2>2
      <3> DEFINE h == [j \in 0 .. i |-> IF j = i THEN Apply(g[i - 1], w[i]) ELSE g[j]]
      <3>2. \A j \in 0 .. i - 1 : g[j] = IF j = 0 THEN EmptyDb ELSE Apply(g[j - 1], w[j])
        BY <3>1 DEF EffectTo
      <3>3. \A j \in 0 .. i : h[j] = IF j = 0 THEN EmptyDb ELSE Apply(h[j - 1], w[j])
        BY <3>2
      <3>4. EffectTo(h, w, i)
        BY <3>3 DEF EffectTo
      <3> HIDE DEF h
      <3>5. QED
        BY <3>4
    <2> HIDE DEF S
    <2>3. QED
      BY <2>1, <2>2, Induction
  <1>2. Len(w) \in 0 .. Len(w)
    OBVIOUS
  <1>3. \E g : EffectTo(g, w, Len(w))
    BY <1>1, <1>2
  <1>4. EffectTo(after, w, Len(w))
    BY <1>3
  <1>5. Effect(w) = after[Len(w)]
    BY DEF Effect, EffectTo
  <1> HIDE DEF after
  <1>6. \A j \in 0 .. Len(w) : after[j] = IF j = 0 THEN EmptyDb ELSE Apply(after[j - 1], w[j])
    BY <1>4 DEF EffectTo
  <1>7. QED
    BY <1>4, <1>5, <1>6

\* What nothing does, and one statement more.
LEMMA EffectDef ==
  /\ Effect(<<>>) = EmptyDb
  /\ \A w \in Seq(Seq(Rune)) : \A x \in Seq(Rune) : Effect(Append(w, x)) = Apply(Effect(w), x)
  <1>1. Effect(<<>>) = EmptyDb
    <2>1. Len(<<>>) = 0
      OBVIOUS
    <2>2. QED
      BY <2>1, EffectExists
  <1>2. ASSUME NEW w \in Seq(Seq(Rune)), NEW x \in Seq(Rune)
        PROVE  Effect(Append(w, x)) = Apply(Effect(w), x)
    <2> DEFINE v == Append(w, x)
               n == Len(w)
    <2>1. /\ n \in Nat /\ Len(v) = n + 1 /\ v[n + 1] = x /\ \A j \in 1 .. n : v[j] = w[j]
          /\ Len(v) \in Nat
      OBVIOUS
    <2> HIDE DEF v
    <2>2. PICK g : /\ Effect(w) = g[n] /\ g[0] = EmptyDb
                   /\ \A j \in 1 .. n : g[j] = Apply(g[j - 1], w[j])
      BY <2>1, EffectExists
    <2>3. PICK h : /\ Effect(v) = h[n + 1] /\ h[0] = EmptyDb
                   /\ \A j \in 1 .. n + 1 : h[j] = Apply(h[j - 1], v[j])
      BY <2>1, EffectExists
    <2> DEFINE S == {j \in 0 .. n : g[j] = h[j]}
    <2> HIDE DEF n
    <2>4. 0 \in S
      BY <2>1, <2>2, <2>3
    <2>5. ASSUME NEW j \in 1 .. n, j - 1 \in S PROVE j \in S
      <3>1. j \in 1 .. n + 1 /\ v[j] = w[j] /\ g[j - 1] = h[j - 1]
        BY <2>1, <2>5
      <3>2. g[j] = Apply(g[j - 1], w[j]) /\ h[j] = Apply(h[j - 1], v[j])
        BY <2>2, <2>3, <3>1
      <3>3. QED
        BY <3>1, <3>2
    <2>6. \A j \in 0 .. n : j \in S
      <3> HIDE DEF S
      <3>1. QED
        BY <2>1, <2>4, <2>5, Induction
    <2>7. n \in 0 .. n /\ n + 1 \in 1 .. n + 1 /\ (n + 1) - 1 = n
      BY <2>1
    <2>8. g[n] = h[n]
      BY <2>6, <2>7
    <2>9. h[n + 1] = Apply(h[n], v[n + 1])
      BY <2>3, <2>7
    <2>10. QED
      BY <2>1, <2>2, <2>3, <2>8, <2>9 DEF v
  <1>3. QED
    BY <1>1, <1>2

\* Without a "b" there is no transaction.
LEMMA NoTransaction ==
  ASSUME NEW w \in Seq(Seq(Rune)), <<"b">> \notin Range(w)
  PROVE  Rollback(Effect(w)) = Effect(w)
  <1>1. Len(w) \in Nat /\ \A j \in 1 .. Len(w) : w[j] \in Seq(Rune) /\ w[j] # <<"b">>
    <2>1. Len(w) \in Nat /\ DOMAIN w = 1 .. Len(w) /\ \A j \in 1 .. Len(w) : w[j] \in Seq(Rune)
      OBVIOUS
    <2>2. \A j \in DOMAIN w : w[j] \in Range(w)
      BY DEF Range
    <2>3. QED
      BY <2>1, <2>2
  <1>2. PICK g : /\ Effect(w) = g[Len(w)] /\ g[0] = EmptyDb
                 /\ \A j \in 1 .. Len(w) : g[j] = Apply(g[j - 1], w[j])
    BY <1>1, EffectExists
  <1> DEFINE S == {j \in 0 .. Len(w) : g[j] \in Db /\ g[j].tx = FALSE /\ g[j].open = <<>>}
  <1>3. 0 \in S
    <2>1. EmptyDb \in Db /\ EmptyDb.tx = FALSE /\ EmptyDb.open = <<>>
      BY DEF EmptyDb, Db
    <2>2. QED
      BY <1>1, <1>2, <2>1
  <1>4. ASSUME NEW j \in 1 .. Len(w), j - 1 \in S PROVE j \in S
    <2>1. g[j - 1] \in Db /\ g[j - 1].tx = FALSE /\ g[j - 1].open = <<>>
      BY <1>4
    <2>2. g[j] = Apply(g[j - 1], w[j]) /\ w[j] \in Seq(Rune) /\ w[j] # <<"b">>
      BY <1>1, <1>2
    <2>3. g[j] \in Db
      BY <2>1, <2>2, ApplyType
    <2>4. Apply(g[j - 1], w[j]).tx = FALSE /\ Apply(g[j - 1], w[j]).open = <<>>
      BY <2>1, <2>2 DEF Apply, CommitAll, Db
    <2>5. QED
      BY <2>2, <2>3, <2>4
  <1>5. \A j \in 0 .. Len(w) : j \in S
    <2> HIDE DEF S
    <2>1. QED
      BY <1>1, <1>3, <1>4, Induction
  <1>6. Len(w) \in 0 .. Len(w)
    BY <1>1
  <1>7. Effect(w) \in Db /\ Effect(w).tx = FALSE /\ Effect(w).open = <<>>
    BY <1>2, <1>5, <1>6
  <1>8. QED
    BY <1>7 DEF Rollback, Db

LEMMA DbStep ==
  ASSUME TypeOK, Order, Reason, DbOK, [Next]_vars
  PROVE  DbOK'
  <1> USE DEF Return, splitVars, serverVars
  <1> DEFINE Kept == result # "failed" /\ (broken => <<"b">> \notin Range(ran))
  <1>1. Kept => db.kept = Effect(ran).kept /\ (at \notin {"close", "done"} => db = Effect(ran))
    BY DEF DbOK
  <1>2. SUFFICES ASSUME Kept'
                 PROVE  /\ db'.kept = Effect(ran').kept
                        /\ at' \notin {"close", "done"} => db' = Effect(ran')
    BY DEF DbOK
  <1>3. ASSUME UNCHANGED <<db, ran>>, Kept' => Kept,
               at \in {"close", "done"} => at' \in {"close", "done"}
        PROVE  /\ db'.kept = Effect(ran').kept
               /\ at' \notin {"close", "done"} => db' = Effect(ran')
    BY <1>1, <1>2, <1>3
  <1>4. CASE \/ UNCHANGED vars \/ Cut \/ EndSplit \/ Ping \/ Send \/ AnswerLost \/ Timeout
             \/ Close \/ Refuse \/ Drop
    <2>1. /\ UNCHANGED <<db, ran>>
          /\ broken => broken'
          /\ result' = result \/ result' = "failed" \/ result = "none"
          /\ at \in {"close", "done"} => at' \in {"close", "done"}
      BY <1>4 DEF vars, Cut, Reads, EndSplit, Ping, Send, AnswerLost, Timeout, Close, Refuse,
                  Drop, TypeOK
    <2>2. QED
      BY <1>3, <2>1
  <1>5. ASSUME NEW r \in Rune, Lex(r)
        PROVE  /\ db'.kept = Effect(ran').kept
               /\ at' \notin {"close", "done"} => db' = Effect(ran')
    <2>1. UNCHANGED <<db, ran, at, result, broken>>
      BY <1>5, LexMoves DEF Idles
    <2>2. QED
      BY <1>3, <2>1
  <1>6. CASE Answered
    <2>1. UNCHANGED <<db, ran, broken>> /\ at = "wait"
      BY <1>6 DEF Answered
    <2>2. result = "none"
      BY <2>1 DEF TypeOK
    <2>3. QED
      BY <1>3, <2>1, <2>2
  <1>7. CASE Reconnect
    <2>1. /\ at = "exec" /\ conn = "down" /\ db' = Rollback(db)
          /\ UNCHANGED <<at, ran, broken, result>>
      BY <1>7 DEF Reconnect
    <2>2. broken
      BY <2>1 DEF Reason
    <2>3. <<"b">> \notin Range(ran) /\ db = Effect(ran)
      BY <1>1, <1>2, <2>1, <2>2
    <2>4. ran \in Seq(Seq(Rune))
      BY DEF TypeOK
    <2>5. Rollback(Effect(ran)) = Effect(ran)
      BY <2>3, <2>4, NoTransaction
    <2>6. QED
      BY <2>1, <2>3, <2>5
  <1>8. CASE Run
    <2>1. /\ packet # <<>> /\ ran' = Append(ran, Head(packet).words)
          /\ db' = Apply(db, Head(packet).words) /\ UNCHANGED <<at, broken, result>>
      BY <1>8 DEF Run
    <2>2. ran \in Seq(Seq(Rune)) /\ Head(packet) \in Stmt
      BY <2>1 DEF TypeOK
    <2>3. Head(packet).words \in Seq(Rune)
      BY <2>2 DEF Stmt
    <2> DEFINE w == Head(packet).words
    <2> HIDE DEF w
    <2>4. ran' = Append(ran, w) /\ db' = Apply(db, w) /\ w \in Seq(Rune)
      BY <2>1, <2>3 DEF w
    <2>5. Range(ran) \subseteq Range(ran')
      <3>1. DOMAIN ran \subseteq DOMAIN Append(ran, w)
            /\ \A j \in DOMAIN ran : Append(ran, w)[j] = ran[j]
        BY ONLY <2>2, <2>4
      <3>2. QED
        BY <2>4, <3>1 DEF Range
    <2>6. Kept
      BY <1>2, <2>1, <2>5
    <2>7. at \notin {"close", "done"}
      <3>1. result # "success"
        BY <2>1 DEF Order
      <3>2. result = "none"
        BY <2>6, <3>1 DEF TypeOK
      <3>3. QED
        BY <3>2 DEF TypeOK
    <2>8. db = Effect(ran)
      BY <1>1, <2>6, <2>7
    <2>9. Effect(ran') = Apply(Effect(ran), w)
      BY <2>2, <2>4, EffectDef
    <2>10. QED
      BY <2>4, <2>8, <2>9
  <1>9. CASE Hangup
    <2>1. /\ at \in {"close", "done"} /\ db' = Rollback(db)
          /\ UNCHANGED <<at, ran, broken, result>>
      BY <1>9 DEF Hangup
    <2>2. Rollback(db).kept = db.kept
      BY DEF Rollback, TypeOK, Db
    <2>3. QED
      BY <1>1, <1>2, <2>1, <2>2
  <1>10. QED
    BY <1>4, <1>5, <1>6, <1>7, <1>8, <1>9, NextCases

-----------------------------------------------------------------------------
(* The statements of a piece are those of the script.                      *)

\* Where the runes lo to hi of t are a piece q that begins in clean code.
Piece(t, lo, hi, q) ==
  /\ lo \in 1 .. Len(t) + 1 /\ hi \in lo - 1 .. Len(t)
  /\ Clean(t, lo - 1)
  /\ RuneAt(t, hi + 1) \in {"end", ";"}
  /\ ~ (RuneAt(t, hi - 1) = "-" /\ RuneAt(t, hi) = "-" /\ RuneAt(t, hi + 1) = ";")
  /\ q = TrimSpace(SubSeq(t, lo, hi)) /\ q # <<>>

\* w continues the statements E with those of piece q; e is E and what f ends.
Holds(w, E, q) ==
  /\ Len(w) = Len(E) + Len(Found(q))
  /\ \A j \in 1 .. Len(Found(q)) : Found(q)[j].words = w[Len(E) + j]
Joined(e, E, f) == e = E \o f

LEMMA PieceReads ==
  ASSUME NEW t \in Seq(Rune), NEW lo, NEW hi, NEW q, Piece(t, lo, hi, q)
  PROVE  /\ q \in Seq(Rune) /\ lo - 1 \in 0 .. Len(t) /\ hi \in 0 .. Len(t)
         /\ Joined(Reading(t, hi).ended, Reading(t, lo - 1).ended, Reading(q, Len(q)).ended)
         /\ Reading(t, hi).mode \in Pending <=> Reading(q, Len(q)).mode \in Pending
         /\ Reading(t, hi).mode \notin Pending => Reading(t, hi).stmt = Reading(q, Len(q)).stmt
  <1>1. Len(t) \in Nat
    BY ONLY t \in Seq(Rune)
  <1>2. lo \in 1 .. Len(t) + 1 /\ hi \in lo - 1 .. Len(t)
    BY DEF Piece
  <1>3. lo - 1 \in 0 .. Len(t) /\ hi \in 0 .. Len(t)
    BY ONLY <1>1, <1>2
  <1>4. /\ Clean(t, lo - 1) /\ RuneAt(t, hi + 1) \in {"end", ";"}
        /\ ~ (RuneAt(t, hi - 1) = "-" /\ RuneAt(t, hi) = "-" /\ RuneAt(t, hi + 1) = ";")
        /\ q = TrimSpace(SubSeq(t, lo, hi)) /\ q # <<>>
    BY DEF Piece
  <1>5. QED
    BY <1>2, <1>3, <1>4, PieceRead DEF Joined

\* A piece that ends inside a statement: the statements before stand in the text.
LEMMA PieceTorn ==
  ASSUME NEW t \in Seq(Rune), NEW lo, NEW hi, NEW q, Piece(t, lo, hi, q),
         Reading(t, hi).mode \in Pending
  PROVE  /\ Torn(q)
         /\ \A j \in 1 .. Len(Found(q)) : Found(q)[j].closed =>
              /\ Len(Reading(t, lo - 1).ended) + j <= Len(Statements(t))
              /\ Statements(t)[Len(Reading(t, lo - 1).ended) + j] = Found(q)[j].words
  <1> DEFINE E == Reading(t, lo - 1).ended
             p == Reading(q, Len(q))
             s == Reading(t, hi)
             o == Len(E)
  <1>1. /\ q \in Seq(Rune) /\ lo - 1 \in 0 .. Len(t) /\ hi \in 0 .. Len(t)
        /\ s.ended = E \o p.ended /\ p.mode \in Pending
    <2>1. /\ q \in Seq(Rune) /\ lo - 1 \in 0 .. Len(t) /\ hi \in 0 .. Len(t)
          /\ Joined(s.ended, E, p.ended)
      BY PieceReads
    <2>2. Reading(t, hi).mode \in Pending <=> p.mode \in Pending
      BY PieceReads
    <2>3. QED
      BY <2>1, <2>2 DEF Joined
  <1>2. /\ E \in Seq(Seq(Rune)) /\ p.ended \in Seq(Seq(Rune)) /\ s.ended \in Seq(Seq(Rune))
        /\ Len(q) \in 0 .. Len(q)
    <2>1. Len(q) \in 0 .. Len(q)
      BY <1>1
    <2>2. E \in Seq(Seq(Rune)) /\ s.ended \in Seq(Seq(Rune))
      BY <1>1, ReadingType DEF LexState
    <2>3. p.ended \in Seq(Seq(Rune))
      BY <1>1, <2>1, ReadingType DEF LexState
    <2>4. QED
      BY <2>1, <2>2, <2>3
  <1>3. Begins(s.ended, Statements(t))
    BY <1>1, StatementsBegin
  <1>4. /\ Len(Found(q)) = Len(p.ended) + 1
        /\ \A k \in 1 .. Len(Found(q)) : Found(q)[k].closed <=> k < Len(Found(q))
        /\ \A k \in 1 .. Len(Found(q)) - 1 : Found(q)[k].words = p.ended[k]
    BY <1>1, FoundTorn
  <1>5. Found(q) \in Seq(Stmt) /\ Statements(t) \in Seq(Seq(Rune))
    BY <1>1, FoundType, StatementsType
  <1> HIDE DEF E, p, s
  <1>6. o \in Nat /\ Len(p.ended) \in Nat /\ Len(s.ended) = o + Len(p.ended)
        /\ \A j \in 1 .. Len(p.ended) : s.ended[o + j] = p.ended[j]
    BY <1>1, <1>2
  <1>7. Torn(q)
    <2>1. Found(q) # <<>>
      <3>1. Len(Found(q)) # 0
        BY <1>4, <1>6
      <3>2. QED
        BY <3>1
    <2>2. QED
      BY <1>4, <2>1 DEF Torn
  <1>8. ASSUME NEW j \in 1 .. Len(Found(q)), Found(q)[j].closed
        PROVE  o + j <= Len(Statements(t)) /\ Statements(t)[o + j] = Found(q)[j].words
    <2>1. j \in 1 .. Len(p.ended) /\ j \in 1 .. Len(Found(q)) - 1
      BY <1>4, <1>6, <1>8
    <2>2. Len(Statements(t)) \in Nat /\ Len(s.ended) <= Len(Statements(t))
          /\ \A k \in 1 .. Len(s.ended) : s.ended[k] = Statements(t)[k]
      BY <1>3, <1>5 DEF Begins
    <2>3. o + j \in 1 .. Len(s.ended) /\ o + j <= Len(Statements(t))
      BY <1>6, <2>1, <2>2
    <2>4. QED
      BY <1>4, <1>6, <2>1, <2>2, <2>3
  <1>9. QED
    BY <1>7, <1>8 DEF E

\* A piece that does not holds the statements that have ended behind it.
LEMMA PieceWhole ==
  ASSUME NEW t \in Seq(Rune), NEW lo, NEW hi, NEW q, Piece(t, lo, hi, q),
         Reading(t, hi).mode \notin Pending
  PROVE  /\ Whole(q)
         /\ Holds(Ended(Reading(t, hi)), Reading(t, lo - 1).ended, q)
  <1> DEFINE E == Reading(t, lo - 1).ended
             p == Reading(q, Len(q))
             s == Reading(t, hi)
             o == Len(E)
  <1>1. /\ q \in Seq(Rune) /\ lo - 1 \in 0 .. Len(t) /\ hi \in 0 .. Len(t)
        /\ s.ended = E \o p.ended /\ p.mode \notin Pending /\ s.stmt = p.stmt
    BY PieceReads DEF Joined
  <1>2. /\ E \in Seq(Seq(Rune)) /\ p.ended \in Seq(Seq(Rune)) /\ p.stmt \in Seq(Rune)
    <2>1. Len(q) \in 0 .. Len(q)
      BY <1>1
    <2>2. E \in Seq(Seq(Rune))
      BY <1>1, ReadingType DEF LexState
    <2>3. p.ended \in Seq(Seq(Rune)) /\ p.stmt \in Seq(Rune)
      BY <1>1, <2>1, ReadingType DEF LexState
    <2>4. QED
      BY <2>2, <2>3
  <1>3. /\ Len(Found(q)) = Len(Ended(p))
        /\ \A k \in 1 .. Len(Found(q)) : Found(q)[k].closed /\ Found(q)[k].words = Ended(p)[k]
    BY <1>1, FoundWhole
  <1> HIDE DEF E, p, s
  <1>4. Ended(s) = E \o Ended(p)
    <2>1. E \o Append(p.ended, p.stmt) = Append(E \o p.ended, p.stmt)
      BY <1>2, ConcatAppend
    <2>2. QED
      BY <1>1, <2>1 DEF Ended
  <1>5. Ended(p) \in Seq(Seq(Rune))
    BY <1>2 DEF Ended
  <1>6. Len(Ended(s)) = o + Len(Ended(p))
        /\ \A j \in 1 .. Len(Ended(p)) : Ended(s)[o + j] = Ended(p)[j]
    BY <1>2, <1>4, <1>5
  <1>7. QED
    BY <1>3, <1>6 DEF Whole, Holds, E, s

-----------------------------------------------------------------------------
(* A cut, and the end of the text.                                         *)

LEMMA CutPiece ==
  ASSUME TypeOK, NoDashes, InStep, CutSafe(text), Cut, Clean(text, start - 1),
         NEW q, q = TrimSpace(SubSeq(text, start, pos - 1))
  PROVE  LET o == Len(Reading(text, start - 1).ended) IN
         \/ /\ q = <<>> /\ Clean(text, pos) /\ Len(Reading(text, pos).ended) = o
         \/ /\ q # <<>> /\ Whole(q) /\ Places(q, o)
            /\ Clean(text, pos) /\ Len(Reading(text, pos).ended) = o + Len(Found(q))
         \/ q # <<>> /\ Torn(q) /\ Places(q, o) /\ ~ReadAlike(text)
  <1> DEFINE o == Len(Reading(text, start - 1).ended)
             s == Reading(text, pos - 1)
  <1>1. at = "split" /\ mode = "code" /\ pos \in 1 .. Len(text)
    BY CutMoves
  <1>14. text[pos] = ";"
    BY CutMoves
  <1>2. text \in Seq(Rune) /\ start \in 1 .. Len(text) + 1 /\ pos - 1 \in start - 1 .. Len(text)
    BY TextRunes, FlushCases
  <1>3. Len(text) \in Nat /\ pos \in Int /\ start \in Int
    BY <1>2, TextRunes DEF TypeOK
  <1>15. DOMAIN text = 1 .. Len(text)
    <2>1. text \in Seq(Rune)
      BY <1>2
    <2>2. QED
      BY ONLY <2>1
  <1>4. /\ (pos - 1) + 1 = pos /\ (pos - 1) - 1 = pos - 2 /\ pos \in 0 .. Len(text)
        /\ start - 1 \in 0 .. Len(text) /\ pos - 1 \in 0 .. Len(text)
    <2>1. start \in 1 .. Len(text) + 1 /\ pos \in 1 .. Len(text)
      BY <1>1, <1>2
    <2>2. QED
      BY ONLY <1>3, <2>1
  <1>5. RuneAt(text, pos) = ";"
    BY <1>1, <1>14, <1>15 DEF RuneAt
  <1>6. s \in LexState /\ Reading(text, pos) = ReadRune(text, s, pos)
        /\ Reading(text, pos) \in LexState
    BY <1>1, <1>2, <1>4, ReadingType, ReadingDef
  <1>7. Reading(text, start - 1).ended \in Seq(Seq(Rune)) /\ o \in Nat
    BY <1>2, <1>4, ReadingType DEF LexState
  <1>8. s.mode \notin {"dash", "hash"} /\ (ReadAlike(text) => s.mode = "code")
    <2>1. ReadAlike(text) => s.mode = "code"
      BY <1>1 DEF InStep, ServerMode
    <2>2. pos \in DOMAIN text
      BY <1>1, <1>15
    <2>3. ~ReadAlike(text) => s.mode \notin {"dash", "hash"}
      BY <1>14, <2>2 DEF CutSafe
    <2>4. QED
      BY <2>1, <2>3
  <1>9. s.mode = "code" \/ s.mode \in Pending
    BY <1>6, <1>8 DEF LexState, Mode, Pending
  <1>10. s.mode = "code" =>
           /\ ~s.pair
           /\ Clean(text, pos) /\ Reading(text, pos).ended = Ended(s)
    <2>1. SUFFICES ASSUME s.mode = "code"
                   PROVE  /\ ~s.pair
                          /\ Clean(text, pos) /\ Reading(text, pos).ended = Ended(s)
      OBVIOUS
    <2>2. ~s.pair
      BY <1>2, <1>4, <1>5, <2>1, PairedRune
    <2> HIDE DEF s
    <2>3. /\ ReadRune(text, s, pos).mode = "code" /\ ReadRune(text, s, pos).pair = FALSE
          /\ ReadRune(text, s, pos).stmt = <<>> /\ ReadRune(text, s, pos).ended = Ended(s)
      BY <1>14, <1>6, <2>1, <2>2, ReadSemicolon
    <2>4. QED
      BY <1>6, <2>2, <2>3 DEF Clean
  <1>11. CASE q = <<>>
    <2>1. s = Reading(text, start - 1)
      BY <1>2, <1>11, BlankPiece
    <2>2. s.mode = "code" /\ s.stmt = <<>>
      BY <2>1 DEF Clean
    <2>3. Clean(text, pos) /\ Reading(text, pos).ended = s.ended
      BY <1>10, <2>2 DEF Ended
    <2>4. QED
      BY <1>11, <2>1, <2>3
  <1>12. CASE q # <<>>
    <2>1. Piece(text, start, pos - 1, q)
      <3>1. ~ (RuneAt(text, pos - 2) = "-" /\ RuneAt(text, pos - 1) = "-")
        BY <1>1 DEF NoDashes
      <3>2. QED
        BY <1>2, <1>4, <1>5, <1>12, <3>1 DEF Piece
    <2>2. CASE s.mode \in Pending
      <3>1. /\ Torn(q)
            /\ \A j \in 1 .. Len(Found(q)) : Found(q)[j].closed =>
                 /\ o + j <= Len(Statements(text))
                 /\ Statements(text)[o + j] = Found(q)[j].words
        BY <1>2, <2>1, <2>2, PieceTorn
      <3>2. Places(q, o)
        BY <3>1 DEF Places, Written
      <3>3. "code" \notin Pending
        BY DEF Pending
      <3>4. ~ReadAlike(text)
        BY <1>8, <2>2, <3>3
      <3>5. QED
        BY <1>12, <3>1, <3>2, <3>4
    <2>3. CASE s.mode = "code"
      <3>1. s.mode \notin Pending
        BY <2>3 DEF Pending
      <3>2. /\ Whole(q)
            /\ Len(Ended(s)) = o + Len(Found(q))
            /\ \A j \in 1 .. Len(Found(q)) : Found(q)[j].words = Ended(s)[o + j]
        <4>1. Whole(q) /\ Holds(Ended(s), Reading(text, start - 1).ended, q)
          BY <1>2, <2>1, <3>1, PieceWhole
        <4>2. QED
          BY <4>1 DEF Holds
      <3>3. Clean(text, pos) /\ Reading(text, pos).ended = Ended(s)
        BY <1>10, <2>3
      <3>4. Begins(Reading(text, pos).ended, Statements(text))
        BY <1>2, <1>4, StatementsBegin
      <3>5. q \in Seq(Rune)
        BY FlushCases
      <3>6. Found(q) \in Seq(Stmt) /\ Statements(text) \in Seq(Seq(Rune))
        BY <1>2, <3>5, FoundType, StatementsType
      <3> HIDE DEF o, s
      <3>7. Places(q, o)
        <4>1. ASSUME NEW j \in 1 .. Len(Found(q))
              PROVE  o + j <= Len(Written) /\ Written[o + j] = Found(q)[j].words
          <5>1. Len(Found(q)) \in Nat /\ Len(Written) \in Nat
            BY <3>6 DEF Written
          <5>2. o + j \in 1 .. Len(Ended(s)) /\ Len(Ended(s)) \in Nat
            BY <1>7, <3>2, <5>1
          <5>3. Len(Ended(s)) <= Len(Written)
                /\ \A k \in 1 .. Len(Ended(s)) : Ended(s)[k] = Written[k]
            BY <3>3, <3>4 DEF Begins, Written
          <5>4. o + j <= Len(Written)
            BY <1>7, <5>1, <5>2, <5>3
          <5>5. QED
            BY <3>2, <5>2, <5>3, <5>4
        <4>2. QED
          BY <4>1 DEF Places
      <3>8. QED
        BY <1>12, <3>2, <3>3, <3>7 DEF o
    <2>4. QED
      BY <1>9, <2>2, <2>3
  <1>13. QED
    BY <1>11, <1>12

LEMMA EndPiece ==
  ASSUME TypeOK, pos = Len(text) + 1, Clean(text, start - 1),
         NEW q, q = TrimSpace(SubSeq(text, start, pos - 1))
  PROVE  LET o == Len(Reading(text, start - 1).ended) IN
         \/ q = <<>> /\ Len(Written) = o
         \/ q # <<>> /\ Whole(q) /\ Places(q, o) /\ Len(Written) = o + Len(Found(q))
         \/ q # <<>> /\ Torn(q) /\ Places(q, o) /\ Unclosed
  <1> DEFINE o == Len(Reading(text, start - 1).ended)
             s == Reading(text, pos - 1)
  <1>1. text \in Seq(Rune) /\ start \in 1 .. Len(text) + 1 /\ pos - 1 \in start - 1 .. Len(text)
    BY TextRunes, FlushCases
  <1>2. Len(text) \in Nat /\ pos \in Int /\ start \in Int
    BY <1>1, TextRunes DEF TypeOK
  <1>3. /\ pos - 1 = Len(text) /\ (pos - 1) + 1 = pos /\ start - 1 \in 0 .. Len(text)
        /\ Len(text) \in 0 .. Len(text)
    <2>1. start \in 1 .. Len(text) + 1 /\ pos = Len(text) + 1
      BY <1>1
    <2>2. QED
      BY ONLY <1>2, <2>1
  <1>4. RuneAt(text, pos) = "end"
    <2>1. DOMAIN text = 1 .. Len(text)
      BY <1>1
    <2>2. pos \notin DOMAIN text
      BY <1>2, <2>1
    <2>3. QED
      BY <2>2 DEF RuneAt
  <1>5. s \in LexState
    BY <1>1, <1>3, ReadingType
  <1>6. Reading(text, start - 1).ended \in Seq(Seq(Rune)) /\ o \in Nat
    BY <1>1, <1>3, ReadingType DEF LexState
  <1>7. Unclosed <=> s.mode \in Pending
    BY <1>3 DEF Unclosed
  <1>8. s.mode \notin Pending =>
          /\ Len(Written) = Len(Ended(s))
          /\ \A k \in 1 .. Len(Written) : Written[k] = Ended(s)[k]
    <2>1. SUFFICES ASSUME s.mode \notin Pending
                   PROVE  /\ Len(Written) = Len(Ended(s))
                          /\ \A k \in 1 .. Len(Written) : Written[k] = Ended(s)[k]
      OBVIOUS
    <2>2. /\ Len(Found(text)) = Len(Ended(s))
          /\ \A k \in 1 .. Len(Found(text)) : Found(text)[k].words = Ended(s)[k]
      BY <1>1, <1>3, <2>1, FoundWhole
    <2>3. /\ Len(Written) = Len(Found(text))
          /\ \A k \in 1 .. Len(Found(text)) : Written[k] = Found(text)[k].words
      BY <1>1, StatementsType DEF Written
    <2>4. QED
      BY <2>2, <2>3
  <1>9. CASE q = <<>>
    <2>1. s = Reading(text, start - 1)
      BY <1>1, <1>9, BlankPiece
    <2>2. s.mode = "code" /\ s.stmt = <<>> /\ "code" \notin Pending
      BY <2>1 DEF Clean, Pending
    <2>3. Ended(s) = s.ended
      BY <2>2 DEF Ended
    <2>4. QED
      BY <1>8, <1>9, <2>1, <2>2, <2>3
  <1>10. CASE q # <<>>
    <2>1. Piece(text, start, pos - 1, q)
      BY <1>1, <1>3, <1>4, <1>10 DEF Piece
    <2>2. CASE s.mode \in Pending
      <3>1. /\ Torn(q)
            /\ \A j \in 1 .. Len(Found(q)) : Found(q)[j].closed =>
                 /\ o + j <= Len(Statements(text))
                 /\ Statements(text)[o + j] = Found(q)[j].words
        BY <1>1, <2>1, <2>2, PieceTorn
      <3>2. Places(q, o)
        BY <3>1 DEF Places, Written
      <3>3. QED
        BY <1>7, <1>10, <2>2, <3>1, <3>2
    <2>3. CASE s.mode \notin Pending
      <3>1. Whole(q) /\ Holds(Ended(s), Reading(text, start - 1).ended, q)
        BY <1>1, <2>1, <2>3, PieceWhole
      <3>2. /\ Len(Ended(s)) = o + Len(Found(q))
            /\ \A j \in 1 .. Len(Found(q)) : Found(q)[j].words = Ended(s)[o + j]
        BY <3>1 DEF Holds
      <3>3. q \in Seq(Rune)
        BY FlushCases
      <3>4. Len(Found(q)) \in Nat
        BY <3>3, FoundType
      <3>5. /\ Len(Written) = Len(Ended(s))
            /\ \A k \in 1 .. Len(Written) : Written[k] = Ended(s)[k]
        BY <1>8, <2>3
      <3> HIDE DEF o, s
      <3>6. ASSUME NEW j \in 1 .. Len(Found(q))
            PROVE  o + j <= Len(Written) /\ Written[o + j] = Found(q)[j].words
        <4>1. o + j \in 1 .. Len(Written) /\ o + j <= Len(Written)
          BY <1>6, <3>2, <3>4, <3>5
        <4>2. QED
          BY <3>2, <3>5, <4>1
      <3>7. Places(q, o)
        BY <3>6 DEF Places
      <3>8. QED
        BY <1>10, <3>1, <3>2, <3>5, <3>7 DEF o
    <2>4. QED
      BY <2>2, <2>3
  <1>11. QED
    BY <1>9, <1>10

-----------------------------------------------------------------------------
(* The pieces that have been made.                                         *)

LEMMA SameText ==
  ASSUME UNCHANGED text
  PROVE  /\ Written' = Written /\ (Unclosed' <=> Unclosed)
         /\ (ReadAlike(text)' <=> ReadAlike(text)) /\ (CutSafe(text)' <=> CutSafe(text))
         /\ \A q, o : Places(q, o)' <=> Places(q, o)
         /\ \A i : Clean(text, i)' <=> Clean(text, i)
         /\ \A i : Reading(text, i)' = Reading(text, i)
  BY DEF Written, Unclosed, Places

\* The pieces so far cover the text before start, unless one was torn.
LEMMA CoversMore ==
  ASSUME TypeOK, NEW n, NEW off, NEW q, q # <<>>, q \in Seq(Rune), Len(stmts) \in Nat,
         n \in 0 .. Len(stmts), off \in [0 .. n -> Nat],
         UNCHANGED text, stmts' = Append(stmts, q), off[0] = 0,
         \A k \in 1 .. n : /\ Whole(stmts[k]) /\ Places(stmts[k], off[k - 1])
                           /\ off[k] = off[k - 1] + Len(Found(stmts[k]))
  PROVE  /\ Len(stmts') = Len(stmts) + 1 /\ stmts'[Len(stmts) + 1] = q
         /\ \A k \in 1 .. Len(stmts) : stmts'[k] = stmts[k]
         /\ \A k \in 1 .. n : /\ Whole(stmts'[k]) /\ Places(stmts'[k], off[k - 1])
                              /\ off[k] = off[k - 1] + Len(Found(stmts'[k]))
  <1>1. stmts \in Seq(Seq(Rune) \ {<<>>})
    BY DEF TypeOK
  <1>2. /\ Len(Append(stmts, q)) = Len(stmts) + 1 /\ Append(stmts, q)[Len(stmts) + 1] = q
        /\ \A k \in 1 .. Len(stmts) : Append(stmts, q)[k] = stmts[k]
    BY ONLY <1>1, q \in Seq(Rune), q # <<>>
  <1>3. \A k \in 1 .. n : stmts'[k] = stmts[k]
    BY <1>2
  <1>4. QED
    BY <1>2, <1>3

\* A cover of the pieces after a step that leaves the text as it is.
LEMMA CoversPrime ==
  ASSUME UNCHANGED text, NEW n, NEW off,
         n \in 0 .. Len(stmts'), off \in [0 .. n -> Nat], off[0] = 0,
         \A k \in 1 .. n : /\ Whole(stmts'[k]) /\ Places(stmts'[k], off[k - 1])
                           /\ off[k] = off[k - 1] + Len(Found(stmts'[k])),
         n < Len(stmts') => /\ Torn(stmts'[n + 1]) /\ Places(stmts'[n + 1], off[n])
                            /\ ReadAlike(text) => at' # "split" /\ Unclosed,
         n = Len(stmts') /\ at' = "split" =>
           Clean(text, start' - 1) /\ Len(Reading(text, start' - 1).ended) = off[n],
         n = Len(stmts') /\ at' \in {"exec", "wait"} => off[n] = Len(Written)
  PROVE  Covers(n, off)'
  BY DEF Covers, Places, Written, Unclosed

\* One more whole piece.
LEMMA CoversWhole ==
  ASSUME TypeOK, UNCHANGED text, NEW n, NEW off, Covers(n, off), n = Len(stmts),
         NEW q, q # <<>>, q \in Seq(Rune), stmts' = Append(stmts, q),
         Whole(q), Places(q, off[n]),
         at' = "split" => /\ Clean(text, start' - 1)
                          /\ Len(Reading(text, start' - 1).ended) = off[n] + Len(Found(q)),
         at' \in {"exec", "wait"} => off[n] + Len(Found(q)) = Len(Written)
  PROVE  \E m \in Nat : \E of : Covers(m, of)'
  <1>1. /\ n \in 0 .. Len(stmts) /\ off \in [0 .. n -> Nat] /\ off[0] = 0
        /\ \A k \in 1 .. n : /\ Whole(stmts[k]) /\ Places(stmts[k], off[k - 1])
                             /\ off[k] = off[k - 1] + Len(Found(stmts[k]))
    BY DEF Covers
  <1>2. Len(stmts) \in Nat
    BY DEF TypeOK
  <1>3. /\ Len(stmts') = n + 1 /\ stmts'[n + 1] = q
        /\ \A k \in 1 .. n : /\ Whole(stmts'[k]) /\ Places(stmts'[k], off[k - 1])
                             /\ off[k] = off[k - 1] + Len(Found(stmts'[k]))
    BY <1>1, <1>2, CoversMore
  <1>4. Len(Found(q)) \in Nat
    BY FoundType
  <1> DEFINE of == [k \in 0 .. n + 1 |-> IF k = n + 1 THEN off[n] + Len(Found(q)) ELSE off[k]]
  <1>5. n \in Nat /\ n + 1 \in 0 .. n + 1 /\ n \in 0 .. n
    BY <1>1, <1>2
  <1>6. off[n] \in Nat /\ off[n] + Len(Found(q)) \in Nat
    BY <1>1, <1>4, <1>5
  <1>7. of \in [0 .. n + 1 -> Nat]
    BY <1>1, <1>5, <1>6
  <1>8. of[n + 1] = off[n] + Len(Found(q)) /\ \A k \in 0 .. n : of[k] = off[k]
    BY <1>5
  <1> HIDE DEF of
  <1>9. of[0] = 0
    BY <1>1, <1>5, <1>8
  <1>10. ASSUME NEW k \in 1 .. n + 1
         PROVE  /\ Whole(stmts'[k]) /\ Places(stmts'[k], of[k - 1])
                /\ of[k] = of[k - 1] + Len(Found(stmts'[k]))
    <2>1. CASE k \in 1 .. n
      <3>1. of[k] = off[k] /\ of[k - 1] = off[k - 1]
        BY <1>5, <1>8, <2>1
      <3>2. QED
        BY <1>3, <2>1, <3>1
    <2>2. CASE k = n + 1
      <3>1. k - 1 = n /\ of[k - 1] = off[n]
        BY <1>5, <1>8, <2>2
      <3>2. QED
        BY <1>3, <1>8, <2>2, <3>1
    <2>3. QED
      BY <1>5, <2>1, <2>2
  <1>11. n + 1 \in Nat /\ n + 1 \in 0 .. Len(stmts') /\ n + 1 = Len(stmts')
         /\ ~ (n + 1 < Len(stmts'))
    BY <1>3, <1>5
  <1>12. Covers(n + 1, of)'
    BY <1>7, <1>8, <1>9, <1>10, <1>11, CoversPrime
  <1>13. QED
    BY <1>11, <1>12

\* One more piece, torn.
LEMMA CoversTorn ==
  ASSUME TypeOK, UNCHANGED text, NEW n, NEW off, Covers(n, off), n = Len(stmts),
         NEW q, q # <<>>, q \in Seq(Rune), stmts' = Append(stmts, q),
         Torn(q), Places(q, off[n]), ReadAlike(text) => at' # "split" /\ Unclosed
  PROVE  Covers(n, off)'
  <1>1. /\ n \in 0 .. Len(stmts) /\ off \in [0 .. n -> Nat] /\ off[0] = 0
        /\ \A k \in 1 .. n : /\ Whole(stmts[k]) /\ Places(stmts[k], off[k - 1])
                             /\ off[k] = off[k - 1] + Len(Found(stmts[k]))
    BY DEF Covers
  <1>2. Len(stmts) \in Nat
    BY DEF TypeOK
  <1>3. /\ Len(stmts') = n + 1 /\ stmts'[n + 1] = q
        /\ \A k \in 1 .. n : /\ Whole(stmts'[k]) /\ Places(stmts'[k], off[k - 1])
                             /\ off[k] = off[k - 1] + Len(Found(stmts'[k]))
    BY <1>1, <1>2, CoversMore
  <1>4. n \in 0 .. Len(stmts') /\ n # Len(stmts')
    BY <1>1, <1>2, <1>3
  <1>5. QED
    BY <1>1, <1>3, <1>4, CoversPrime

\* A piece torn before stays the one torn, whatever comes behind it.
LEMMA CoversBehind ==
  ASSUME TypeOK, UNCHANGED text, NEW n, NEW off, Covers(n, off), n < Len(stmts),
         NEW q, q # <<>>, q \in Seq(Rune), stmts' = Append(stmts, q), at = "split"
  PROVE  Covers(n, off)'
  <1>1. /\ n \in 0 .. Len(stmts) /\ off \in [0 .. n -> Nat] /\ off[0] = 0
        /\ \A k \in 1 .. n : /\ Whole(stmts[k]) /\ Places(stmts[k], off[k - 1])
                             /\ off[k] = off[k - 1] + Len(Found(stmts[k]))
        /\ Torn(stmts[n + 1]) /\ Places(stmts[n + 1], off[n]) /\ ~ReadAlike(text)
    BY DEF Covers
  <1>2. Len(stmts) \in Nat
    BY DEF TypeOK
  <1>3. /\ Len(stmts') = Len(stmts) + 1
        /\ \A k \in 1 .. Len(stmts) : stmts'[k] = stmts[k]
        /\ \A k \in 1 .. n : /\ Whole(stmts'[k]) /\ Places(stmts'[k], off[k - 1])
                             /\ off[k] = off[k - 1] + Len(Found(stmts'[k]))
    BY <1>1, <1>2, CoversMore
  <1>4. n + 1 \in 1 .. Len(stmts) /\ n \in 0 .. Len(stmts') /\ n # Len(stmts')
    BY <1>1, <1>2, <1>3
  <1>5. QED
    BY <1>1, <1>3, <1>4, CoversPrime

\* Nothing new about the pieces.
LEMMA CoversSame ==
  ASSUME TypeOK, UNCHANGED <<text, stmts>>, NEW n, NEW off, Covers(n, off),
         at' = "split" => at = "split" /\ start' = start,
         at' \in {"exec", "wait"} => at \in {"exec", "wait"}
  PROVE  Covers(n, off)'
  BY DEF Covers, Places, Written, Unclosed

LEMMA CutCovers ==
  ASSUME TypeOK, NoDashes, InStep, CutSafe(text), Cut, NEW n \in Nat, NEW off, Covers(n, off)
  PROVE  \E m \in Nat : \E of : Covers(m, of)'
  <1>1. PICK q : q = TrimSpace(SubSeq(text, start, pos - 1))
    OBVIOUS
  <1>2. /\ q \in Seq(Rune) /\ (q = <<>> => Flush = stmts)
        /\ (q # <<>> => Flush = Append(stmts, q))
    BY <1>1, FlushCases
  <1>3. at = "split" /\ at' = "split" /\ UNCHANGED text /\ stmts' = Flush
    BY CutMoves
  <1>4. start' - 1 = pos
    <2>1. start' = pos + 1
      BY CutMoves
    <2>2. pos \in Int
      BY TextRunes DEF TypeOK
    <2>3. QED
      BY ONLY <2>1, <2>2
  <1>5. Len(stmts) \in Nat
    BY DEF TypeOK
  <1>6. n \in 0 .. Len(stmts)
    BY DEF Covers
  <1>7. CASE n < Len(stmts)
    <2>1. CASE q = <<>>
      <3>1. stmts' = stmts /\ n # Len(stmts)
        BY <1>2, <1>3, <1>5, <1>7, <2>1
      <3>2. Covers(n, off)'
        BY <1>3, <3>1 DEF Covers, Places, Written, Unclosed
      <3>3. QED
        BY <3>2
    <2>2. CASE q # <<>>
      <3>1. Covers(n, off)'
        BY <1>2, <1>3, <1>7, <2>2, CoversBehind
      <3>2. QED
        BY <3>1
    <2>3. QED
      BY <2>1, <2>2
  <1>8. CASE n = Len(stmts)
    <2>1. Clean(text, start - 1) /\ Len(Reading(text, start - 1).ended) = off[n]
      BY <1>3, <1>8 DEF Covers
    <2>2. \/ /\ q = <<>> /\ Clean(text, pos) /\ Len(Reading(text, pos).ended) = off[n]
          \/ /\ q # <<>> /\ Whole(q) /\ Places(q, off[n])
             /\ Clean(text, pos) /\ Len(Reading(text, pos).ended) = off[n] + Len(Found(q))
          \/ q # <<>> /\ Torn(q) /\ Places(q, off[n]) /\ ~ReadAlike(text)
      BY <1>1, <2>1, CutPiece
    <2>3. CASE q = <<>>
      <3>1. stmts' = stmts
        BY <1>2, <1>3, <2>3
      <3>2. Clean(text, start' - 1) /\ Len(Reading(text, start' - 1).ended) = off[n]
        BY <1>4, <2>2, <2>3
      <3>3. /\ n \in 0 .. Len(stmts) /\ off \in [0 .. n -> Nat] /\ off[0] = 0
            /\ \A k \in 1 .. n : /\ Whole(stmts[k]) /\ Places(stmts[k], off[k - 1])
                                 /\ off[k] = off[k - 1] + Len(Found(stmts[k]))
        BY DEF Covers
      <3>4. ~ (n < Len(stmts'))
        BY <1>5, <1>8, <3>1
      <3>5. Covers(n, off)'
        BY <1>3, <3>1, <3>2, <3>3, <3>4, CoversPrime
      <3>6. QED
        BY <3>5
    <2>4. CASE q # <<>> /\ ~Torn(q)
      <3>1. /\ Whole(q) /\ Places(q, off[n]) /\ Clean(text, start' - 1)
            /\ Len(Reading(text, start' - 1).ended) = off[n] + Len(Found(q))
        BY <1>4, <2>2, <2>4
      <3>2. stmts' = Append(stmts, q)
        BY <1>2, <1>3, <2>4
      <3>3. QED
        BY <1>2, <1>3, <1>8, <2>4, <3>1, <3>2, CoversWhole
    <2>5. CASE q # <<>> /\ ~Whole(q)
      <3>1. Torn(q) /\ Places(q, off[n]) /\ ~ReadAlike(text)
        BY <2>2, <2>5
      <3>2. Covers(n, off)'
        BY <1>2, <1>3, <1>8, <2>5, <3>1, CoversTorn
      <3>3. QED
        BY <3>2
    <2>6. CASE q # <<>> /\ Torn(q) /\ Whole(q)
      <3>1. q \in Seq(Rune)
        BY <1>2
      <3>2. Found(q) \in Seq(Stmt)
        BY <3>1, FoundType
      <3>3. Len(Found(q)) \in 1 .. Len(Found(q))
        BY <2>6, <3>2 DEF Torn
      <3>4. FALSE
        BY <2>6, <3>2, <3>3 DEF Torn, Whole
      <3>5. QED
        BY <3>4
    <2>7. QED
      BY <2>3, <2>4, <2>5, <2>6
  <1>9. QED
    BY <1>5, <1>6, <1>7, <1>8

LEMMA EndCovers ==
  ASSUME TypeOK, EndSplit, NEW n \in Nat, NEW off, Covers(n, off)
  PROVE  \E m \in Nat : \E of : Covers(m, of)'
  <1>1. PICK q : q = TrimSpace(SubSeq(text, start, pos - 1))
    OBVIOUS
  <1>2. /\ q \in Seq(Rune) /\ (q = <<>> => Flush = stmts)
        /\ (q # <<>> => Flush = Append(stmts, q))
    BY <1>1, FlushCases
  <1>3. /\ at = "split" /\ at' # "split" /\ UNCHANGED text /\ stmts' = Flush
        /\ pos = Len(text) + 1
    BY DEF EndSplit, Return
  <1>4. Len(stmts) \in Nat
    BY DEF TypeOK
  <1>5. /\ n \in 0 .. Len(stmts) /\ off \in [0 .. n -> Nat] /\ off[0] = 0
        /\ \A k \in 1 .. n : /\ Whole(stmts[k]) /\ Places(stmts[k], off[k - 1])
                             /\ off[k] = off[k - 1] + Len(Found(stmts[k]))
        /\ n < Len(stmts) => Torn(stmts[n + 1]) /\ Places(stmts[n + 1], off[n])
        /\ n < Len(stmts) => ~ReadAlike(text)
    BY <1>3 DEF Covers
  <1>6. CASE n < Len(stmts)
    <2>1. CASE q = <<>>
      <3>1. stmts' = stmts /\ n # Len(stmts)
        BY <1>2, <1>3, <1>4, <1>6, <2>1
      <3>2. Covers(n, off)'
        BY <1>3, <1>5, <1>6, <3>1, CoversPrime
      <3>3. QED
        BY <3>2
    <2>2. CASE q # <<>>
      <3>1. Covers(n, off)'
        BY <1>2, <1>3, <1>6, <2>2, CoversBehind
      <3>2. QED
        BY <3>1
    <2>3. QED
      BY <2>1, <2>2
  <1>7. CASE n = Len(stmts)
    <2>1. Clean(text, start - 1) /\ Len(Reading(text, start - 1).ended) = off[n]
      BY <1>3, <1>7 DEF Covers
    <2>2. \/ q = <<>> /\ Len(Written) = off[n]
          \/ q # <<>> /\ Whole(q) /\ Places(q, off[n]) /\ Len(Written) = off[n] + Len(Found(q))
          \/ q # <<>> /\ Torn(q) /\ Places(q, off[n]) /\ Unclosed
      BY <1>1, <1>3, <2>1, EndPiece
    <2>3. CASE q = <<>>
      <3>1. stmts' = stmts /\ Len(Written) = off[n]
        BY <1>2, <1>3, <2>2, <2>3
      <3>2. ~ (n < Len(stmts'))
        BY <1>4, <1>7, <3>1
      <3>3. Covers(n, off)'
        BY <1>3, <1>5, <3>1, <3>2, CoversPrime
      <3>4. QED
        BY <3>3
    <2>4. CASE q # <<>> /\ Whole(q) /\ Places(q, off[n]) /\ Len(Written) = off[n] + Len(Found(q))
      BY <1>2, <1>3, <1>7, <2>4, CoversWhole
    <2>5. CASE q # <<>> /\ Torn(q) /\ Places(q, off[n]) /\ Unclosed
      <3>1. Covers(n, off)'
        BY <1>2, <1>3, <1>7, <2>5, CoversTorn
      <3>2. QED
        BY <3>1
    <2>6. QED
      BY <2>2, <2>3, <2>4, <2>5
  <1>8. QED
    BY <1>4, <1>5, <1>6, <1>7

-----------------------------------------------------------------------------
(* Progress, step by step.                                                 *)

\* A step that adds no piece, sends nothing, runs nothing and ends nothing well.
LEMMA ProgressSame ==
  ASSUME TypeOK, Progress, UNCHANGED <<text, stmts, sent, ran, packet, answer, refused>>,
         at' = "split" => at = "split" /\ start' = start,
         at' \in {"exec", "wait"} => at' = at,
         result' = "success" => result = "success"
  PROVE  Progress'
  <1>1. PICK n, off : n \in Nat /\ Covers(n, off) /\ Phase(n, off)
    BY DEF Progress
  <1>2. at' \in {"exec", "wait"} => at \in {"exec", "wait"}
    OBVIOUS
  <1>3. Covers(n, off)'
    BY <1>1, <1>2, CoversSame
  <1>4. Phase(n, off)'
    BY <1>1 DEF Phase
  <1>5. PacketNext' /\ Outcome' /\ Begins(ran, Written)'
    BY DEF Progress, PacketNext, Outcome, Written, Unclosed
  <1>6. \E m \in Nat : \E of : (Covers(m, of) /\ Phase(m, of))'
    BY <1>1, <1>3, <1>4
  <1>7. QED
    BY <1>5, <1>6 DEF Progress

\* Before anything is sent, the pieces are all that changes.
LEMMA ProgressPieces ==
  ASSUME TypeOK, Order, Progress, NEW n \in Nat, NEW off, Covers(n, off)',
         at = "split", at' # "wait",
         UNCHANGED <<text, sent, ran, packet, answer, refused>>,
         result' = "success" => result = "success"
  PROVE  Progress'
  <1>1. sent = 0 /\ ran = <<>>
    BY DEF Order
  <1>2. off[0] = 0 /\ Len(ran) = 0
    BY <1>1 DEF Covers
  <1>3. Phase(n, off)'
    BY <1>1, <1>2 DEF Phase
  <1>4. PacketNext' /\ Outcome' /\ Begins(ran, Written)'
    BY DEF Progress, PacketNext, Outcome, Written, Unclosed
  <1>5. \E m \in Nat : \E of : (Covers(m, of) /\ Phase(m, of))'
    BY <1>3
  <1>6. QED
    BY <1>4, <1>5 DEF Progress

LEMMA ProgressCut ==
  ASSUME TypeOK, Order, NoDashes, InStep, CutSafe(text), Progress, Cut
  PROVE  Progress'
  <1>1. PICK n, off : n \in Nat /\ Covers(n, off)
    BY DEF Progress
  <1>2. PICK m, of : m \in Nat /\ Covers(m, of)'
    BY <1>1, CutCovers
  <1>3. /\ at = "split" /\ at' # "wait" /\ result' = result
        /\ UNCHANGED <<text, sent, ran, packet, answer, refused>>
    BY CutMoves DEF serverVars
  <1>4. QED
    BY <1>2, <1>3, ProgressPieces

LEMMA ProgressEnd ==
  ASSUME TypeOK, Order, Progress, EndSplit
  PROVE  Progress'
  <1>1. PICK n, off : n \in Nat /\ Covers(n, off)
    BY DEF Progress
  <1>2. PICK m, of : m \in Nat /\ Covers(m, of)'
    BY <1>1, EndCovers
  <1>3. /\ at = "split" /\ at' # "wait" /\ (result' = "success" => result = "success")
        /\ UNCHANGED <<text, sent, ran, packet, answer, refused>>
    BY DEF EndSplit, Return, serverVars
  <1>4. QED
    BY <1>2, <1>3, ProgressPieces

\* Nothing has been read yet.
LEMMA ProgressPing ==
  ASSUME TypeOK, Order, Progress, Ping
  PROVE  Progress'
  <1>1. /\ at = "ping" /\ at' = "split" /\ start' = 1 /\ stmts = <<>> /\ stmts' = <<>>
        /\ UNCHANGED <<text, sent, ran, packet, answer, refused, result>>
    BY DEF Ping, Order, splitVars
  <1>2. text \in Seq(Rune) /\ Len(text) \in Nat /\ start' - 1 = 0
    BY <1>1, TextRunes
  <1>3. Reading(text, 0) = Start
    BY <1>2, ReadingDef
  <1>4. Clean(text, start' - 1) /\ Len(Reading(text, start' - 1).ended) = 0
    BY <1>2, <1>3 DEF Clean, Start
  <1> DEFINE off == [k \in 0 .. 0 |-> 0]
  <1>5. off \in [0 .. 0 -> Nat] /\ off[0] = 0 /\ Len(stmts') = 0 /\ 0 \in 0 .. Len(stmts')
    BY <1>1
  <1> HIDE DEF off
  <1>6. PICK n \in Nat : n = 0
    OBVIOUS
  <1>11. n \in 0 .. Len(stmts') /\ off \in [0 .. n -> Nat] /\ n = Len(stmts')
         /\ 1 .. n = {} /\ ~ (n < Len(stmts')) /\ off[n] = 0
    BY <1>5, <1>6
  <1>12. Covers(n, off)'
    <2>1. text' = text /\ at' = "split"
      BY <1>1
    <2>2. Clean(text, start' - 1) /\ Len(Reading(text, start' - 1).ended) = off[n]
      BY <1>4, <1>11
    <2>3. QED
      BY <1>5, <1>11, <2>1, <2>2, CoversPrime
  <1>7. Phase(n, off)'
    BY <1>1 DEF Phase
  <1>8. PacketNext' /\ Outcome' /\ Begins(ran, Written)'
    BY <1>1 DEF Progress, PacketNext, Outcome, Written, Unclosed
  <1>9. \E m \in Nat : \E of : (Covers(m, of) /\ Phase(m, of))'
    BY <1>7, <1>12
  <1>10. QED
    BY <1>8, <1>9 DEF Progress

LEMMA ProgressSend ==
  ASSUME TypeOK, Order, Progress, Send
  PROVE  Progress'
  <1>1. PICK n, off : n \in Nat /\ Covers(n, off) /\ Phase(n, off)
    BY DEF Progress
  <1>2. PICK q : q = stmts[sent + 1]
    OBVIOUS
  <1>3. /\ at = "exec" /\ at' = "wait" /\ sent' = sent + 1 /\ packet' = Found(q) /\ answer' = "ok"
        /\ UNCHANGED <<text, stmts, ran, refused, result>> /\ sent < Len(stmts)
    BY <1>2 DEF Send, Order, splitVars
  <1>4. /\ sent \in 0 .. n /\ n \in 0 .. Len(stmts) /\ Len(stmts) \in Nat
        /\ Len(ran) = off[sent] /\ off[sent] \in Nat
    <2>1. sent \in 0 .. Len(stmts) /\ Len(stmts) \in Nat
      BY DEF TypeOK
    <2>2. sent <= n /\ Len(ran) = off[sent]
      BY <1>1, <1>3 DEF Phase
    <2>3. n \in 0 .. Len(stmts) /\ off \in [0 .. n -> Nat]
      BY <1>1 DEF Covers
    <2>4. QED
      BY <2>1, <2>2, <2>3
  <1>5. Covers(n, off)'
    BY <1>1, <1>3, CoversSame
  <1>6. Found(q) \in Seq(Stmt)
    <2>1. sent + 1 \in 1 .. Len(stmts)
      BY <1>3, <1>4
    <2>2. q \in Seq(Rune)
      BY <1>2, <2>1 DEF TypeOK
    <2>3. QED
      BY <2>2, FoundType
  <1>7. /\ Places(q, off[sent])
        /\ sent < n => Whole(q) /\ off[sent + 1] = off[sent] + Len(Found(q))
        /\ sent = n => Torn(q) /\ (ReadAlike(text) => Unclosed)
    <2>1. CASE sent < n
      <3>1. sent + 1 \in 1 .. n /\ (sent + 1) - 1 = sent
        BY <1>4, <2>1
      <3>2. QED
        BY <1>1, <1>2, <2>1, <3>1 DEF Covers
    <2>2. CASE sent = n
      BY <1>1, <1>2, <1>3, <2>2 DEF Covers
    <2>3. QED
      BY <1>4, <2>1, <2>2
  <1>8. /\ sent' \in 1 .. n + 1 /\ (sent' <= n <=> sent < n) /\ (sent' = n + 1 <=> sent = n)
    BY <1>3, <1>4
  <1>9. Phase(n, off)'
    <2>1. sent < n => \A j \in 1 .. Len(packet') : packet'[j].closed
      BY <1>3, <1>7 DEF Whole
    <2>2. sent < n => Len(ran') + Len(packet') = off[sent']
      BY <1>3, <1>4, <1>7
    <2>3. Torn(q) => Found(q) # <<>> /\ ~Found(q)[Len(Found(q))].closed
      <3>1. ASSUME Torn(q) PROVE Len(Found(q)) \in 1 .. Len(Found(q))
        BY <1>6, <3>1 DEF Torn
      <3>2. QED
        BY <1>6, <3>1 DEF Torn
    <2>4. sent = n => packet' # <<>> /\ ~packet'[Len(packet')].closed
      BY <1>3, <1>7, <2>3
    <2>5. QED
      BY <1>3, <1>8, <2>1, <2>2, <2>4 DEF Phase
  <1>10. PacketNext'
    <2>1. \A j \in 1 .. Len(Found(q)) : Found(q)[j].closed =>
            Len(ran) + j <= Len(Written) /\ Written[Len(ran) + j] = Found(q)[j].words
      BY <1>4, <1>7 DEF Places
    <2>2. ReadAlike(text) /\ ~Unclosed => \A j \in 1 .. Len(Found(q)) : Found(q)[j].closed
      BY <1>4, <1>7 DEF Whole
    <2>3. QED
      BY <1>3, <2>1, <2>2 DEF PacketNext, Written, Unclosed
  <1>11. Outcome' /\ Begins(ran, Written)'
    BY <1>3 DEF Progress, Outcome, Written, Unclosed
  <1>12. \E m \in Nat : \E of : (Covers(m, of) /\ Phase(m, of))'
    BY <1>1, <1>5, <1>9
  <1>13. QED
    BY <1>10, <1>11, <1>12 DEF Progress

LEMMA ProgressAnswered ==
  ASSUME TypeOK, Progress, Answered
  PROVE  Progress'
  <1>1. PICK n, off : n \in Nat /\ Covers(n, off) /\ Phase(n, off)
    BY DEF Progress
  <1>2. /\ at = "wait" /\ packet = <<>>
        /\ UNCHANGED <<text, stmts, sent, ran, packet, answer, refused>>
    BY DEF Answered, splitVars, serverVars
  <1>3. CASE answer = "error"
    <2>1. at' = "close" /\ result' = "failed"
      BY <1>3 DEF Answered, Return
    <2>2. QED
      BY <1>2, <2>1, ProgressSame
  <1>4. CASE answer = "ok"
    <2>1. sent \in 1 .. n /\ Len(ran) = off[sent]
      <3>1. sent \in 1 .. n + 1 /\ sent # n + 1
        BY <1>1, <1>2, <1>4 DEF Phase
      <3>2. sent \in 1 .. n
        BY <1>1, <3>1
      <3>3. Len(ran) + Len(packet) = off[sent]
        BY <1>1, <1>2, <1>4, <3>2 DEF Phase
      <3>4. Len(packet) = 0 /\ Len(ran) \in Nat
        BY <1>2 DEF TypeOK
      <3>5. QED
        BY <3>2, <3>3, <3>4
    <2>2. at' # "wait" /\ at' # "split" /\ result' \in {result, "success"}
          /\ (result' = "success" => result = "success" \/ sent >= Len(stmts))
      <3>1. sent \in Nat /\ Len(stmts) \in Nat
        BY DEF TypeOK
      <3>2. \/ sent < Len(stmts) /\ at' = "exec" /\ result' = result
            \/ ~ (sent < Len(stmts)) /\ at' = "close" /\ result' = "success"
        BY <1>4 DEF Answered, Return
      <3>3. QED
        BY <3>1, <3>2
    <2>3. Covers(n, off)'
      BY <1>1, <1>2, <2>2, CoversSame
    <2>4. Phase(n, off)'
      BY <1>2, <2>1, <2>2 DEF Phase
    <2>5. ASSUME sent >= Len(stmts) PROVE ran = Written
      <3>1. n \in 0 .. Len(stmts) /\ Len(stmts) \in Nat
        BY <1>1 DEF Covers, TypeOK
      <3>2. n = Len(stmts) /\ sent = n
        BY <2>1, <2>5, <3>1
      <3>3. off[n] = Len(Written)
        BY <1>1, <1>2, <3>2 DEF Covers
      <3>4. ran \in Seq(Seq(Rune)) /\ Written \in Seq(Seq(Rune))
        BY TextRunes, StatementsType DEF TypeOK, Written
      <3>5. Len(ran) = Len(Written) /\ Begins(ran, Written)
        BY <2>1, <3>2, <3>3 DEF Progress
      <3>6. QED
        BY <3>4, <3>5, BeginsEqual
    <2>6. result' = "success" => ran' = Written'
      BY <1>2, <2>2, <2>5 DEF Progress, Outcome, Written
    <2>7. PacketNext' /\ Outcome' /\ Begins(ran, Written)'
      BY <1>2, <1>4, <2>6 DEF Progress, PacketNext, Outcome, Written, Unclosed
    <2>8. \E m \in Nat : \E of : (Covers(m, of) /\ Phase(m, of))'
      BY <1>1, <2>3, <2>4
    <2>9. QED
      BY <2>7, <2>8 DEF Progress
  <1>5. QED
    BY <1>3, <1>4 DEF TypeOK

LEMMA ProgressRun ==
  ASSUME TypeOK, Order, Progress, Run
  PROVE  Progress'
  <1>1. PICK n, off : n \in Nat /\ Covers(n, off) /\ Phase(n, off)
    BY DEF Progress
  <1>2. PICK w : w = Head(packet).words
    OBVIOUS
  <1>3. /\ packet # <<>> /\ Head(packet).closed /\ ran' = Append(ran, w) /\ packet' = Tail(packet)
        /\ UNCHANGED <<text, start, stmts, at, sent, answer, refused, result>>
    BY <1>2 DEF Run, splitVars
  <1>4. packet \in Seq(Stmt) /\ ran \in Seq(Seq(Rune))
    BY DEF TypeOK
  <1>5. w \in Seq(Rune)
    <2>1. Head(packet) \in Stmt
      BY <1>3, <1>4
    <2>2. QED
      BY <1>2, <2>1 DEF Stmt
  <1>6. /\ Len(packet) \in Nat \ {0} /\ Len(packet') = Len(packet) - 1
        /\ \A j \in 1 .. Len(packet) - 1 : packet'[j] = packet[j + 1]
        /\ Head(packet) = packet[1]
    BY <1>3, <1>4
  <1>7. /\ Len(ran) \in Nat /\ Len(ran') = Len(ran) + 1 /\ ran'[Len(ran) + 1] = w
        /\ \A j \in 1 .. Len(ran) : ran'[j] = ran[j]
    BY <1>3, <1>4, <1>5
  <1>8. Covers(n, off)'
    BY <1>1, <1>3, CoversSame
  <1>9. Phase(n, off)'
    <2>1. at' # "exec"
      BY <1>3 DEF Order
    <2>2. ASSUME at' = "wait", answer' = "ok"
          PROVE  /\ sent' \in 1 .. n + 1
                 /\ sent' <= n => /\ \A j \in 1 .. Len(packet') : packet'[j].closed
                                  /\ Len(ran') + Len(packet') = off[sent']
                 /\ sent' = n + 1 => packet' # <<>> /\ ~packet'[Len(packet')].closed
      <3>1. /\ sent \in 1 .. n + 1
            /\ sent <= n => /\ \A j \in 1 .. Len(packet) : packet[j].closed
                            /\ Len(ran) + Len(packet) = off[sent]
            /\ sent = n + 1 => ~packet[Len(packet)].closed
        BY <1>1, <1>3, <2>2 DEF Phase
      <3>2. ASSUME sent = n + 1 PROVE packet' # <<>> /\ ~packet'[Len(packet')].closed
        <4>1. Len(packet) # 1
          BY <1>3, <1>6, <3>1, <3>2
        <4>2. Len(packet') \in 1 .. Len(packet) - 1 /\ Len(packet') + 1 = Len(packet)
          BY <1>6, <4>1
        <4>3. packet'[Len(packet')] = packet[Len(packet)]
          BY <1>6, <4>2
        <4>4. Len(<<>>) = 0
          OBVIOUS
        <4>5. packet' # <<>>
          BY <4>2, <4>4
        <4>6. QED
          BY <3>1, <3>2, <4>3, <4>5
      <3>3. sent <= n => Len(ran') + Len(packet') = off[sent]
        BY <1>6, <1>7, <3>1
      <3>4. ASSUME sent <= n, NEW j \in 1 .. Len(packet') PROVE packet'[j].closed
        <4>1. j \in 1 .. Len(packet) - 1 /\ j + 1 \in 1 .. Len(packet)
          BY <1>6
        <4>2. QED
          BY <1>6, <3>1, <3>4, <4>1
      <3>5. QED
        BY <1>3, <3>1, <3>2, <3>3, <3>4
    <2>3. QED
      BY <2>1, <2>2 DEF Phase
  <1>10. /\ \A j \in 1 .. Len(packet) : packet[j].closed =>
              Len(ran) + j <= Len(Written) /\ Written[Len(ran) + j] = packet[j].words
         /\ ReadAlike(text) /\ ~Unclosed => \A j \in 1 .. Len(packet) : packet[j].closed
    BY DEF Progress, PacketNext
  <1>11. PacketNext'
    <2>1. ASSUME NEW j \in 1 .. Len(packet')
          PROVE  /\ packet'[j].closed =>
                      Len(ran') + j <= Len(Written) /\ Written[Len(ran') + j] = packet'[j].words
                 /\ ReadAlike(text) /\ ~Unclosed => packet'[j].closed
      <3>1. j \in 1 .. Len(packet) - 1 /\ j + 1 \in 1 .. Len(packet)
            /\ Len(ran) + (j + 1) = Len(ran') + j
        BY <1>6, <1>7
      <3>2. packet'[j] = packet[j + 1]
        BY <1>6, <3>1
      <3>3. packet[j + 1].closed =>
              Len(ran) + (j + 1) <= Len(Written) /\ Written[Len(ran) + (j + 1)] = packet[j + 1].words
        BY <1>10, <3>1
      <3>4. QED
        BY <1>10, <3>1, <3>2, <3>3
    <2>2. QED
      BY <1>3, <2>1 DEF PacketNext, Written, Unclosed
  <1>12. Begins(ran, Written)'
    <2>1. Len(ran) + 1 <= Len(Written) /\ Written[Len(ran) + 1] = w
      <3>1. 1 \in 1 .. Len(packet) /\ packet[1].closed /\ packet[1].words = w
        BY <1>2, <1>3, <1>6
      <3>2. QED
        BY <1>10, <3>1
    <2>2. \A k \in 1 .. Len(ran) : ran[k] = Written[k]
      BY DEF Progress, Begins
    <2>3. \A k \in 1 .. Len(ran) + 1 : k \in 1 .. Len(ran) \/ k = Len(ran) + 1
      BY <1>7
    <2>4. \A k \in 1 .. Len(ran') : ran'[k] = Written[k]
      BY <1>7, <2>1, <2>2, <2>3
    <2>5. Written' = Written
      BY <1>3 DEF Written
    <2>6. QED
      BY <1>7, <2>1, <2>4, <2>5 DEF Begins
  <1>13. Outcome'
    <2>1. result' # "success"
      BY <1>3 DEF Order
    <2>2. QED
      BY <1>3, <2>1 DEF Progress, Outcome, Unclosed
  <1>14. \E m \in Nat : \E of : (Covers(m, of) /\ Phase(m, of))'
    BY <1>1, <1>8, <1>9
  <1>15. QED
    BY <1>11, <1>12, <1>13, <1>14 DEF Progress

LEMMA ProgressRefuse ==
  ASSUME TypeOK, Order, Progress, Refuse
  PROVE  Progress'
  <1>1. PICK n, off : n \in Nat /\ Covers(n, off) /\ Phase(n, off)
    BY DEF Progress
  <1>2. /\ packet # <<>> /\ packet' = <<>> /\ answer' = "error"
        /\ refused' = (refused \/ Head(packet).closed)
        /\ UNCHANGED <<text, start, stmts, at, sent, ran, result>>
    BY DEF Refuse, splitVars
  <1>3. Covers(n, off)'
    BY <1>1, <1>2, CoversSame
  <1>4. Phase(n, off)'
    <2>1. at # "exec"
      BY <1>2 DEF Order
    <2>2. QED
      BY <1>2, <2>1 DEF Phase
  <1>5. PacketNext'
    <2>1. Len(packet') = 0 /\ 1 .. 0 = {}
      BY <1>2
    <2>2. QED
      BY <2>1 DEF PacketNext
  <1>6. Outcome'
    <2>1. packet \in Seq(Stmt)
      BY DEF TypeOK
    <2>2. 1 \in 1 .. Len(packet) /\ Head(packet) = packet[1]
      BY <1>2, <2>1
    <2>3. ReadAlike(text) /\ ~Unclosed => Head(packet).closed
      BY <2>2 DEF Progress, PacketNext
    <2>4. result' # "success"
      BY <1>2 DEF Order
    <2>5. QED
      BY <1>2, <2>3, <2>4 DEF Outcome, Unclosed
  <1>7. Begins(ran, Written)'
    BY <1>2 DEF Progress, Written
  <1>8. \E m \in Nat : \E of : (Covers(m, of) /\ Phase(m, of))'
    BY <1>1, <1>3, <1>4
  <1>9. QED
    BY <1>5, <1>6, <1>7, <1>8 DEF Progress

LEMMA ProgressHangup ==
  ASSUME TypeOK, Progress, Hangup
  PROVE  Progress'
  <1>1. PICK n, off : n \in Nat /\ Covers(n, off) /\ Phase(n, off)
    BY DEF Progress
  <1>2. /\ at \in {"close", "done"} /\ packet' = <<>>
        /\ UNCHANGED <<text, start, stmts, at, sent, answer, ran, refused, result>>
    BY DEF Hangup, splitVars
  <1>3. Covers(n, off)'
    BY <1>1, <1>2, CoversSame
  <1>4. Phase(n, off)'
    BY <1>2 DEF Phase
  <1>5. PacketNext'
    <2>1. Len(packet') = 0 /\ 1 .. 0 = {}
      BY <1>2
    <2>2. QED
      BY <2>1 DEF PacketNext
  <1>6. Outcome' /\ Begins(ran, Written)'
    BY <1>2 DEF Progress, Outcome, Written, Unclosed
  <1>7. \E m \in Nat : \E of : (Covers(m, of) /\ Phase(m, of))'
    BY <1>1, <1>3, <1>4
  <1>8. QED
    BY <1>5, <1>6, <1>7 DEF Progress

LEMMA ProgressStep ==
  ASSUME TypeOK, Order, NoDashes, InStep, CutSafe(text), Progress, [Next]_vars
  PROVE  Progress'
  <1>1. ASSUME NEW r \in Rune, Lex(r) PROVE Progress'
    <2>1. /\ UNCHANGED <<text, start, stmts, at, sent, ran, packet, answer, refused>>
          /\ result' = result
      BY <1>1, LexMoves DEF Idles, serverVars
    <2>2. QED
      BY <2>1, ProgressSame
  <1>2. CASE UNCHANGED vars \/ Reconnect \/ Drop
    <2>1. /\ UNCHANGED <<text, start, stmts, at, sent, ran, packet, answer, refused>>
          /\ result' = result
      BY <1>2 DEF vars, Reconnect, Drop, splitVars, serverVars
    <2>2. QED
      BY <2>1, ProgressSame
  <1>3. CASE AnswerLost \/ Timeout \/ Close
    <2>1. /\ UNCHANGED <<text, stmts, sent, ran, packet, answer, refused>>
          /\ at' \in {"close", "done"} /\ (result' = result \/ result' = "failed")
      BY <1>3 DEF AnswerLost, Timeout, Close, Return, splitVars, serverVars
    <2>2. QED
      BY <2>1, ProgressSame
  <1>4. QED
    BY <1>1, <1>2, <1>3, NextCases, ProgressCut, ProgressEnd, ProgressPing, ProgressSend,
       ProgressAnswered, ProgressRun, ProgressRefuse, ProgressHangup

-----------------------------------------------------------------------------
(* A failure has a reason.                                                 *)

\* A script of which no piece is left has only blanks and semicolons.
LEMMA NothingThere ==
  ASSUME TypeOK, BlankSoFar, EndSplit, stmts' = <<>>
  PROVE  Range(text) \subseteq Blank \cup {";"}
  <1>1. at = "split" /\ pos = Len(text) + 1 /\ stmts' = Flush
    BY DEF EndSplit
  <1>2. PICK q : q = TrimSpace(SubSeq(text, start, pos - 1))
    OBVIOUS
  <1>3. /\ q = <<>> => Flush = stmts
        /\ q # <<>> => Flush = Append(stmts, q)
        /\ start \in 1 .. Len(text) + 1 /\ pos - 1 \in start - 1 .. Len(text)
    BY <1>2, FlushCases
  <1>4. text \in Seq(Rune) /\ Len(text) \in Nat
    BY TextRunes
  <1>5. DOMAIN text = 1 .. Len(text)
    BY ONLY <1>4
  <1>6. q = <<>> /\ stmts = <<>>
    <2>1. Append(stmts, q) # <<>>
      <3>1. stmts \in Seq(Seq(Rune) \ {<<>>})
        BY DEF TypeOK
      <3>2. Len(Append(stmts, q)) = Len(stmts) + 1 /\ Len(stmts) \in Nat
        BY ONLY <3>1
      <3>3. QED
        BY ONLY <3>2
    <2>2. QED
      BY <1>1, <1>3, <2>1
  <1>7. \A i \in start .. pos - 1 : text[i] \in Blank
    BY <1>2, <1>3, <1>4, <1>6, TrimPiece
  <1>8. \A i \in 1 .. start - 1 : text[i] \in Blank \cup {";"}
    BY <1>1, <1>6 DEF BlankSoFar
  <1>9. ASSUME NEW i \in 1 .. Len(text) PROVE text[i] \in Blank \cup {";"}
    <2>1. i \in 1 .. start - 1 \/ i \in start .. pos - 1
      <3>1. start \in Int /\ pos = Len(text) + 1
        BY <1>1, <1>3, <1>4
      <3>2. QED
        BY ONLY <1>4, <3>1, i \in 1 .. Len(text)
    <2>2. QED
      BY <1>7, <1>8, <2>1
  <1>10. QED
    BY <1>5, <1>9 DEF Range

LEMMA FailureStep ==
  ASSUME IInv, [Next]_vars
  PROVE  FailureHasReason'
  <1> USE DEF Return
  <1>1. /\ TypeOK /\ Order /\ BlankSoFar /\ Reason /\ FailureHasReason
        /\ CutSafe(text) => Progress
    BY DEF IInv
  <1>2. /\ text' = text /\ (refused => refused') /\ (broken => broken')
        /\ \/ result' # "failed" \/ result = "failed"
           \/ (EndSplit /\ stmts' = <<>>) \/ (Answered /\ answer = "error")
           \/ AnswerLost \/ Timeout
    <2>1. ASSUME NEW r \in Rune, Lex(r)
          PROVE  UNCHANGED <<text, refused, broken, result>>
      BY <1>1, <2>1, LexMoves DEF Idles, serverVars
    <2>8. Cut => UNCHANGED <<text, refused, result, broken>>
      BY DEF Cut, serverVars
    <2>2. UNCHANGED vars \/ Ping \/ Send \/ Reconnect \/ Close \/ Run \/ Drop \/ Hangup
            => UNCHANGED <<text, refused, result>> /\ (broken => broken')
      BY DEF vars, Ping, Send, Reconnect, Close, Run, Drop, Hangup, serverVars
    <2>3. Refuse => UNCHANGED <<text, result, broken>> /\ (refused => refused')
      BY DEF Refuse
    <2>4. EndSplit => /\ UNCHANGED <<text, refused, broken>>
                      /\ result' = result \/ stmts' = <<>>
      BY DEF EndSplit, serverVars
    <2>5. Answered => /\ UNCHANGED <<text, refused, broken>>
                      /\ result' # "failed" \/ result = "failed" \/ answer = "error"
      BY DEF Answered, serverVars
    <2>6. AnswerLost \/ Timeout => UNCHANGED <<text, refused>> /\ (broken => broken')
      BY DEF AnswerLost, Timeout, serverVars
    <2>7. QED
      BY <2>1, <2>2, <2>3, <2>4, <2>5, <2>6, <2>8, NextCases
  <1>3. SUFFICES ASSUME result' = "failed", ReadAlike(text)
                 PROVE  refused' \/ broken' \/ Range(text) \subseteq Blank \cup {";"} \/ Unclosed
    BY <1>2 DEF FailureHasReason, Unclosed
  <1>4. CASE result = "failed"
    BY <1>1, <1>2, <1>3, <1>4 DEF FailureHasReason, Unclosed
  <1>5. CASE EndSplit /\ stmts' = <<>>
    BY <1>1, <1>5, NothingThere
  <1>6. CASE Answered /\ answer = "error"
    <2>1. Outcome
      BY <1>1, <1>3 DEF CutSafe, Progress
    <2>2. QED
      BY <1>2, <1>3, <1>6, <2>1 DEF Outcome
  <1>7. CASE AnswerLost
    <2>1. broken
      BY <1>1, <1>7 DEF AnswerLost, Reason
    <2>2. QED
      BY <1>2, <2>1
  <1>8. CASE Timeout
    BY <1>8 DEF Timeout
  <1>9. QED
    BY <1>2, <1>3, <1>4, <1>5, <1>6, <1>7, <1>8

-----------------------------------------------------------------------------
(* The invariant, and what follows from it.                                *)

LEMMA InvInit == Init => IInv
  <1> SUFFICES ASSUME Init PROVE IInv
    OBVIOUS
  <1>1. TypeOK /\ Order
    BY InitType
  <1>2. /\ at = "ping" /\ conn = "down" /\ stmts = <<>> /\ sent = 0 /\ result = "none"
        /\ packet = <<>> /\ answer = "ok" /\ db = EmptyDb /\ ran = <<>>
    BY DEF Init
  <1>3. NoDashes /\ InStep /\ BlankSoFar /\ Reason /\ FailureHasReason
    BY <1>2 DEF NoDashes, InStep, BlankSoFar, Reason, FailureHasReason
  <1>4. DbOK
    BY <1>2, EffectDef DEF DbOK
  <1>5. Progress
    <2> DEFINE off == [k \in 0 .. 0 |-> 0]
    <2>1. PICK n \in Nat : n = 0
      OBVIOUS
    <2>2. /\ n \in 0 .. Len(stmts) /\ off \in [0 .. n -> Nat] /\ off[0] = 0
          /\ 1 .. n = {} /\ ~ (n < Len(stmts))
      BY <1>2, <2>1
    <2> HIDE DEF off
    <2>3. Covers(n, off) /\ Phase(n, off)
      BY <1>2, <2>2 DEF Covers, Phase
    <2>4. Len(packet) = 0 /\ 1 .. 0 = {} /\ Len(ran) = 0
      BY <1>2
    <2>5. Len(Written) \in Nat
      <3>1. Written \in Seq(Seq(Rune))
        BY <1>1, TextRunes, StatementsType DEF Written
      <3>2. QED
        BY <3>1
    <2>6. PacketNext /\ Outcome /\ Begins(ran, Written)
      BY <1>2, <2>4, <2>5 DEF PacketNext, Outcome, Begins
    <2>7. QED
      BY <2>1, <2>3, <2>6 DEF Progress
  <1>6. QED
    BY <1>1, <1>3, <1>4, <1>5 DEF IInv

LEMMA InvStep == IInv /\ [Next]_vars => IInv'
  <1> SUFFICES ASSUME IInv, [Next]_vars PROVE IInv'
    OBVIOUS
  <1>1. /\ TypeOK /\ Order /\ NoDashes /\ InStep /\ BlankSoFar /\ Reason /\ DbOK
        /\ CutSafe(text) => Progress
    BY DEF IInv
  <1>2. TypeOK' /\ Order' /\ NoDashes' /\ InStep' /\ BlankSoFar' /\ Reason' /\ DbOK'
    BY <1>1, TypeStep, OrderStep, NoDashesStep, InStepStep, BlankSoFarStep, ReasonStep, DbStep
  <1>3. text' = text
    <2>1. (\E r \in Rune : Lex(r)) => text' = text
      BY <1>1, LexMoves DEF Idles
    <2>2. QED
      BY <2>1, NextCases DEF vars, Cut, EndSplit, Ping, Send, Reconnect, Answered, AnswerLost,
                             Timeout, Close, Run, Refuse, Drop, Hangup
  <1>4. CutSafe(text)' => Progress'
    BY <1>1, <1>3, ProgressStep
  <1>5. FailureHasReason'
    BY FailureStep
  <1>6. QED
    BY <1>2, <1>4, <1>5 DEF IInv

\* Every state has the types declared for it.
THEOREM TypeCorrect == Spec => []TypeOK
  <1>1. Init => TypeOK /\ Order
    BY InitType
  <1>2. TypeOK /\ Order /\ [Next]_vars => (TypeOK /\ Order)'
    BY TypeStep, OrderStep
  <1>3. QED
    BY <1>1, <1>2, PTL DEF Spec

\* The splitter has read as far as the server, in the same mode where they read
\* alike; the pieces it has made cover the statements before the cut; and what
\* was sent, runs and has run is what comes next of them.
THEOREM Inductive == Spec => []IInv
  BY InvInit, InvStep, PTL DEF Spec

\* splitSQLStatements and Execute: the server runs the statements of the script,
\* each once and in order, and after a success all of them, wherever the script
\* is cut and whatever is lost on the way.
THEOREM InOrder == Spec => []RunsAsWritten
  <1>1. IInv => RunsAsWritten
    <2> SUFFICES ASSUME IInv, CutSafe(text)
                 PROVE  IsPrefix(ran, Written) /\ (result = "success" => ran = Written)
      BY DEF RunsAsWritten, Written
    <2>1. Begins(ran, Written) /\ Outcome
      BY DEF IInv, Progress
    <2>2. ran \in Seq(Seq(Rune)) /\ Written \in Seq(Seq(Rune))
      BY TextRunes, StatementsType DEF IInv, TypeOK, Written
    <2>3. QED
      BY <2>1, <2>2, BeginsIsPrefix DEF Outcome
  <1>2. QED
    BY <1>1, Inductive, PTL

\* Execute: what a success leaves in the database is what the statements of the
\* script leave there, unless a lost connection took a transaction with it.
THEOREM Kept == Spec => []KeptAsWritten
  <1>1. IInv => KeptAsWritten
    <2> SUFFICES ASSUME IInv, result = "success", CutSafe(text),
                        broken => <<"b">> \notin Range(Written)
                 PROVE  db.kept = Effect(Written).kept
      BY DEF KeptAsWritten, Written
    <2>1. ran = Written
      BY DEF IInv, Progress, Outcome
    <2>2. QED
      BY <2>1 DEF IInv, DbOK
  <1>2. QED
    BY <1>1, Inductive, PTL

\* Execute: a script that the splitter reads as the server does fails only for
\* what it says, for what the server refuses, or for a lost connection or time.
THEOREM FailsForAReason == Spec => []FailureHasReason
  <1>1. IInv => FailureHasReason
    BY DEF IInv
  <1>2. QED
    BY <1>1, Inductive, PTL
=============================================================================
