------------------------- MODULE LogFormatterProofs -------------------------
(* The parser of patterns and the formatting of messages, for patterns of *)
(* every length and any characters.                                       *)
EXTENDS LogFormatter, SequenceTheorems, WellFoundedInduction, TLAPS

-----------------------------------------------------------------------------
(* Numbers and patterns. *)

LEMMA LeastNatural ==
  ASSUME NEW T, T \subseteq Nat, T # {}
  PROVE  \E n \in T : \A m \in T : n <= m
<1> DEFINE R == {p \in Nat \X Nat : p[1] < p[2]}
<1>1. IsWellFoundedOn(R, Nat)
  BY NatLessThanWellFounded DEF OpToRel
<1>2. PICK n \in T : \A m \in T : <<m, n>> \notin R
  <2>. HIDE DEF R
  <2>. QED BY <1>1, WFMin, Zenon
<1>3. ASSUME NEW m \in T PROVE n <= m
  <2>1. m \in Nat /\ n \in Nat /\ ~(m < n)
    BY <1>2
  <2>. QED BY <2>1
<1>. QED BY <1>3

LEMMA CharacterKinds ==
  /\ "end" \notin Characters
  /\ {"%", LeftBrace, RightBrace} \subseteq Characters
  /\ \A c \in Letters : c \in Characters /\ c \notin {"%", LeftBrace, RightBrace, "end"}
  /\ \A c \in Known : c \in Letters
  /\ "%" # LeftBrace /\ "%" # RightBrace /\ LeftBrace # RightBrace /\ "end" # LeftBrace /\ "end" # RightBrace
<1>1. "%" # LeftBrace /\ "%" # RightBrace /\ LeftBrace # RightBrace /\ "end" # LeftBrace /\ "end" # RightBrace
  BY Zenon DEF LeftBrace, RightBrace
<1>. QED BY <1>1, FormatterAssumption DEF Characters

PatternOK == m_pattern \in Seq(Characters)

LEMMA Positions ==
  ASSUME PatternOK
  PROVE  /\ Size \in Nat
         /\ \A k \in 1 .. Size : At(k) = m_pattern[k] /\ At(k) \in Characters
         /\ \A k \in Nat \ {0} : At(k) # "end" => k \in 1 .. Size
         /\ \A k \in Nat : k > Size => At(k) = "end"
BY DEF PatternOK, Size, At

LEMMA FirstAfterProperties ==
  ASSUME PatternOK, NEW k \in Nat, k <= Size, NEW characters
  PROVE  /\ FirstAfter(k, characters) \in k + 1 .. Size + 1
         /\ FirstAfter(k, characters) <= Size => m_pattern[FirstAfter(k, characters)] \in characters
         /\ \A m \in k + 1 .. FirstAfter(k, characters) - 1 : m_pattern[m] \notin characters
<1> DEFINE places == {n \in k + 1 .. Size : m_pattern[n] \in characters}
           n == FirstAfter(k, characters)
<1>1. Size \in Nat
  BY Positions
<1>2. CASE places = {}
  <2>1. n = Size + 1
    BY <1>2 DEF FirstAfter
  <2>. QED BY <1>1, <1>2, <2>1
<1>3. CASE places # {}
  <2>1. \E p \in places : \A m \in places : p <= m
    <3>1. places \subseteq Nat
      BY <1>1
    <3>. HIDE DEF places
    <3>. QED BY <1>3, <3>1, LeastNatural
  <2>2. n \in places /\ \A m \in places : n <= m
    <3>1. n = CHOOSE p \in places : \A m \in places : p <= m
      BY <1>3 DEF FirstAfter
    <3>. HIDE DEF places, n
    <3>. QED BY <2>1, <3>1
  <2>3. n \in k + 1 .. Size /\ m_pattern[n] \in characters
    BY <2>2
  <2>4. ASSUME NEW m \in k + 1 .. n - 1 PROVE m_pattern[m] \notin characters
    <3>1. m \in k + 1 .. Size /\ ~(n <= m)
      BY <1>1, <2>3, <2>4
    <3>. QED BY <2>2, <3>1
  <2>. QED BY <1>1, <2>3, <2>4
<1>. QED BY <1>2, <1>3

\* There is only one first position.
LEMMA FirstAfterIs ==
  ASSUME PatternOK, NEW k \in Nat, k <= Size, NEW characters,
         NEW n \in k + 1 .. Size + 1,
         n <= Size => m_pattern[n] \in characters,
         \A m \in k + 1 .. n - 1 : m_pattern[m] \notin characters
  PROVE  FirstAfter(k, characters) = n
<1> DEFINE f == FirstAfter(k, characters)
<1>1. /\ Size \in Nat /\ f \in k + 1 .. Size + 1
      /\ f <= Size => m_pattern[f] \in characters
      /\ \A m \in k + 1 .. f - 1 : m_pattern[m] \notin characters
  BY Positions, FirstAfterProperties
<1>. HIDE DEF f
<1>2. ~(f < n)
  BY <1>1
<1>3. ~(n < f)
  BY <1>1
<1>. QED BY <1>1, <1>2, <1>3 DEF f

LEMMA PartOfPattern ==
  ASSUME PatternOK, NEW m \in Nat \ {0}, NEW n \in Int, n <= Size
  PROVE  /\ SubSeq(m_pattern, m, n) \in Seq(Characters)
         /\ Len(SubSeq(m_pattern, m, n)) = IF m <= n THEN n - m + 1 ELSE 0
         /\ \A k \in 1 .. n - m + 1 : SubSeq(m_pattern, m, n)[k] = m_pattern[m + k - 1]
<1>1. \A k \in m .. n : m_pattern[k] \in Characters
  BY Positions DEF PatternOK, Size
<1>. QED BY <1>1, SubSeqProperties

-----------------------------------------------------------------------------
(* Types. *)

\* The elements of vec.
Entry == (Seq(Characters) \cup {"<<pattern_error>>"}) \X Seq(Characters) \X {0, 1}

Items == {ItemOf(v) : v \in Entry}

TInv ==
  /\ TypeOK
  /\ vec \in Seq(Entry)
  /\ m_items \in Seq(Items)
  /\ pc = "parse" => line = <<>> /\ width = 0

LEMMA InitTInv == Init => TInv
<1> SUFFICES ASSUME Init PROVE TInv
  OBVIOUS
<1>1. m_pattern \in Seq(Characters)
  BY FormatterAssumption DEF Init, SeqOf
<1>2. Len(m_pattern) \in Nat
  BY <1>1
<1>3. /\ <<>> \in Seq(Characters) /\ <<>> \in Seq(Entry) /\ <<>> \in Seq(Items)
      /\ <<>> \in Seq(BOOLEAN) /\ Len(<<>>) = 0
  OBVIOUS
<1>4. /\ i = 1 /\ n_str = <<>> /\ vec = <<>> /\ m_items = <<>> /\ m_error = FALSE
      /\ pc = "parse" /\ line = <<>> /\ width = 0
  BY DEF Init
<1>5. Len(vec) = 0 /\ Len(line) = 0 /\ Len(m_items) = 0
  BY <1>3, <1>4
<1>6. TypeOK
  <2>1. i \in 1 .. Size + 1
    BY <1>2, <1>4 DEF Size
  <2>2. Len(vec) <= 2 * (i - 1)
    BY <1>4, <1>5
  <2>3. Len(line) <= Len(m_items)
    BY <1>5
  <2>. QED BY <1>1, <1>3, <1>4, <2>1, <2>2, <2>3 DEF TypeOK
<1>. QED BY <1>3, <1>4, <1>6 DEF TInv

LEMMA FunctionSeq ==
  ASSUME NEW S, NEW n \in Nat, NEW f \in [1 .. n -> S]
  PROVE  f \in Seq(S) /\ Len(f) = n
OBVIOUS

\* Appending to vec.
LEMMA Appended ==
  ASSUME NEW s \in Seq(Entry), NEW e \in Entry, NEW v, v = Append(s, e)
  PROVE  /\ v \in Seq(Entry) /\ Len(v) = Len(s) + 1 /\ Len(s) \in Nat
         /\ \A k \in 1 .. Len(s) : v[k] = s[k]
         /\ v[Len(s) + 1] = e
BY AppendProperties

LEMMA TextEntry == \A s \in Seq(Characters) : <<s, <<>>, 0>> \in Entry
<1>1. <<>> \in Seq(Characters)
  OBVIOUS
<1>. QED BY <1>1 DEF Entry

\* What a conversion adds to vec: at most two elements.
LEMMA PushProperties ==
  ASSUME TInv, NEW e \in Entry, NEW v, v = Append(WithPending, e)
  PROVE  /\ v \in Seq(Entry)
         /\ Len(v) = IF Pending = <<>> THEN Len(vec) + 1 ELSE Len(vec) + 2
         /\ \A k \in 1 .. Len(vec) : v[k] = vec[k]
         /\ v[Len(v)] = e
         /\ Pending # <<>> => v[Len(vec) + 1] = <<Pending, <<>>, 0>>
<1>1. Pending \in Seq(Characters)
  BY CharacterKinds DEF Pending, TInv, TypeOK
<1>2. PICK text : text = <<Pending, <<>>, 0>>
  OBVIOUS
<1>3. text \in Entry /\ vec \in Seq(Entry) /\ Len(vec) \in Nat
  BY <1>1, <1>2, TextEntry DEF TInv
<1>4. CASE Pending = <<>>
  <2>1. v = Append(vec, e)
    BY <1>4 DEF WithPending
  <2>2. /\ v \in Seq(Entry) /\ Len(v) = Len(vec) + 1
        /\ \A k \in 1 .. Len(vec) : v[k] = vec[k]
        /\ v[Len(vec) + 1] = e
    BY <1>3, <2>1, Appended
  <2>. QED BY <1>4, <2>2
<1>5. CASE Pending # <<>>
  <2>1. PICK w : w = Append(vec, text)
    OBVIOUS
  <2>2. /\ w \in Seq(Entry) /\ Len(w) = Len(vec) + 1
        /\ \A k \in 1 .. Len(vec) : w[k] = vec[k]
        /\ w[Len(vec) + 1] = text
    BY <1>3, <2>1, Appended
  <2>3. v = Append(w, e)
    BY <1>2, <1>5, <2>1 DEF WithPending
  <2>4. /\ v \in Seq(Entry) /\ Len(v) = Len(w) + 1
        /\ \A k \in 1 .. Len(w) : v[k] = w[k]
        /\ v[Len(w) + 1] = e
    BY <2>2, <2>3, Appended
  <2>. QED BY <1>2, <1>3, <1>5, <2>2, <2>4
<1>. QED BY <1>4, <1>5

\* The position after a conversion.
LEMMA PushTInv ==
  ASSUME TInv, pc = "parse", i <= Size,
         NEW name \in Seq(Characters), NEW fmt \in Seq(Characters),
         NEW n \in i + 1 .. Size + 1, Push(name, fmt, n)
  PROVE  TInv'
<1>1. /\ vec' \in Seq(Entry)
      /\ Len(vec') <= Len(vec) + 2 /\ Len(vec) \in Nat /\ Len(vec') \in Nat
  <2>1. Len(vec) \in Nat
    BY DEF TInv
  <2>2. vec' = Append(WithPending, <<name, fmt, 1>>)
    BY DEF Push
  <2>3. vec' \in Seq(Entry) /\ (Len(vec') = Len(vec) + 1 \/ Len(vec') = Len(vec) + 2)
    <3>1. <<name, fmt, 1>> \in Entry
      BY DEF Entry
    <3>. QED BY <2>2, <3>1, PushProperties
  <2>. QED BY <2>1, <2>3
<1>2. Size \in Nat /\ Size' = Size
  BY DEF TInv, TypeOK, Size, Push
<1>3. Len(vec') <= 2 * (n - 1)
  BY <1>1, <1>2 DEF TInv, TypeOK
<1>. QED BY <1>1, <1>2, <1>3 DEF TInv, TypeOK, Push

\* A conversion: where its name ends, and that the pattern goes on after it.
LEMMA ConversionShape ==
  ASSUME TInv, At(i) = "%"
  PROVE  /\ i \in 1 .. Size
         /\ NameEnd(i) \in i + 1 .. Size + 1
         /\ \A m \in i + 1 .. NameEnd(i) - 1 : m_pattern[m] \in Letters \cup {RightBrace}
         /\ SubSeq(m_pattern, i + 1, NameEnd(i) - 1) \in Seq(Characters)
         /\ At(NameEnd(i)) = LeftBrace =>
              /\ NameEnd(i) <= Size
              /\ FormatEnd(NameEnd(i)) \in NameEnd(i) + 1 .. Size + 1
              /\ FormatEnd(NameEnd(i)) <= Size =>
                   FormatText(NameEnd(i), FormatEnd(NameEnd(i))) \in Seq(Characters)
<1> DEFINE open == NameEnd(i)
           close == FormatEnd(open)
<1>1. PatternOK /\ Size \in Nat /\ i \in 1 .. Size
  BY Positions DEF TInv, TypeOK, PatternOK
<1>2. /\ open \in i + 1 .. Size + 1
      /\ \A m \in i + 1 .. open - 1 : m_pattern[m] \notin Characters \ (Letters \cup {RightBrace})
  BY <1>1, FirstAfterProperties DEF NameEnd
<1>3. \A m \in i + 1 .. open - 1 : m_pattern[m] \in Letters \cup {RightBrace}
  BY <1>1, <1>2 DEF PatternOK, Size
<1>4. SubSeq(m_pattern, i + 1, open - 1) \in Seq(Characters)
  <2>1. i + 1 \in Nat \ {0} /\ open - 1 \in Int /\ open - 1 <= Size
    BY <1>1, <1>2
  <2>. QED BY <1>1, <2>1, PartOfPattern
<1>5. ASSUME At(open) = LeftBrace
      PROVE  /\ open <= Size
             /\ close \in open + 1 .. Size + 1
             /\ close <= Size => FormatText(open, close) \in Seq(Characters)
  <2>1. open \in 1 .. Size
    <3>1. open \in Nat \ {0}
      BY <1>1, <1>2
    <3>. QED BY <1>1, <1>5, <3>1, Positions, CharacterKinds
  <2>2. close \in open + 1 .. Size + 1
    BY <1>1, <2>1, FirstAfterProperties DEF FormatEnd
  <2>3. ASSUME close <= Size PROVE FormatText(open, close) \in Seq(Characters)
    <3>1. open + 1 \in Nat \ {0} /\ close - 1 \in Int /\ close - 1 <= Size
      BY <1>1, <2>1, <2>2, <2>3
    <3>. QED BY <1>1, <3>1, PartOfPattern DEF FormatText
  <2>. QED BY <1>1, <2>1, <2>2, <2>3
<1>. QED BY <1>1, <1>2, <1>3, <1>4, <1>5

\* What Finish makes of the last text.
LEMMA FinishProperties ==
  ASSUME TInv, NEW all, all = (IF n_str = <<>> THEN vec ELSE Append(vec, <<n_str, <<>>, 0>>))
  PROVE  /\ all \in Seq(Entry)
         /\ Len(all) = IF n_str = <<>> THEN Len(vec) ELSE Len(vec) + 1
         /\ \A k \in 1 .. Len(vec) : all[k] = vec[k]
         /\ n_str # <<>> => all[Len(vec) + 1] = <<n_str, <<>>, 0>>
         /\ [k \in DOMAIN all |-> ItemOf(all[k])] \in Seq(Items)
         /\ Len([k \in DOMAIN all |-> ItemOf(all[k])]) = Len(all)
<1>1. <<n_str, <<>>, 0>> \in Entry
  BY TextEntry DEF TInv, TypeOK
<1>2. /\ all \in Seq(Entry)
      /\ Len(all) = IF n_str = <<>> THEN Len(vec) ELSE Len(vec) + 1
      /\ \A k \in 1 .. Len(vec) : all[k] = vec[k]
      /\ n_str # <<>> => all[Len(vec) + 1] = <<n_str, <<>>, 0>>
  BY <1>1, Appended DEF TInv
<1>3. DOMAIN all = 1 .. Len(all) /\ Len(all) \in Nat /\ \A k \in DOMAIN all : all[k] \in Entry
  BY <1>2
<1>4. [k \in DOMAIN all |-> ItemOf(all[k])] \in [1 .. Len(all) -> Items]
  BY <1>3 DEF Items
<1>5. /\ [k \in DOMAIN all |-> ItemOf(all[k])] \in Seq(Items)
      /\ Len([k \in DOMAIN all |-> ItemOf(all[k])]) = Len(all)
  <2> DEFINE items == [k \in DOMAIN all |-> ItemOf(all[k])]
  <2>. HIDE DEF items
  <2>1. items \in Seq(Items) /\ Len(items) = Len(all)
    BY <1>3, <1>4, FunctionSeq DEF items
  <2>. QED BY <2>1 DEF items
<1>. QED BY <1>2, <1>5

LEMMA NextTInv == TInv /\ [Next]_vars => TInv'
<1> SUFFICES ASSUME TInv, [Next]_vars PROVE TInv'
  OBVIOUS
<1>0. Size \in Nat /\ Len(vec) \in Nat /\ Len(m_items) \in Nat /\ PatternOK
  BY DEF TInv, TypeOK, Size, PatternOK
<1>1. CASE TextChar
  <2>1. m_pattern[i] \in Characters
    BY <1>0, <1>1 DEF TextChar, TInv, TypeOK, Size
  <2>2. /\ n_str' \in Seq(Characters) /\ i' = i + 1 /\ i' \in 1 .. Size + 1
        /\ UNCHANGED <<m_pattern, vec, m_items, m_error, pc, line, width>>
    BY <1>0, <1>1, <2>1, AppendProperties DEF TextChar, TInv, TypeOK
  <2>. QED BY <1>0, <2>2 DEF TInv, TypeOK, Size
<1>2. CASE Conversion
  <2>1. pc = "parse" /\ At(i) = "%"
        /\ Push(SubSeq(m_pattern, i + 1, NameEnd(i) - 1), <<>>, NameEnd(i))
    BY <1>2 DEF Conversion
  <2>2. <<>> \in Seq(Characters) /\ i <= Size
    BY <2>1, ConversionShape
  <2>. QED BY <2>1, <2>2, ConversionShape, PushTInv
<1>3. CASE ConversionWithFormat
  <2> DEFINE close == FormatEnd(NameEnd(i))
  <2>1. pc = "parse" /\ At(i) = "%" /\ At(NameEnd(i)) = LeftBrace /\ close <= Size
        /\ Push(SubSeq(m_pattern, i + 1, NameEnd(i) - 1), FormatText(NameEnd(i), close), close + 1)
    BY <1>3 DEF ConversionWithFormat
  <2>2. close + 1 \in i + 1 .. Size + 1 /\ i <= Size
    BY <1>0, <2>1, ConversionShape
  <2>. QED BY <2>1, <2>2, ConversionShape, PushTInv
<1>4. CASE Unclosed
  <2>1. i \in 1 .. Size
    BY <1>4, ConversionShape DEF Unclosed
  <2>2. <<"<<pattern_error>>", <<>>, 0>> \in Entry
    <3>1. <<>> \in Seq(Characters)
      OBVIOUS
    <3>. QED BY <3>1 DEF Entry
  <2>3. /\ vec' \in Seq(Entry) /\ Len(vec') = Len(vec) + 1 /\ i' = i + 1
        /\ m_error' = TRUE
        /\ UNCHANGED <<m_pattern, n_str, m_items, pc, line, width>>
    BY <1>4, <2>2, Appended DEF Unclosed, TInv
  <2>. QED BY <1>0, <2>1, <2>3 DEF TInv, TypeOK, Size
<1>5. CASE Finish
  <2> DEFINE all == IF n_str = <<>> THEN vec ELSE Append(vec, <<n_str, <<>>, 0>>)
  <2>1. m_items' \in Seq(Items) /\ Len(m_items') \in Nat
    <3>1. m_items' = [k \in DOMAIN all |-> ItemOf(all[k])]
      BY <1>5 DEF Finish
    <3>2. Len(m_items') = Len(all) /\ m_items' \in Seq(Items)
      BY <3>1, FinishProperties
    <3>. QED BY <3>2
  <2>2. m_error' \in BOOLEAN
    BY <1>5 DEF Finish, TInv, TypeOK
  <2>3. /\ pc = "parse" /\ pc' = "ready"
        /\ UNCHANGED <<m_pattern, i, n_str, vec, line, width>>
    BY <1>5 DEF Finish
  <2>. QED BY <2>1, <2>2, <2>3 DEF TInv, TypeOK, Size
<1>6. CASE FormatItem
  <2>1. line' \in Seq(BOOLEAN) /\ Len(line') = Len(line) + 1 /\ Len(line') <= Len(m_items)
    BY <1>0, <1>6, AppendProperties DEF FormatItem, TInv, TypeOK
  <2>2. width' \in {0, 5}
    BY <1>6 DEF FormatItem, WidthAfter, TInv, TypeOK
  <2>3. /\ pc = "ready"
        /\ UNCHANGED <<m_pattern, i, n_str, vec, m_items, m_error, pc>>
    BY <1>6 DEF FormatItem
  <2>. QED BY <2>1, <2>2, <2>3 DEF TInv, TypeOK, Size
<1>7. CASE NextMessage
  BY <1>0, <1>7 DEF NextMessage, TInv, TypeOK, Size
<1>8. CASE UNCHANGED vars
  BY <1>8 DEF vars, TInv, TypeOK, Size
<1>. QED BY <1>1, <1>2, <1>3, <1>4, <1>5, <1>6, <1>7, <1>8 DEF Next

THEOREM TInvHolds == Spec => []TInv
BY InitTInv, NextTInv, PTL DEF Spec

\* The parser stays within the pattern, keeps at most two elements of vec for
\* each character, and formats no item that is not there.
THEOREM TypesHold == Spec => []TypeOK
BY TInvHolds, PTL DEF TInv

-----------------------------------------------------------------------------
(* Padding. *)

\* A tab is the last item that has been printed, line feeds apart.
AfterTab(n) ==
  \E j \in 1 .. n : IsItem(j, "T") /\ \A m \in j + 1 .. n : IsItem(m, "n")

PadInv == PaddingLocal /\ (width # 0 <=> AfterTab(Len(line)))

LEMMA AfterTabNext ==
  ASSUME NEW n \in Nat
  PROVE  /\ ~AfterTab(0)
         /\ AfterTab(n + 1) <=> \/ IsItem(n + 1, "T")
                                \/ IsItem(n + 1, "n") /\ AfterTab(n)
<1>1. ~AfterTab(0)
  BY DEF AfterTab
<1>2. ASSUME AfterTab(n + 1)
      PROVE  IsItem(n + 1, "T") \/ (IsItem(n + 1, "n") /\ AfterTab(n))
  <2>1. PICK j \in 1 .. n + 1 : IsItem(j, "T") /\ \A m \in j + 1 .. n + 1 : IsItem(m, "n")
    BY <1>2 DEF AfterTab
  <2>2. CASE j = n + 1
    BY <2>1, <2>2
  <2>3. CASE j # n + 1
    <3>1. j \in 1 .. n /\ n + 1 \in j + 1 .. n + 1 /\ \A m \in j + 1 .. n : m \in j + 1 .. n + 1
      BY <2>3
    <3>. QED BY <2>1, <3>1 DEF AfterTab
  <2>. QED BY <2>2, <2>3
<1>3. ASSUME IsItem(n + 1, "T") PROVE AfterTab(n + 1)
  <2>1. n + 1 \in 1 .. n + 1 /\ (n + 1) + 1 .. n + 1 = {}
    OBVIOUS
  <2>. QED BY <1>3, <2>1 DEF AfterTab
<1>4. ASSUME IsItem(n + 1, "n"), AfterTab(n) PROVE AfterTab(n + 1)
  <2>1. PICK j \in 1 .. n : IsItem(j, "T") /\ \A m \in j + 1 .. n : IsItem(m, "n")
    BY <1>4 DEF AfterTab
  <2>2. j \in 1 .. n + 1 /\ \A m \in j + 1 .. n + 1 : m \in j + 1 .. n \/ m = n + 1
    OBVIOUS
  <2>. QED BY <1>4, <2>1, <2>2 DEF AfterTab
<1>. QED BY <1>1, <1>2, <1>3, <1>4

LEMMA NextPadInv == TInv /\ PadInv /\ [Next]_vars => PadInv'
<1> SUFFICES ASSUME TInv, PadInv, [Next]_vars PROVE PadInv'
  OBVIOUS
<1>1. CASE TextChar \/ Conversion \/ ConversionWithFormat \/ Unclosed \/ Finish
  <2>1. line = <<>> /\ width = 0 /\ UNCHANGED <<line, width>>
    BY <1>1 DEF TextChar, Conversion, ConversionWithFormat, Unclosed, Finish, Push, TInv
  <2>2. ~AfterTab(0)'
    BY DEF AfterTab
  <2>. QED BY <2>1, <2>2 DEF PadInv, PaddingLocal
<1>2. CASE FormatItem
  <2> DEFINE n == Len(line)
  <2>1. n \in Nat /\ UNCHANGED m_items /\ width' = WidthAfter(n + 1)
        /\ line' = Append(line, width # 0 /\ ~IsItem(n + 1, "n"))
    BY <1>2 DEF FormatItem, TInv, TypeOK
  <2>2. /\ Len(line') = n + 1
        /\ \A k \in 1 .. n : line'[k] = line[k]
        /\ line'[n + 1] = (width # 0 /\ ~IsItem(n + 1, "n"))
        /\ DOMAIN line' = 1 .. n + 1 /\ DOMAIN line = 1 .. n
    BY <2>1, AppendProperties DEF TInv, TypeOK
  <2>3. \A k : AfterTab(k)' = AfterTab(k)
    BY <2>1 DEF AfterTab, IsItem
  <2>4. \A k \in 1 .. n : line[k] <=> ~IsItem(k, "n") /\ AfterTab(k - 1)
    BY <2>2 DEF PadInv, PaddingLocal, AfterTab
  <2>5. \A k \in 1 .. n + 1 : line'[k] <=> ~IsItem(k, "n") /\ AfterTab(k - 1)
    <3>1. TAKE k \in 1 .. n + 1
    <3>2. CASE k \in 1 .. n
      BY <2>2, <2>4, <3>2
    <3>3. CASE k = n + 1
      <4>1. k - 1 = n
        BY <2>1, <3>3
      <4>. QED BY <2>2, <3>3, <4>1 DEF PadInv
    <3>. QED BY <2>1, <3>2, <3>3
  <2>6. PaddingLocal'
    <3>1. \A k \in DOMAIN line' : line'[k] <=> ~IsItem(k, "n") /\ AfterTab(k - 1)
      BY <2>2, <2>5
    <3>. QED BY <2>1, <3>1 DEF PaddingLocal, AfterTab, IsItem
  <2>7. width' # 0 <=> AfterTab(n + 1)
    <3>1. ~(IsItem(n + 1, "T") /\ IsItem(n + 1, "n"))
      BY DEF IsItem
    <3>. QED BY <2>1, <3>1, AfterTabNext DEF WidthAfter, PadInv
  <2>. QED BY <2>2, <2>3, <2>6, <2>7 DEF PadInv
<1>3. CASE NextMessage
  <2>1. line' = <<>> /\ width' = 0 /\ ~AfterTab(0)'
    BY <1>3 DEF NextMessage, AfterTab
  <2>. QED BY <2>1 DEF PadInv, PaddingLocal
<1>4. CASE UNCHANGED vars
  BY <1>4 DEF vars, PadInv, PaddingLocal, AfterTab, IsItem
<1>. QED BY <1>1, <1>2, <1>3, <1>4 DEF Next

\* A tab pads the item that comes next, line feeds apart, and nothing else of its
\* message or of another.
THEOREM PaddingLocalHolds == Spec => []PaddingLocal
<1>1. Init => PadInv
  BY DEF Init, PadInv, PaddingLocal, AfterTab
<1>2. PadInv => PaddingLocal
  BY DEF PadInv
<1>. QED BY <1>1, <1>2, TInvHolds, NextPadInv, PTL DEF Spec

-----------------------------------------------------------------------------
(* Errors.  A pattern that is well formed, without an escape, has its           *)
(* conversions where the parser finds them; one in which the parser finds no    *)
(* error is well formed, with the conversions that it has found, and cannot be  *)
(* read with an escape.                                                         *)

Inside(starts, k) == \E m \in starts, n \in 1 .. Size : m < k /\ k <= n /\ Closes(m, n)

Meant(starts) ==
  /\ starts \in SUBSET Percents
  /\ \A k \in starts : IsConversion(k)
  /\ \A k \in Percents : k \in starts <=> ~Inside(starts, k)

\* A percent at k belongs to a conversion or an escape before it.
Covered(starts, k) == \E m \in starts : Covers(m, k)

\* The pattern up to position p, where no format is open.
PrefixAt(starts, p) ==
  /\ starts \in SUBSET Percents
  /\ \A k \in starts : k < p /\ IsConversion(k) /\ \A n \in 1 .. Size : Closes(k, n) => n < p
  /\ \A k \in Percents : k < p => (k \in starts <=> ~Inside(starts, k))

AllKnown(v) == \A k \in DOMAIN v : v[k][3] = 1 => IsKnown(v[k][1])

Clean == ~m_error /\ AllKnown(vec)

ParseInv ==
  pc = "parse" =>
    /\ \A starts \in SUBSET Percents : Meant(starts) => Clean /\ ~Inside(starts, i)
    /\ Clean => \E starts \in SUBSET Percents : PrefixAt(starts, i)
    /\ Clean => \A starts \in SUBSET Percents : Reads(starts) =>
                  ~Covered(starts, i) /\ \A k \in starts : k < i => ~IsEscape(k)

ErrInv == ParseInv /\ ErrorExact

\* Where the parser resumes after a sound conversion.
After(k) == IF At(k + 2) = LeftBrace THEN FormatEnd(k + 2) + 1 ELSE k + 2

\* A conversion is no escape, so that what is meant is what can be read without.
LEMMA MeantIs ==
  ASSUME TInv, NEW starts \in SUBSET Percents
  PROVE  Meant(starts) <=> Reads(starts) /\ \A k \in starts : ~IsEscape(k)
<1>1. \A k : IsConversion(k) => ~IsEscape(k)
  BY CharacterKinds DEF IsConversion, IsEscape
<1>2. ASSUME \A k \in starts : ~IsEscape(k)
      PROVE  \A k : Inside(starts, k) <=> Covered(starts, k)
  BY <1>2 DEF Inside, Covered, Covers
<1>. QED BY <1>1, <1>2 DEF Meant, Reads, Covered

LEMMA PatternTyped == TInv => PatternOK /\ Size \in Nat /\ i \in 1 .. Size + 1
BY DEF TInv, TypeOK, PatternOK, Size

\* There is one place where a format is closed, and it is where the parser finds it.
LEMMA ClosesIs ==
  ASSUME PatternOK, NEW k \in 1 .. Size, NEW n \in 1 .. Size
  PROVE  Closes(k, n) <=> At(k + 2) = LeftBrace /\ FormatEnd(k + 2) = n
<1>1. Size \in Nat /\ k \in Nat /\ k + 2 \in Nat \ {0} /\ (k + 2) + 1 = k + 3
  BY Positions
<1>2. ASSUME At(k + 2) = LeftBrace
      PROVE  k + 2 \in 1 .. Size
  BY <1>1, <1>2, Positions, CharacterKinds
<1>3. ASSUME Closes(k, n) PROVE At(k + 2) = LeftBrace /\ FormatEnd(k + 2) = n
  <2>1. /\ At(k + 2) = LeftBrace /\ n \in k + 3 .. Size /\ m_pattern[n] = RightBrace
        /\ \A m \in k + 3 .. n - 1 : m_pattern[m] # RightBrace
    BY <1>3 DEF Closes
  <2>2. k + 2 <= Size /\ n \in (k + 2) + 1 .. Size + 1
    BY <1>1, <1>2, <2>1
  <2>3. m_pattern[n] \in {RightBrace} /\ \A m \in (k + 2) + 1 .. n - 1 : m_pattern[m] \notin {RightBrace}
    BY <1>1, <2>1
  <2>4. FirstAfter(k + 2, {RightBrace}) = n
    BY <1>1, <2>2, <2>3, FirstAfterIs
  <2>. QED BY <2>1, <2>4 DEF FormatEnd
<1>4. ASSUME At(k + 2) = LeftBrace, FormatEnd(k + 2) = n PROVE Closes(k, n)
  <2>1. k + 2 <= Size /\ n <= Size /\ FirstAfter(k + 2, {RightBrace}) = n
    BY <1>1, <1>2, <1>4 DEF FormatEnd
  <2>2. /\ n \in (k + 2) + 1 .. Size + 1 /\ m_pattern[n] \in {RightBrace}
        /\ \A m \in (k + 2) + 1 .. n - 1 : m_pattern[m] \notin {RightBrace}
    BY <1>1, <2>1, FirstAfterProperties
  <2>3. n \in k + 3 .. Size /\ m_pattern[n] = RightBrace
        /\ \A m \in k + 3 .. n - 1 : m_pattern[m] # RightBrace
    BY <1>1, <2>1, <2>2
  <2>. QED BY <1>4, <2>3 DEF Closes
<1>. QED BY <1>3, <1>4

\* The name of a sound conversion is its letter.
LEMMA NameOfSound ==
  ASSUME TInv, At(i) = "%", IsConversion(i)
  PROVE  /\ NameEnd(i) = i + 2
         /\ IsKnown(SubSeq(m_pattern, i + 1, NameEnd(i) - 1))
         /\ i + 1 <= Size /\ m_pattern[i + 1] # "%"
         /\ At(i + 2) = LeftBrace => Closes(i, FormatEnd(i + 2)) /\ FormatEnd(i + 2) \in 1 .. Size
<1>1. PatternOK /\ Size \in Nat /\ i \in 1 .. Size
  BY PatternTyped, ConversionShape
<1>2. /\ At(i + 1) \in Letters /\ At(i + 1) \in Known /\ i + 1 \in 1 .. Size
      /\ m_pattern[i + 1] = At(i + 1) /\ m_pattern[i + 1] # "%"
  <2>1. At(i + 1) \in Known /\ At(i + 1) \in Letters /\ At(i + 1) # "end" /\ At(i + 1) # "%"
    BY CharacterKinds DEF IsConversion
  <2>2. i + 1 \in 1 .. Size
    BY <1>1, <2>1, Positions
  <2>. QED BY <1>1, <2>1, <2>2, Positions
<1>3. ASSUME NEW n \in 1 .. Size, Closes(i, n)
      PROVE  At(i + 2) = LeftBrace /\ FormatEnd(i + 2) = n
  BY <1>1, <1>3, ClosesIs
<1>4. At(i + 2) \notin Letters \cup {RightBrace}
  <2>1. CASE At(i + 2) \notin Letters \cup {LeftBrace, RightBrace}
    BY <2>1
  <2>2. CASE \E n \in 1 .. Size : Closes(i, n)
    BY <1>3, <2>2, CharacterKinds
  <2>. QED BY <2>1, <2>2 DEF IsConversion
<1>5. NameEnd(i) = i + 2
  <2>1. i + 2 \in i + 1 .. Size + 1
    BY <1>1, <1>2
  <2>2. i + 2 <= Size => m_pattern[i + 2] \in Characters \ (Letters \cup {RightBrace})
    BY <1>1, <1>4, Positions
  <2>3. \A m \in i + 1 .. (i + 2) - 1 : m_pattern[m] \notin Characters \ (Letters \cup {RightBrace})
    BY <1>1, <1>2
  <2>4. FirstAfter(i, Characters \ (Letters \cup {RightBrace})) = i + 2
    <3>. i \in Nat /\ i <= Size
      BY <1>1
    <3>. QED BY <1>1, <2>1, <2>2, <2>3, FirstAfterIs
  <2>. QED BY <2>4 DEF NameEnd
<1>6. IsKnown(SubSeq(m_pattern, i + 1, NameEnd(i) - 1))
  <2>1. NameEnd(i) - 1 = i + 1 /\ i + 1 \in Nat \ {0} /\ i + 1 <= Size
    BY <1>1, <1>2, <1>5
  <2>2. Len(SubSeq(m_pattern, i + 1, i + 1)) = 1
        /\ SubSeq(m_pattern, i + 1, i + 1)[1] = m_pattern[i + 1]
    BY <1>1, <2>1, PartOfPattern
  <2>. QED BY <1>2, <2>1, <2>2 DEF IsKnown
<1>7. At(i + 2) = LeftBrace => Closes(i, FormatEnd(i + 2)) /\ FormatEnd(i + 2) \in 1 .. Size
  BY <1>3 DEF IsConversion
<1>. QED BY <1>2, <1>5, <1>6, <1>7

\* A conversion that the parser accepts is sound.
LEMMA SoundOfName ==
  ASSUME TInv, At(i) = "%", IsKnown(SubSeq(m_pattern, i + 1, NameEnd(i) - 1)),
         At(NameEnd(i)) = LeftBrace => FormatEnd(NameEnd(i)) <= Size
  PROVE  IsConversion(i)
<1> DEFINE open == NameEnd(i)
<1>1. PatternOK /\ Size \in Nat /\ i \in 1 .. Size /\ open \in i + 1 .. Size + 1
  BY PatternTyped, ConversionShape
<1>2. i + 1 \in Nat \ {0} /\ open - 1 \in Int /\ open - 1 <= Size
  BY <1>1
<1>3. Len(SubSeq(m_pattern, i + 1, open - 1)) = 1 /\ SubSeq(m_pattern, i + 1, open - 1)[1] \in Known
  BY DEF IsKnown
<1>4. open = i + 2
  BY <1>1, <1>2, <1>3, PartOfPattern
<1>5. At(i + 1) \in Known
  <2>1. SubSeq(m_pattern, i + 1, open - 1)[1] = m_pattern[i + 1] /\ i + 1 \in 1 .. Size
    BY <1>1, <1>2, <1>4, PartOfPattern
  <2>. QED BY <1>1, <1>3, <2>1, Positions
<1>6. CASE At(i + 2) = LeftBrace
  <2>1. FormatEnd(i + 2) \in 1 .. Size
    BY <1>1, <1>4, <1>6, ConversionShape
  <2>. QED BY <1>1, <1>5, <1>6, <2>1, ClosesIs DEF IsConversion
<1>7. CASE At(i + 2) # LeftBrace
  <2>1. At(i + 2) \notin Letters \cup {RightBrace}
    <3>1. CASE i + 2 <= Size
      <4>1. i \in Nat /\ i <= Size
        BY <1>1
      <4>2. m_pattern[i + 2] \in Characters \ (Letters \cup {RightBrace})
        BY <1>1, <1>4, <3>1, <4>1, FirstAfterProperties DEF NameEnd
      <4>. QED BY <1>1, <3>1, <4>2, Positions
    <3>2. CASE i + 2 > Size
      BY <1>1, <3>2, Positions, CharacterKinds
    <3>. QED BY <1>1, <3>1, <3>2
  <2>. QED BY <1>5, <1>7, <2>1 DEF IsConversion
<1>. QED BY <1>6, <1>7

\* The parser resumes where no format is open, and has skipped no start.
LEMMA AfterMeant ==
  ASSUME TInv, At(i) = "%", NEW starts, Meant(starts), ~Inside(starts, i)
  PROVE  i \in starts /\ IsConversion(i) /\ ~Inside(starts, After(i))
<1>1. PatternOK /\ Size \in Nat /\ i \in 1 .. Size /\ At(i) = m_pattern[i]
  BY PatternTyped, ConversionShape, Positions
<1>2. i \in starts /\ IsConversion(i)
  BY <1>1 DEF Meant, Percents
<1>3. ASSUME NEW m \in starts, NEW n \in 1 .. Size, m < After(i), After(i) <= n, Closes(m, n)
      PROVE  FALSE
  <2>1. m \in 1 .. Size /\ m_pattern[m] = "%" /\ ~Inside(starts, m)
    BY DEF Meant, Percents
  <2>2. After(i) \in Nat /\ i < After(i)
    BY <1>1, <1>2, NameOfSound, ConversionShape DEF After
  <2>3. ~(m < i)
    BY <1>1, <1>3, <2>1, <2>2 DEF Inside
  <2>4. CASE At(i + 2) = LeftBrace
    <3>1. Closes(i, FormatEnd(i + 2)) /\ FormatEnd(i + 2) \in 1 .. Size /\ After(i) = FormatEnd(i + 2) + 1
      BY <1>2, <2>4, NameOfSound DEF After
    <3>2. m # i
      BY <1>1, <1>3, <3>1, ClosesIs
    <3>3. i < m /\ m <= FormatEnd(i + 2)
      BY <1>1, <1>3, <2>1, <2>3, <3>1, <3>2
    <3>. QED BY <1>2, <2>1, <3>1, <3>3 DEF Inside
  <2>5. CASE At(i + 2) # LeftBrace
    <3>1. After(i) = i + 2 /\ m_pattern[i + 1] # "%"
      BY <1>2, <2>5, NameOfSound DEF After
    <3>2. m # i
      BY <1>1, <1>3, <2>5, ClosesIs
    <3>. QED BY <1>1, <1>3, <2>1, <2>3, <3>1, <3>2
  <2>. QED BY <2>4, <2>5
<1>. QED BY <1>2, <1>3 DEF Inside

\* The same for what may have escapes, when the parser finds a conversion.
LEMMA AfterReads ==
  ASSUME TInv, At(i) = "%", IsConversion(i), NEW starts \in SUBSET Percents,
         Reads(starts), ~Covered(starts, i), \A k \in starts : k < i => ~IsEscape(k)
  PROVE  /\ ~Covered(starts, After(i))
         /\ \A k \in starts : k < After(i) => ~IsEscape(k)
<1>1. PatternOK /\ Size \in Nat /\ i \in 1 .. Size /\ At(i) = m_pattern[i] /\ i \in Percents
  BY PatternTyped, ConversionShape, Positions DEF Percents
<1>2. i \in starts /\ ~IsEscape(i)
  BY <1>1, CharacterKinds DEF Reads, Covered, IsConversion, IsEscape
<1>3. After(i) \in Nat /\ i + 2 <= After(i)
  <2>1. CASE At(i + 2) = LeftBrace
    BY <1>1, <2>1, NameOfSound, ConversionShape DEF After
  <2>2. CASE At(i + 2) # LeftBrace
    BY <1>1, <2>2 DEF After
  <2>. QED BY <2>1, <2>2
<1>4. ASSUME NEW m \in starts, i < m
      PROVE  m \in 1 .. Size /\ After(i) <= m
  <2>1. m \in 1 .. Size /\ m_pattern[m] = "%" /\ ~Covered(starts, m)
    BY DEF Reads, Covered, Percents
  <2>2. CASE At(i + 2) = LeftBrace
    <3>1. Closes(i, FormatEnd(i + 2)) /\ FormatEnd(i + 2) \in 1 .. Size /\ After(i) = FormatEnd(i + 2) + 1
      BY <2>2, NameOfSound DEF After
    <3>2. ~(m <= FormatEnd(i + 2))
      BY <1>2, <1>4, <2>1, <3>1 DEF Covered, Covers
    <3>. QED BY <2>1, <3>1, <3>2
  <2>3. CASE At(i + 2) # LeftBrace
    <3>1. After(i) = i + 2 /\ m_pattern[i + 1] # "%"
      BY <2>3, NameOfSound DEF After
    <3>2. m # i + 1
      BY <2>1, <3>1
    <3>. QED BY <1>1, <1>4, <2>1, <3>1, <3>2
  <2>. QED BY <2>2, <2>3
<1>5. \A m \in starts : m \in 1 .. Size
  BY DEF Percents
<1>6. \A k \in starts : k < After(i) => ~IsEscape(k)
  <2> SUFFICES ASSUME NEW k \in starts, k < After(i) PROVE ~IsEscape(k)
    OBVIOUS
  <2>1. ~(i < k)
    BY <1>3, <1>4, <1>5
  <2>2. k < i \/ k = i
    BY <1>1, <1>5, <2>1
  <2>. QED BY <1>2, <2>2
<1>7. ASSUME NEW m \in starts, Covers(m, After(i))
      PROVE  FALSE
  <2>1. m \in 1 .. Size
    BY <1>5
  <2>2. ~(i < m)
    <3>1. Covers(m, After(i)) => m < After(i)
      BY <1>3, <2>1 DEF Covers
    <3>. QED BY <1>3, <1>4, <1>7, <2>1, <3>1
  <2>3. ~IsEscape(m)
    BY <1>1, <1>2, <2>1, <2>2
  <2>4. PICK n \in 1 .. Size : m < After(i) /\ After(i) <= n /\ Closes(m, n)
    BY <1>7, <2>3 DEF Covers
  <2>5. CASE m = i
    <3>1. At(i + 2) = LeftBrace /\ FormatEnd(i + 2) = n
      BY <1>1, <2>4, <2>5, ClosesIs
    <3>. QED BY <1>1, <2>4, <3>1 DEF After
  <2>6. CASE m < i
    <3>1. i <= n
      BY <1>1, <1>3, <2>4
    <3>2. Covers(m, i)
      BY <2>3, <2>4, <2>6, <3>1 DEF Covers
    <3>. QED BY <3>2 DEF Covered
  <2>. QED BY <1>1, <2>1, <2>2, <2>5, <2>6
<1>. QED BY <1>6, <1>7 DEF Covered

LEMMA AfterPrefix ==
  ASSUME TInv, At(i) = "%", NEW starts, PrefixAt(starts, i), IsConversion(i)
  PROVE  PrefixAt(starts \cup {i}, After(i))
<1>1. PatternOK /\ Size \in Nat /\ i \in 1 .. Size /\ i \in Percents
  BY PatternTyped, ConversionShape, Positions DEF Percents
<1>2. After(i) \in Nat /\ i < After(i)
  BY <1>1, NameOfSound, ConversionShape DEF After
<1>3. \A k \in starts : k \in 1 .. Size /\ k < i /\ IsConversion(k) /\ \A n \in 1 .. Size : Closes(k, n) => n < i
  BY DEF PrefixAt, Percents
<1>4. \A n \in 1 .. Size : Closes(i, n) => After(i) = n + 1
  BY <1>1, ClosesIs DEF After
<1>5. \A k \in starts \cup {i} :
        k < After(i) /\ IsConversion(k) /\ \A n \in 1 .. Size : Closes(k, n) => n < After(i)
  BY <1>1, <1>2, <1>3, <1>4
<1>6. ASSUME NEW k \in Percents, k < After(i)
      PROVE  k \in starts \cup {i} <=> ~Inside(starts \cup {i}, k)
  <2>1. k \in 1 .. Size /\ m_pattern[k] = "%"
    BY DEF Percents
  <2>2. CASE k < i
    <3>1. Inside(starts \cup {i}, k) <=> Inside(starts, k)
      BY <1>1, <2>1, <2>2 DEF Inside
    <3>. QED BY <2>1, <2>2, <3>1 DEF PrefixAt
  <2>3. CASE k = i
    <3>1. ~Inside(starts \cup {i}, i)
      BY <1>1, <1>3 DEF Inside
    <3>. QED BY <2>3, <3>1
  <2>4. CASE i < k
    <3>1. At(i + 2) = LeftBrace
      BY <1>1, <1>6, <2>1, <2>4, NameOfSound DEF After
    <3>2. Closes(i, FormatEnd(i + 2)) /\ FormatEnd(i + 2) \in 1 .. Size /\ After(i) = FormatEnd(i + 2) + 1
      BY <3>1, NameOfSound DEF After
    <3>3. k <= FormatEnd(i + 2)
      BY <1>6, <2>1, <3>2
    <3>4. Inside(starts \cup {i}, k)
      BY <2>4, <3>2, <3>3 DEF Inside
    <3>5. k \notin starts \cup {i}
      BY <1>1, <1>3, <2>1, <2>4
    <3>. QED BY <3>4, <3>5
  <2>. QED BY <1>1, <2>1, <2>2, <2>3, <2>4
<1>. QED BY <1>1, <1>5, <1>6 DEF PrefixAt

-----------------------------------------------------------------------------
\* A conversion is added to the elements of vec, with or without a text.
LEMMA PushClean ==
  ASSUME TInv, NEW name \in Seq(Characters), NEW fmt \in Seq(Characters), NEW n, Push(name, fmt, n)
  PROVE  Clean' <=> Clean /\ IsKnown(name)
<1>1. PICK e : e = <<name, fmt, 1>>
  OBVIOUS
<1>2. e \in Entry /\ e[3] = 1 /\ e[1] = name
  BY <1>1 DEF Entry
<1>3. /\ vec' \in Seq(Entry) /\ vec \in Seq(Entry)
      /\ Len(vec') = IF Pending = <<>> THEN Len(vec) + 1 ELSE Len(vec) + 2
      /\ \A k \in 1 .. Len(vec) : vec'[k] = vec[k]
      /\ vec'[Len(vec')] = e
      /\ Pending # <<>> => vec'[Len(vec) + 1] = <<Pending, <<>>, 0>>
  <2>1. vec' = Append(WithPending, e)
    BY <1>1 DEF Push
  <2>. QED BY <1>2, <2>1, PushProperties DEF TInv
<1>4. Pending # <<>> => vec'[Len(vec) + 1][3] = 0
  BY <1>3
<1>5. Len(vec) \in Nat /\ DOMAIN vec = 1 .. Len(vec) /\ DOMAIN vec' = 1 .. Len(vec')
  BY <1>3
<1>6. AllKnown(vec') <=> AllKnown(vec) /\ IsKnown(name)
  <2>1. ASSUME AllKnown(vec') PROVE AllKnown(vec) /\ IsKnown(name)
    <3>1. Len(vec') \in DOMAIN vec' /\ \A k \in DOMAIN vec : k \in DOMAIN vec'
      BY <1>3, <1>5
    <3>. QED BY <1>2, <1>3, <1>5, <2>1, <3>1 DEF AllKnown
  <2>2. ASSUME AllKnown(vec), IsKnown(name) PROVE AllKnown(vec')
    <3>1. SUFFICES ASSUME NEW k \in DOMAIN vec', vec'[k][3] = 1 PROVE IsKnown(vec'[k][1])
      BY DEF AllKnown
    <3>2. k \in 1 .. Len(vec) \/ k = Len(vec') \/ (Pending # <<>> /\ k = Len(vec) + 1)
      BY <1>3, <1>5
    <3>3. CASE k \in 1 .. Len(vec)
      BY <1>3, <1>5, <2>2, <3>1, <3>3 DEF AllKnown
    <3>4. CASE k = Len(vec')
      BY <1>2, <1>3, <2>2, <3>4
    <3>5. CASE Pending # <<>> /\ k = Len(vec) + 1
      BY <1>4, <3>1, <3>5
    <3>. QED BY <3>2, <3>3, <3>4, <3>5
  <2>. QED BY <2>1, <2>2
<1>7. m_error' = m_error
  BY DEF Push
<1>. QED BY <1>6, <1>7 DEF Clean

\* What the definitions above say of another state with the same pattern.
LEMMA SamePattern ==
  ASSUME m_pattern' = m_pattern
  PROVE  /\ Percents' = Percents /\ Size' = Size
         /\ \A starts : Meant(starts)' <=> Meant(starts)
         /\ \A starts, k : Inside(starts, k)' <=> Inside(starts, k)
         /\ \A starts, k : PrefixAt(starts, k)' <=> PrefixAt(starts, k)
         /\ \A starts : Reads(starts)' <=> Reads(starts)
         /\ \A starts, k : Covered(starts, k)' <=> Covered(starts, k)
         /\ \A k : IsEscape(k)' <=> IsEscape(k)
         /\ WellFormed' <=> WellFormed
         /\ HasEscape' <=> HasEscape
BY DEF Percents, Size, Meant, Inside, PrefixAt, IsConversion, Closes, At, WellFormed, HasEscape,
   Reads, Covered, Covers, IsEscape

LEMMA PushErrInv ==
  ASSUME TInv, ErrInv, pc = "parse", At(i) = "%",
         At(NameEnd(i)) = LeftBrace => FormatEnd(NameEnd(i)) <= Size,
         NEW fmt \in Seq(Characters), NEW n,
         n = IF At(NameEnd(i)) = LeftBrace THEN FormatEnd(NameEnd(i)) + 1 ELSE NameEnd(i),
         Push(SubSeq(m_pattern, i + 1, NameEnd(i) - 1), fmt, n)
  PROVE  ErrInv'
<1> DEFINE name == SubSeq(m_pattern, i + 1, NameEnd(i) - 1)
<1>1. m_pattern' = m_pattern /\ pc' = "parse" /\ i' = n
  BY DEF Push
<1>2. Clean' <=> Clean /\ IsKnown(name)
  BY ConversionShape, PushClean
<1>3. IsConversion(i) => n = After(i)
  BY NameOfSound DEF After
<1>4. ASSUME NEW starts \in SUBSET Percents, Meant(starts) PROVE Clean' /\ ~Inside(starts, n)
  <2>1. Clean /\ ~Inside(starts, i)
    BY <1>4 DEF ErrInv, ParseInv
  <2>2. IsConversion(i) /\ ~Inside(starts, After(i))
    BY <1>4, <2>1, AfterMeant
  <2>. QED BY <1>2, <1>3, <2>1, <2>2, NameOfSound
<1>5. ASSUME Clean' PROVE \E starts \in SUBSET Percents : PrefixAt(starts, n)
  <2>1. Clean /\ IsConversion(i)
    BY <1>2, <1>5, SoundOfName
  <2>2. PICK starts \in SUBSET Percents : PrefixAt(starts, i)
    BY <2>1 DEF ErrInv, ParseInv
  <2>3. PrefixAt(starts \cup {i}, n)
    BY <1>3, <2>1, <2>2, AfterPrefix
  <2>4. starts \cup {i} \in SUBSET Percents
    BY <2>3 DEF PrefixAt
  <2>. QED BY <2>3, <2>4
<1>6. ASSUME Clean', NEW starts \in SUBSET Percents, Reads(starts)
      PROVE  ~Covered(starts, n) /\ \A k \in starts : k < n => ~IsEscape(k)
  <2>1. Clean /\ IsConversion(i)
    BY <1>2, <1>6, SoundOfName
  <2>2. ~Covered(starts, i) /\ \A k \in starts : k < i => ~IsEscape(k)
    BY <1>6, <2>1 DEF ErrInv, ParseInv
  <2>. QED BY <1>3, <1>6, <2>1, <2>2, AfterReads
<1>7. ParseInv'
  BY <1>1, <1>4, <1>5, <1>6, SamePattern DEF ParseInv
<1>8. ErrorExact'
  BY <1>1 DEF ErrorExact
<1>. QED BY <1>7, <1>8 DEF ErrInv

LEMMA NextErrInv == TInv /\ ErrInv /\ [Next]_vars => ErrInv'
<1> SUFFICES ASSUME TInv, ErrInv, [Next]_vars PROVE ErrInv'
  OBVIOUS
<1>0. PatternOK /\ Size \in Nat /\ i \in 1 .. Size + 1
  BY PatternTyped
<1>1. CASE TextChar
  <2>1. /\ pc = "parse" /\ pc' = "parse" /\ i <= Size /\ m_pattern[i] # "%" /\ i' = i + 1
        /\ UNCHANGED <<m_pattern, vec, m_error>>
    BY <1>1 DEF TextChar
  <2>2. Clean' <=> Clean
    BY <2>1 DEF Clean, AllKnown, IsKnown
  <2>3. i \notin Percents
    BY <2>1 DEF Percents
  <2>4. ASSUME NEW starts \in SUBSET Percents, Meant(starts) PROVE Clean' /\ ~Inside(starts, i + 1)
    <3>1. Clean /\ ~Inside(starts, i)
      BY <2>1, <2>4 DEF ErrInv, ParseInv
    <3>2. ASSUME NEW m \in starts, NEW n \in 1 .. Size, m < i + 1, i + 1 <= n, Closes(m, n) PROVE FALSE
      <4>1. m \in 1 .. Size /\ m # i
        BY <2>3 DEF Percents
      <4>2. m < i /\ i <= n
        BY <1>0, <3>2, <4>1
      <4>. QED BY <3>1, <3>2, <4>2 DEF Inside
    <3>. QED BY <2>2, <3>1, <3>2 DEF Inside
  <2>5. ASSUME Clean' PROVE \E starts \in SUBSET Percents : PrefixAt(starts, i + 1)
    <3>1. PICK starts \in SUBSET Percents : PrefixAt(starts, i)
      BY <2>1, <2>2, <2>5 DEF ErrInv, ParseInv
    <3>2. \A k \in Percents : k \in 1 .. Size /\ (k < i + 1 <=> k < i)
      BY <1>0, <2>3 DEF Percents
    <3>3. \A n \in 1 .. Size : n < i => n < i + 1
      BY <1>0
    <3>. QED BY <3>1, <3>2, <3>3 DEF PrefixAt
  <2>6. ASSUME Clean', NEW starts \in SUBSET Percents, Reads(starts)
        PROVE  ~Covered(starts, i + 1) /\ \A k \in starts : k < i + 1 => ~IsEscape(k)
    <3>1. ~Covered(starts, i) /\ \A k \in starts : k < i => ~IsEscape(k)
      BY <2>1, <2>2, <2>6 DEF ErrInv, ParseInv
    <3>2. \A k \in starts : k \in 1 .. Size /\ k # i
      BY <2>3 DEF Percents
    <3>3. ASSUME NEW k \in starts, Covers(k, i + 1) PROVE Covers(k, i)
      <4>1. k \in 1 .. Size /\ k # i
        BY <3>2
      <4>. QED BY <1>0, <3>3, <4>1 DEF Covers
    <3>4. \A k \in starts : k < i + 1 => k < i
      BY <1>0, <3>2
    <3>. QED BY <3>1, <3>3, <3>4 DEF Covered
  <2>7. ParseInv'
    BY <2>1, <2>4, <2>5, <2>6, SamePattern DEF ParseInv
  <2>. QED BY <2>1, <2>7 DEF ErrInv, ErrorExact
<1>2. CASE Conversion
  <2>1. /\ pc = "parse" /\ At(i) = "%" /\ At(NameEnd(i)) # LeftBrace
        /\ Push(SubSeq(m_pattern, i + 1, NameEnd(i) - 1), <<>>, NameEnd(i))
    BY <1>2 DEF Conversion
  <2>2. <<>> \in Seq(Characters)
    OBVIOUS
  <2>. QED BY <2>1, <2>2, PushErrInv
<1>3. CASE ConversionWithFormat
  <2> DEFINE close == FormatEnd(NameEnd(i))
  <2>1. /\ pc = "parse" /\ At(i) = "%" /\ At(NameEnd(i)) = LeftBrace /\ close <= Size
        /\ Push(SubSeq(m_pattern, i + 1, NameEnd(i) - 1), FormatText(NameEnd(i), close), close + 1)
    BY <1>3 DEF ConversionWithFormat
  <2>2. FormatText(NameEnd(i), close) \in Seq(Characters)
    BY <2>1, ConversionShape
  <2>. QED BY <2>1, <2>2, PushErrInv
<1>4. CASE Unclosed
  <2>1. /\ pc = "parse" /\ pc' = "parse" /\ At(i) = "%" /\ At(NameEnd(i)) = LeftBrace
        /\ FormatEnd(NameEnd(i)) = Size + 1 /\ m_error' = TRUE /\ m_pattern' = m_pattern
    BY <1>4 DEF Unclosed
  <2>2. ~IsConversion(i)
    <3> SUFFICES ASSUME IsConversion(i) PROVE FALSE
      OBVIOUS
    <3>1. NameEnd(i) = i + 2 /\ FormatEnd(i + 2) \in 1 .. Size
      BY <2>1, NameOfSound
    <3>. QED BY <1>0, <2>1, <3>1
  <2>3. \A starts \in SUBSET Percents : ~Meant(starts)
    BY <2>1, <2>2, AfterMeant DEF ErrInv, ParseInv
  <2>4. ~Clean'
    BY <2>1 DEF Clean
  <2>5. ParseInv'
    BY <2>1, <2>3, <2>4, SamePattern DEF ParseInv
  <2>. QED BY <2>1, <2>5 DEF ErrInv, ErrorExact
<1>5. CASE Finish
  <2> DEFINE all == IF n_str = <<>> THEN vec ELSE Append(vec, <<n_str, <<>>, 0>>)
  <2>1. /\ pc = "parse" /\ pc' = "ready" /\ i > Size /\ m_pattern' = m_pattern
        /\ m_error' = (m_error \/ \E k \in DOMAIN all : all[k][3] = 1 /\ ~IsKnown(all[k][1]))
    BY <1>5 DEF Finish
  <2>2. AllKnown(all) <=> AllKnown(vec)
    <3>1. PICK v : v = all
      OBVIOUS
    <3>2. /\ v \in Seq(Entry) /\ vec \in Seq(Entry)
          /\ Len(v) = IF n_str = <<>> THEN Len(vec) ELSE Len(vec) + 1
          /\ \A k \in 1 .. Len(vec) : v[k] = vec[k]
          /\ n_str # <<>> => v[Len(vec) + 1] = <<n_str, <<>>, 0>>
      BY <3>1, FinishProperties DEF TInv
    <3>3. n_str # <<>> => v[Len(vec) + 1][3] = 0
      BY <3>2
    <3>4. DOMAIN v = 1 .. Len(v) /\ DOMAIN vec = 1 .. Len(vec) /\ Len(vec) \in Nat
      BY <3>2
    <3>5. \A k \in DOMAIN v : k \in DOMAIN vec \/ (n_str # <<>> /\ k = Len(vec) + 1)
      BY <3>2, <3>4
    <3>6. \A k \in DOMAIN vec : k \in DOMAIN v /\ v[k] = vec[k]
      BY <3>2, <3>4
    <3>7. AllKnown(v) <=> AllKnown(vec)
      BY <3>3, <3>5, <3>6 DEF AllKnown
    <3>. QED BY <3>1, <3>7
  <2>3. m_error' <=> ~Clean
    <3>1. m_error' <=> m_error \/ ~AllKnown(all)
      BY <2>1 DEF AllKnown
    <3>. QED BY <2>2, <3>1 DEF Clean
  <2>4. Clean <=> WellFormed /\ ~HasEscape
    <3>1. ASSUME Clean PROVE WellFormed /\ ~HasEscape
      <4>1. PICK starts \in SUBSET Percents : PrefixAt(starts, i)
        BY <2>1, <3>1 DEF ErrInv, ParseInv
      <4>2. \A k \in Percents : k < i
        BY <1>0, <2>1 DEF Percents
      <4>3. Meant(starts)
        BY <4>1, <4>2 DEF Meant, PrefixAt
      <4>4. WellFormed
        BY <4>3, MeantIs DEF WellFormed
      <4>5. ~HasEscape
        BY <2>1, <3>1, <4>2 DEF ErrInv, ParseInv, HasEscape
      <4>. QED BY <4>4, <4>5
    <3>2. ASSUME WellFormed, ~HasEscape PROVE Clean
      <4>1. PICK starts \in SUBSET Percents : Reads(starts)
        BY <3>2 DEF WellFormed
      <4>2. Meant(starts)
        BY <3>2, <4>1, MeantIs DEF HasEscape
      <4>. QED BY <2>1, <4>2 DEF ErrInv, ParseInv
    <3>. QED BY <3>1, <3>2
  <2>5. ErrorExact'
    BY <2>1, <2>3, <2>4, SamePattern DEF ErrorExact
  <2>. QED BY <2>1, <2>5 DEF ErrInv, ParseInv
<1>6. CASE FormatItem \/ NextMessage \/ UNCHANGED vars
  <2>1. UNCHANGED <<m_pattern, i, vec, m_error, pc>>
    BY <1>6 DEF FormatItem, NextMessage, vars
  <2>2. Clean' <=> Clean
    BY <2>1 DEF Clean, AllKnown, IsKnown
  <2>3. ParseInv'
    BY <2>1, <2>2, SamePattern DEF ErrInv, ParseInv
  <2>4. ErrorExact'
    BY <2>1, SamePattern DEF ErrInv, ErrorExact
  <2>. QED BY <2>3, <2>4 DEF ErrInv
<1>. QED BY <1>1, <1>2, <1>3, <1>4, <1>5, <1>6 DEF Next

LEMMA InitErrInv == Init => ErrInv
<1> SUFFICES ASSUME Init PROVE ErrInv
  OBVIOUS
<1>1. pc = "parse" /\ i = 1 /\ vec = <<>> /\ m_error = FALSE
  BY DEF Init
<1>2. TInv /\ PatternOK
  BY InitTInv, PatternTyped
<1>3. Clean
  BY <1>1 DEF Clean, AllKnown
<1>4. \A starts \in SUBSET Percents : ~Inside(starts, 1)
  BY DEF Inside, Percents
<1>5. PrefixAt({}, 1)
  BY DEF PrefixAt, Percents
<1>6. \A starts \in SUBSET Percents :
        ~Covered(starts, 1) /\ \A k \in starts : k < 1 => ~IsEscape(k)
  BY DEF Covered, Covers, Percents
<1>. QED BY <1>1, <1>3, <1>4, <1>5, <1>6 DEF ErrInv, ParseInv, ErrorExact

LEMMA ErrInvHolds == Spec => []ErrInv
BY TInvHolds, InitErrInv, NextErrInv, PTL DEF Spec

\* isError() refuses exactly the patterns that are not well formed and those with
\* an escape, whatever the length of the pattern and the letters that are known.
THEOREM ErrorExactHolds == Spec => []ErrorExact
BY ErrInvHolds, PTL DEF ErrInv

-----------------------------------------------------------------------------
(* Faithfulness.  While nothing is wrong, the pattern up to the pending text  *)
(* can be cut into parts that the elements of vec stand for, in their order.  *)

Part(c, k) == SubSeq(m_pattern, c[k - 1] + 1, c[k])

\* The first m characters of the pattern are n parts, part k of them a text of T[k].
CutInto(n, T, m) ==
  \E c \in [0 .. n -> 0 .. Size] :
    /\ c[0] = 0 /\ c[n] = m
    /\ \A k \in 1 .. n : c[k - 1] <= c[k] /\ Part(c, k) \in T[k]

\* What the elements of vec, and the items, may be written as.
EntryTexts(v) == [k \in 1 .. Len(v) |-> Written(ItemOf(v[k]))]
ItemTexts == [k \in 1 .. Len(m_items) |-> Written(m_items[k])]

FaithInv ==
  /\ pc = "parse" /\ Clean =>
       /\ Len(n_str) < i
       /\ n_str = SubSeq(m_pattern, i - Len(n_str), i - 1)
       /\ CutInto(Len(vec), EntryTexts(vec), i - 1 - Len(n_str))
  /\ pc = "ready" /\ ~m_error => CutInto(Len(m_items), ItemTexts, Size)

\* One part more.
LEMMA CutMore ==
  ASSUME NEW n \in Nat, NEW T, NEW m \in Nat, CutInto(n, T, m),
         Size \in Nat, NEW last \in m .. Size,
         NEW U, \A k \in 1 .. n : U[k] = T[k],
         SubSeq(m_pattern, m + 1, last) \in U[n + 1]
  PROVE  CutInto(n + 1, U, last)
<1>1. PICK c \in [0 .. n -> 0 .. Size] :
        /\ c[0] = 0 /\ c[n] = m
        /\ \A k \in 1 .. n : c[k - 1] <= c[k] /\ Part(c, k) \in T[k]
  BY DEF CutInto
<1> DEFINE d == [k \in 0 .. n + 1 |-> IF k = n + 1 THEN last ELSE c[k]]
<1>2. \A k \in 0 .. n : k \in 0 .. n + 1 /\ k # n + 1 /\ d[k] = c[k]
  OBVIOUS
<1>3. d \in [0 .. n + 1 -> 0 .. Size] /\ d[n + 1] = last
  <2>1. \A k \in 0 .. n + 1 : k # n + 1 => k \in 0 .. n
    OBVIOUS
  <2>. QED BY <2>1
<1>4. d[0] = 0 /\ d[n] = m
  BY <1>1, <1>2
<1>. HIDE DEF d
<1>5. ASSUME NEW k \in 1 .. n + 1 PROVE d[k - 1] <= d[k] /\ Part(d, k) \in U[k]
  <2>1. CASE k = n + 1
    <3>1. k - 1 = n
      BY <2>1
    <3>. QED BY <1>3, <1>4, <2>1, <3>1 DEF Part
  <2>2. CASE k # n + 1
    <3>1. k \in 1 .. n /\ k - 1 \in 0 .. n /\ k \in 0 .. n
      BY <2>2
    <3>2. d[k - 1] = c[k - 1] /\ d[k] = c[k]
      BY <1>2, <3>1
    <3>3. Part(d, k) = Part(c, k)
      BY <3>2 DEF Part
    <3>. QED BY <1>1, <3>1, <3>2, <3>3
  <2>. QED BY <2>1, <2>2
<1>. QED BY <1>3, <1>4, <1>5 DEF CutInto

\* One element more.
LEMMA OneMore ==
  ASSUME NEW v \in Seq(Entry), NEW e \in Entry, NEW u, u = Append(v, e),
         NEW m \in Nat, CutInto(Len(v), EntryTexts(v), m),
         Size \in Nat, NEW last \in m .. Size,
         SubSeq(m_pattern, m + 1, last) \in Written(ItemOf(e))
  PROVE  u \in Seq(Entry) /\ CutInto(Len(u), EntryTexts(u), last)
<1>1. /\ Len(v) \in Nat /\ Len(u) = Len(v) + 1 /\ u[Len(v) + 1] = e
      /\ u \in Seq(Entry) /\ \A k \in 1 .. Len(v) : u[k] = v[k]
  BY Appended
<1>2. Len(v) + 1 \in 1 .. Len(u) /\ \A k \in 1 .. Len(v) : k \in 1 .. Len(u)
  BY <1>1
<1>3. /\ \A k \in 1 .. Len(v) : EntryTexts(u)[k] = EntryTexts(v)[k]
      /\ EntryTexts(u)[Len(v) + 1] = Written(ItemOf(e))
  BY <1>1, <1>2 DEF EntryTexts
<1>4. CutInto(Len(v) + 1, EntryTexts(u), last)
  BY <1>1, <1>3, CutMore
<1>. QED BY <1>1, <1>4

\* The pending text is the part before the parser.
LEMMA WithText ==
  ASSUME TInv, FaithInv, pc = "parse", Clean,
         NEW v, v = (IF n_str = <<>> THEN vec ELSE Append(vec, <<n_str, <<>>, 0>>))
  PROVE  v \in Seq(Entry) /\ CutInto(Len(v), EntryTexts(v), i - 1)
<1> DEFINE m == i - 1 - Len(n_str)
<1>1. /\ PatternOK /\ Size \in Nat /\ i \in 1 .. Size + 1
      /\ n_str \in Seq(Characters) /\ Len(n_str) \in Nat
      /\ vec \in Seq(Entry)
  BY PatternTyped DEF TInv, TypeOK
<1>2. /\ Len(n_str) < i /\ n_str = SubSeq(m_pattern, i - Len(n_str), i - 1)
      /\ CutInto(Len(vec), EntryTexts(vec), m)
  BY DEF FaithInv
<1>3. CASE n_str = <<>>
  <2>1. Len(n_str) = 0
    BY <1>3
  <2>2. i - 1 - Len(n_str) = i - 1
    BY <1>1, <2>1
  <2>. QED BY <1>1, <1>2, <1>3, <2>2
<1>4. CASE n_str # <<>>
  <2> DEFINE e == <<n_str, <<>>, 0>>
  <2>1. e \in Entry /\ v = Append(vec, e)
    BY <1>1, <1>4, TextEntry
  <2>2. n_str \in Written(ItemOf(e))
    BY DEF Written, ItemOf
  <2>. HIDE DEF e
  <2>3. m \in Nat /\ i - 1 \in m .. Size /\ m + 1 = i - Len(n_str)
    BY <1>1, <1>2
  <2>4. SubSeq(m_pattern, m + 1, i - 1) \in Written(ItemOf(e))
    BY <1>2, <2>2, <2>3
  <2>5. CutInto(Len(vec), EntryTexts(vec), m)
    BY <1>2
  <2>6. vec \in Seq(Entry) /\ Size \in Nat
    BY <1>1
  <2>. HIDE DEF m
  <2>. QED BY <2>1, <2>3, <2>4, <2>5, <2>6, OneMore
<1>. QED BY <1>3, <1>4

\* A part of the pattern, character by character.
LEMMA PartIs ==
  ASSUME PatternOK, NEW m \in Nat \ {0}, NEW n \in m - 1 .. Size
  PROVE  /\ SubSeq(m_pattern, m, n) \in Seq(Characters) /\ Len(SubSeq(m_pattern, m, n)) = n - m + 1
         /\ \A k \in 1 .. n - m + 1 : SubSeq(m_pattern, m, n)[k] = m_pattern[m + k - 1]
<1>1. Size \in Nat
  BY Positions
<1>2. n \in Int /\ n <= Size /\ (IF m <= n THEN n - m + 1 ELSE 0) = n - m + 1
  BY <1>1
<1>. QED BY <1>2, PartOfPattern

LEMMA Joined ==
  ASSUME NEW s \in Seq(Characters), NEW t \in Seq(Characters)
  PROVE  /\ s \o t \in Seq(Characters) /\ Len(s \o t) = Len(s) + Len(t)
         /\ \A k \in 1 .. Len(s) + Len(t) : (s \o t)[k] = IF k <= Len(s) THEN s[k] ELSE t[k - Len(s)]
BY ConcatProperties

LEMMA ItemOfKnown ==
  ASSUME NEW e, e[3] = 1, IsKnown(e[1])
  PROVE  ItemOf(e) = <<"item", e[1][1], e[2]>>
BY DEF ItemOf

LEMMA BareWritten ==
  ASSUME NEW x \in Characters, NEW w \in Seq(Characters), Len(w) = 2, w[1] = "%", w[2] = x
  PROVE  w \in Written(<<"item", x, <<>>>>)
<1>1. PICK v : v = <<"%", x>>
  OBVIOUS
<1>2. v \in Seq(Characters) /\ Len(v) = 2 /\ v[1] = "%" /\ v[2] = x
  BY <1>1, CharacterKinds
<1>3. w = v
  BY <1>2
<1>4. v \in Written(<<"item", x, <<>>>>)
  BY <1>1 DEF Written
<1>. QED BY <1>3, <1>4

LEMMA FormatWritten ==
  ASSUME NEW x \in Characters, NEW fmt \in Seq(Characters), NEW w \in Seq(Characters),
         Len(w) = Len(fmt) + 4, w[1] = "%", w[2] = x, w[3] = LeftBrace,
         \A k \in 1 .. Len(fmt) : w[k + 3] = fmt[k],
         w[Len(fmt) + 4] = RightBrace
  PROVE  w \in Written(<<"item", x, fmt>>)
<1> DEFINE n == Len(fmt)
<1>0. n \in Nat /\ n = Len(fmt) /\ 3 \in Nat /\ 3 + n \in Nat /\ 3 + n + 1 \in Nat
  OBVIOUS
<1>1. PICK head : head = <<"%", x, LeftBrace>>
  OBVIOUS
<1>2. PICK tail : tail = <<RightBrace>>
  OBVIOUS
<1>3. /\ head \in Seq(Characters) /\ Len(head) = 3
      /\ head[1] = "%" /\ head[2] = x /\ head[3] = LeftBrace
  BY <1>1, CharacterKinds
<1>4. tail \in Seq(Characters) /\ Len(tail) = 1 /\ tail[1] = RightBrace
  BY <1>2, CharacterKinds
<1>5. PICK mid : mid = head \o fmt
  OBVIOUS
<1>6. /\ mid \in Seq(Characters) /\ Len(mid) = 3 + n
      /\ \A k \in 1 .. 3 + n : mid[k] = IF k <= 3 THEN head[k] ELSE fmt[k - 3]
  <2>1. /\ mid \in Seq(Characters) /\ Len(mid) = Len(head) + Len(fmt)
        /\ \A k \in 1 .. Len(head) + Len(fmt) : mid[k] = IF k <= Len(head) THEN head[k] ELSE fmt[k - Len(head)]
    BY <1>3, <1>5, Joined
  <2>2. Len(head) + Len(fmt) = 3 + n
    BY <1>3
  <2>. QED BY <1>3, <2>1, <2>2
<1>7. PICK text : text = mid \o tail
  OBVIOUS
<1>8. /\ text \in Seq(Characters) /\ Len(text) = 3 + n + 1
      /\ \A k \in 1 .. 3 + n + 1 : text[k] = IF k <= 3 + n THEN mid[k] ELSE tail[k - (3 + n)]
  <2>1. /\ text \in Seq(Characters) /\ Len(text) = Len(mid) + Len(tail)
        /\ \A k \in 1 .. Len(mid) + Len(tail) : text[k] = IF k <= Len(mid) THEN mid[k] ELSE tail[k - Len(mid)]
    BY <1>4, <1>6, <1>7, Joined
  <2>2. Len(mid) + Len(tail) = 3 + n + 1
    BY <1>4, <1>6
  <2>. QED BY <1>6, <2>1, <2>2
<1>. HIDE DEF n
<1>9. ASSUME NEW k \in 1 .. n + 4 PROVE w[k] = text[k]
  <2>1. CASE k \in 1 .. 3
    <3>1. k <= 3 + n /\ k \in 1 .. 3 + n /\ k \in 1 .. 3 + n + 1
      BY <1>0, <2>1
    <3>2. text[k] = head[k]
      BY <1>6, <1>8, <2>1, <3>1
    <3>3. k = 1 \/ k = 2 \/ k = 3
      BY <2>1
    <3>. QED BY <1>3, <3>2, <3>3
  <2>2. CASE k \in 4 .. n + 3
    <3>1. /\ k <= 3 + n /\ k \in 1 .. 3 + n /\ k \in 1 .. 3 + n + 1 /\ ~(k <= 3)
          /\ k - 3 \in 1 .. n /\ (k - 3) + 3 = k
      BY <1>0, <2>2
    <3>2. text[k] = fmt[k - 3]
      BY <1>6, <1>8, <3>1
    <3>3. w[(k - 3) + 3] = fmt[k - 3]
      BY <3>1 DEF n
    <3>. QED BY <3>1, <3>2, <3>3
  <2>3. CASE k = n + 4
    <3>1. ~(k <= 3 + n) /\ k \in 1 .. 3 + n + 1 /\ k - (3 + n) = 1
      BY <1>0, <2>3
    <3>2. text[k] = tail[1]
      BY <1>8, <3>1
    <3>. QED BY <1>4, <2>3, <3>2 DEF n
  <2>. QED BY <1>0, <2>1, <2>2, <2>3
<1>10. w = text
  <2>1. Len(w) = n + 4 /\ Len(text) = n + 4
    BY <1>0, <1>8 DEF n
  <2>. QED BY <1>0, <1>8, <1>9, <2>1
<1>11. text = <<"%", x, LeftBrace>> \o fmt \o <<RightBrace>>
  BY <1>1, <1>2, <1>5, <1>7
<1>12. text \in Written(<<"item", x, fmt>>)
  BY <1>11 DEF Written
<1>. QED BY <1>10, <1>12

\* The characters k to close of the pattern are w: %x{fmt}.
Spells(k, close, x, w, fmt) ==
  /\ k \in Nat /\ close \in Nat /\ k + 3 <= close /\ x \in Characters
  /\ m_pattern[k] = "%" /\ m_pattern[k + 1] = x
  /\ m_pattern[k + 2] = LeftBrace /\ m_pattern[close] = RightBrace
  /\ w \in Seq(Characters) /\ Len(w) = close - k + 1
  /\ \A j \in 1 .. close - k + 1 : w[j] = m_pattern[k + j - 1]
  /\ fmt \in Seq(Characters) /\ Len(fmt) = close - k - 3
  /\ \A j \in 1 .. close - k - 3 : fmt[j] = m_pattern[k + 3 + j - 1]

LEMMA PartWritten ==
  ASSUME NEW k, NEW close, NEW x, NEW w, NEW fmt, Spells(k, close, x, w, fmt)
  PROVE  w \in Written(<<"item", x, fmt>>)
<1>1. Len(w) = Len(fmt) + 4
  BY DEF Spells
<1>2. w[1] = "%" /\ w[2] = x /\ w[3] = LeftBrace
  <2>1. /\ 1 \in 1 .. close - k + 1 /\ 2 \in 1 .. close - k + 1 /\ 3 \in 1 .. close - k + 1
        /\ k + 1 - 1 = k /\ k + 2 - 1 = k + 1 /\ k + 3 - 1 = k + 2
    BY DEF Spells
  <2>. QED BY <2>1 DEF Spells
<1>3. \A j \in 1 .. Len(fmt) : w[j + 3] = fmt[j]
  <2>1. \A j \in 1 .. close - k - 3 : j + 3 \in 1 .. close - k + 1 /\ k + (j + 3) - 1 = k + 3 + j - 1
    BY DEF Spells
  <2>. QED BY <2>1 DEF Spells
<1>4. w[Len(fmt) + 4] = RightBrace
  <2>1. Len(fmt) + 4 = close - k + 1 /\ close - k + 1 \in 1 .. close - k + 1
        /\ k + (close - k + 1) - 1 = close
    BY DEF Spells
  <2>. QED BY <2>1 DEF Spells
<1>. QED BY <1>1, <1>2, <1>3, <1>4, FormatWritten DEF Spells

\* What a conversion takes from the pattern is one way to write its item.
LEMMA ConversionWritten ==
  ASSUME TInv, At(i) = "%", IsConversion(i),
         NEW fmt, fmt = IF At(i + 2) = LeftBrace THEN FormatText(i + 2, FormatEnd(i + 2)) ELSE <<>>,
         NEW name, name = SubSeq(m_pattern, i + 1, NameEnd(i) - 1),
         NEW e, e = <<name, fmt, 1>>
  PROVE  SubSeq(m_pattern, i, After(i) - 1) \in Written(ItemOf(e))
<1>1. PICK w : w = SubSeq(m_pattern, i, After(i) - 1)
  OBVIOUS
<1>2. PICK x : x = m_pattern[i + 1]
  OBVIOUS
<1>3. /\ PatternOK /\ Size \in Nat /\ i \in 1 .. Size /\ i + 1 \in 1 .. Size
      /\ m_pattern[i] = "%" /\ x \in Characters /\ NameEnd(i) - 1 = i + 1
  <2>1. PatternOK /\ Size \in Nat /\ i \in 1 .. Size /\ i + 1 <= Size /\ NameEnd(i) = i + 2
    BY PatternTyped, ConversionShape, NameOfSound
  <2>2. i + 1 \in 1 .. Size /\ NameEnd(i) - 1 = i + 1
    BY <2>1
  <2>. QED BY <1>2, <2>1, <2>2, Positions
<1>4. Len(name) = 1 /\ name[1] = x
  <2>1. i + 1 \in Nat \ {0} /\ i + 1 \in (i + 1) - 1 .. Size /\ (i + 1) - (i + 1) + 1 = 1
        /\ 1 \in 1 .. 1 /\ (i + 1) + 1 - 1 = i + 1
    BY <1>3
  <2>2. name = SubSeq(m_pattern, i + 1, i + 1)
    BY <1>3
  <2>3. Len(name) = 1 /\ \A k \in 1 .. 1 : name[k] = m_pattern[(i + 1) + k - 1]
    BY <1>3, <2>1, <2>2, PartIs
  <2>. QED BY <1>2, <2>1, <2>3
<1>5. IsKnown(name)
  BY NameOfSound
<1>6. ItemOf(e) = <<"item", x, fmt>>
  <2>1. e[1] = name /\ e[2] = fmt /\ e[3] = 1
    OBVIOUS
  <2>2. ItemOf(e) = <<"item", e[1][1], e[2]>>
    BY <1>5, <2>1, ItemOfKnown
  <2>. QED BY <1>4, <2>1, <2>2
<1>7. CASE At(i + 2) # LeftBrace
  <2>1. fmt = <<>> /\ After(i) - 1 = i + 1
    BY <1>3, <1>7 DEF After
  <2>2. i \in Nat \ {0} /\ i + 1 \in i - 1 .. Size /\ (i + 1) - i + 1 = 2
        /\ i + 1 - 1 = i /\ i + 2 - 1 = i + 1
    BY <1>3
  <2>3. w = SubSeq(m_pattern, i, i + 1)
    BY <1>1, <2>1
  <2>4. w \in Seq(Characters) /\ Len(w) = 2 /\ \A k \in 1 .. 2 : w[k] = m_pattern[i + k - 1]
    BY <1>3, <2>2, <2>3, PartIs
  <2>5. w[1] = "%" /\ w[2] = x
    BY <1>2, <1>3, <2>2, <2>4
  <2>6. w \in Written(<<"item", x, <<>>>>)
    BY <1>3, <2>4, <2>5, BareWritten
  <2>. QED BY <1>1, <1>6, <2>1, <2>6
<1>8. CASE At(i + 2) = LeftBrace
  <2>1. PICK close : close = FormatEnd(i + 2)
    OBVIOUS
  <2>2. Closes(i, close) /\ close \in 1 .. Size
    BY <1>8, <2>1, NameOfSound
  <2>3. close \in i + 3 .. Size /\ m_pattern[close] = RightBrace
    BY <2>2 DEF Closes
  <2>4. m_pattern[i + 2] = LeftBrace
    <3>1. i + 2 \in 1 .. Size
      BY <1>3, <2>3
    <3>. QED BY <1>3, <1>8, <3>1, Positions
  <2>5. After(i) - 1 = close
    BY <1>8, <2>1, <2>2 DEF After
  <2>6. fmt = SubSeq(m_pattern, i + 3, close - 1)
    <3>1. fmt = SubSeq(m_pattern, (i + 2) + 1, close - 1)
      BY <1>8, <2>1 DEF FormatText
    <3>2. (i + 2) + 1 = i + 3
      BY <1>3
    <3>. QED BY <3>1, <3>2
  <2>7. /\ w \in Seq(Characters) /\ Len(w) = close - i + 1
        /\ \A k \in 1 .. close - i + 1 : w[k] = m_pattern[i + k - 1]
    <3>1. i \in Nat \ {0} /\ close \in i - 1 .. Size
      BY <1>3, <2>3
    <3>2. w = SubSeq(m_pattern, i, close)
      BY <1>1, <2>5
    <3>. QED BY <1>3, <3>1, <3>2, PartIs
  <2>8. /\ i + 3 \in Nat \ {0} /\ close - 1 \in (i + 3) - 1 .. Size
        /\ (close - 1) - (i + 3) + 1 = close - i - 3
    BY <1>3, <2>3
  <2>9. /\ fmt \in Seq(Characters) /\ Len(fmt) = close - i - 3
        /\ \A k \in 1 .. close - i - 3 : fmt[k] = m_pattern[i + 3 + k - 1]
    BY <1>3, <2>6, <2>8, PartIs
  <2>10. i \in Nat /\ close \in Nat /\ i + 3 <= close
    BY <1>3, <2>3
  <2>11. m_pattern[i] = "%" /\ m_pattern[i + 1] = x
    BY <1>2, <1>3
  <2>12. w \in Written(<<"item", x, fmt>>)
    <3>1. Spells(i, close, x, w, fmt)
      BY <1>3, <2>3, <2>4, <2>7, <2>9, <2>10, <2>11 DEF Spells
    <3>. QED BY <3>1, PartWritten
  <2>. QED BY <1>1, <1>6, <2>12
<1>. QED BY <1>7, <1>8

\* A conversion that is sound is pushed after the pending text.
LEMMA PushFaith ==
  ASSUME TInv, ErrInv, FaithInv, pc = "parse", At(i) = "%",
         At(NameEnd(i)) = LeftBrace => FormatEnd(NameEnd(i)) <= Size,
         NEW fmt,
         fmt = IF At(NameEnd(i)) = LeftBrace
               THEN FormatText(NameEnd(i), FormatEnd(NameEnd(i))) ELSE <<>>,
         NEW n,
         n = IF At(NameEnd(i)) = LeftBrace THEN FormatEnd(NameEnd(i)) + 1 ELSE NameEnd(i),
         Push(SubSeq(m_pattern, i + 1, NameEnd(i) - 1), fmt, n)
  PROVE  FaithInv'
<1> DEFINE name == SubSeq(m_pattern, i + 1, NameEnd(i) - 1)
           e == <<name, fmt, 1>>
           before == IF n_str = <<>> THEN vec ELSE Append(vec, <<n_str, <<>>, 0>>)
<1>1. m_pattern' = m_pattern /\ pc' = "parse" /\ i' = n /\ n_str' = <<>>
      /\ vec' = Append(WithPending, e)
  BY DEF Push
<1>2. name \in Seq(Characters) /\ fmt \in Seq(Characters)
  <2>1. <<>> \in Seq(Characters)
    OBVIOUS
  <2>. QED BY <2>1, ConversionShape
<1>3. e \in Entry
  BY <1>2 DEF Entry
<1>4. ASSUME Clean'
      PROVE  CutInto(Len(vec'), EntryTexts(vec'), n - 1) /\ n \in Nat /\ n > 0
  <2>1. Clean'
    BY <1>4
  <2>2. Clean /\ IsConversion(i)
    BY <1>2, <2>1, PushClean, SoundOfName
  <2>3. NameEnd(i) = i + 2 /\ n = After(i) /\ i + 1 <= Size /\ m_pattern[i + 1] # "%"
    BY <2>2, NameOfSound DEF After
  <2>4. WithPending = before
    BY <2>3, PatternTyped, Positions DEF WithPending, Pending
  <2>5. before \in Seq(Entry) /\ CutInto(Len(before), EntryTexts(before), i - 1)
    BY <2>2, WithText
  <2>6. SubSeq(m_pattern, i, n - 1) \in Written(ItemOf(e))
    BY <2>2, <2>3, ConversionWritten
  <2>7. i \in 1 .. Size /\ Size \in Nat /\ n \in i + 1 .. Size + 1
    BY <2>2, <2>3, ConversionShape, NameOfSound, PatternTyped DEF After
  <2>. HIDE DEF e, before
  <2>8. i - 1 \in Nat /\ n - 1 \in i - 1 .. Size /\ (i - 1) + 1 = i
    BY <2>7
  <2>9. vec' = Append(before, e)
    BY <1>1, <2>4
  <2>10. PICK last : last = n - 1
    OBVIOUS
  <2>11. SubSeq(m_pattern, (i - 1) + 1, last) \in Written(ItemOf(e)) /\ last \in i - 1 .. Size
    BY <2>6, <2>8, <2>10
  <2>12. CutInto(Len(vec'), EntryTexts(vec'), last)
    BY <1>3, <2>5, <2>7, <2>8, <2>9, <2>11, OneMore
  <2>. QED BY <2>7, <2>10, <2>12
<1>5. ASSUME Clean'
      PROVE  /\ Len(n_str') < i' /\ n_str' = SubSeq(m_pattern', i' - Len(n_str'), i' - 1)
             /\ CutInto(Len(vec), EntryTexts(vec), i - 1 - Len(n_str))'
  <2>1. Len(<<>>) = 0
    OBVIOUS
  <2>2. CutInto(Len(vec'), EntryTexts(vec'), n - 1) /\ n \in Nat /\ n > 0
    BY <1>4, <1>5
  <2>3. n - 1 - Len(<<>>) = n - 1 /\ n - Len(<<>>) = n /\ Len(<<>>) < n
    BY <2>1, <2>2
  <2>4. SubSeq(m_pattern, n, n - 1) = <<>>
    BY <2>2
  <2>5. CutInto(Len(vec), EntryTexts(vec), i - 1 - Len(n_str))'
    <3>1. PICK c \in [0 .. Len(vec') -> 0 .. Size] :
            /\ c[0] = 0 /\ c[Len(vec')] = n - 1
            /\ \A k \in 1 .. Len(vec') : c[k - 1] <= c[k] /\ Part(c, k) \in EntryTexts(vec')[k]
      BY <2>2 DEF CutInto
    <3>2. \A k \in 1 .. Len(vec') : SubSeq(m_pattern', c[k - 1] + 1, c[k]) \in Written(ItemOf(vec'[k]))
      BY <1>1, <3>1 DEF Part, EntryTexts
    <3>3. Size' = Size /\ i' - 1 - Len(n_str') = n - 1
      BY <1>1, <2>3, SamePattern
    <3>. QED BY <3>1, <3>2, <3>3 DEF CutInto, Part, EntryTexts
  <2>. QED BY <1>1, <2>3, <2>4, <2>5
<1>. QED BY <1>1, <1>5 DEF FaithInv

LEMMA NextFaithInv == TInv /\ ErrInv /\ FaithInv /\ [Next]_vars => FaithInv'
<1> SUFFICES ASSUME TInv, ErrInv, FaithInv, [Next]_vars PROVE FaithInv'
  OBVIOUS
<1>0. /\ PatternOK /\ Size \in Nat /\ i \in 1 .. Size + 1
      /\ n_str \in Seq(Characters) /\ Len(n_str) \in Nat /\ vec \in Seq(Entry)
  BY PatternTyped DEF TInv, TypeOK
<1>1. CASE TextChar
  <2>1. /\ pc = "parse" /\ pc' = "parse" /\ i <= Size /\ i' = i + 1
        /\ n_str' = Append(n_str, m_pattern[i])
        /\ m_pattern' = m_pattern /\ vec' = vec /\ m_error' = m_error
    BY <1>1 DEF TextChar
  <2>2. Clean' <=> Clean
    BY <2>1 DEF Clean, AllKnown, IsKnown
  <2>3. ASSUME Clean'
        PROVE  /\ Len(n_str') < i' /\ n_str' = SubSeq(m_pattern', i' - Len(n_str'), i' - 1)
               /\ CutInto(Len(vec), EntryTexts(vec), i - 1 - Len(n_str))'
    <3>1. /\ Len(n_str) < i /\ n_str = SubSeq(m_pattern, i - Len(n_str), i - 1)
          /\ CutInto(Len(vec), EntryTexts(vec), i - 1 - Len(n_str))
      BY <2>1, <2>2, <2>3 DEF FaithInv
    <3>2. m_pattern[i] \in Characters
      BY <1>0, <2>1, Positions
    <3>3. Len(n_str') = Len(n_str) + 1 /\ n_str' \in Seq(Characters)
      BY <1>0, <2>1, <3>2
    <3>4. Len(n_str') < i' /\ i' - Len(n_str') = i - Len(n_str) /\ i' - 1 = i
          /\ i' - 1 - Len(n_str') = i - 1 - Len(n_str)
      BY <1>0, <2>1, <3>1, <3>3
    <3>5. n_str' = SubSeq(m_pattern', i' - Len(n_str'), i' - 1)
      <4>1. PICK m : m = i - Len(n_str)
        OBVIOUS
      <4>2. m \in Nat \ {0} /\ m <= i /\ i \in m - 1 .. Size /\ i - 1 \in m - 1 .. Size
            /\ Len(n_str) = i - m
        <5>1. PICK n : n = Len(n_str)
          OBVIOUS
        <5>2. n \in Nat /\ n < i /\ i \in 1 .. Size /\ m = i - n /\ Size \in Nat
          BY <1>0, <2>1, <3>1, <4>1, <5>1
        <5>3. m \in Nat \ {0} /\ m <= i /\ i \in m - 1 .. Size /\ i - 1 \in m - 1 .. Size /\ n = i - m
          BY <5>2
        <5>. QED BY <5>1, <5>3
      <4>3. PICK s : s = SubSeq(m_pattern, m, i)
        OBVIOUS
      <4>4. /\ s \in Seq(Characters) /\ Len(s) = i - m + 1
            /\ \A k \in 1 .. i - m + 1 : s[k] = m_pattern[m + k - 1]
        BY <1>0, <4>2, <4>3, PartIs
      <4>5. \A k \in 1 .. (i - 1) - m + 1 : n_str[k] = m_pattern[m + k - 1]
        <5>1. PICK t : t = SubSeq(m_pattern, m, i - 1)
          OBVIOUS
        <5>2. \A k \in 1 .. (i - 1) - m + 1 : t[k] = m_pattern[m + k - 1]
          BY <1>0, <4>2, <5>1, PartIs
        <5>. QED BY <3>1, <4>1, <5>1, <5>2
      <4>6. /\ \A k \in 1 .. Len(n_str) : n_str'[k] = n_str[k]
            /\ n_str'[Len(n_str) + 1] = m_pattern[i]
        BY <1>0, <2>1, <3>2, AppendProperties
      <4>7. Len(n_str') = i - m + 1
        BY <1>0, <3>3, <4>2
      <4>8. ASSUME NEW k \in 1 .. i - m + 1 PROVE n_str'[k] = s[k]
        <5>1. CASE k = i - m + 1
          <6>1. k = Len(n_str) + 1 /\ m + k - 1 = i
            BY <1>0, <4>2, <5>1
          <6>. QED BY <4>4, <4>6, <4>8, <6>1
        <5>2. CASE k # i - m + 1
          <6>1. k \in 1 .. Len(n_str) /\ k \in 1 .. (i - 1) - m + 1
            BY <1>0, <4>2, <4>8, <5>2
          <6>. QED BY <4>4, <4>5, <4>6, <4>8, <6>1
        <5>. QED BY <5>1, <5>2
      <4>9. n_str' = s
        BY <3>3, <4>4, <4>7, <4>8
      <4>. QED BY <2>1, <3>4, <4>1, <4>3, <4>9
    <3>6. CutInto(Len(vec), EntryTexts(vec), i - 1 - Len(n_str))'
      <4>1. Size' = Size
        BY <2>1, SamePattern
      <4>. QED BY <2>1, <3>1, <3>4, <4>1 DEF CutInto, Part, EntryTexts
    <3>. QED BY <3>4, <3>5, <3>6
  <2>. QED BY <2>1, <2>3 DEF FaithInv
<1>2. CASE Conversion
  <2>1. /\ pc = "parse" /\ At(i) = "%" /\ At(NameEnd(i)) # LeftBrace
        /\ Push(SubSeq(m_pattern, i + 1, NameEnd(i) - 1), <<>>, NameEnd(i))
    BY <1>2 DEF Conversion
  <2>. QED BY <2>1, PushFaith
<1>3. CASE ConversionWithFormat
  <2> DEFINE close == FormatEnd(NameEnd(i))
  <2>1. /\ pc = "parse" /\ At(i) = "%" /\ At(NameEnd(i)) = LeftBrace /\ close <= Size
        /\ Push(SubSeq(m_pattern, i + 1, NameEnd(i) - 1), FormatText(NameEnd(i), close), close + 1)
    BY <1>3 DEF ConversionWithFormat
  <2>. QED BY <2>1, PushFaith
<1>4. CASE Unclosed
  <2>1. pc' = "parse" /\ m_error' = TRUE
    BY <1>4 DEF Unclosed
  <2>. QED BY <2>1 DEF FaithInv, Clean
<1>5. CASE Finish
  <2>1. PICK all : all = (IF n_str = <<>> THEN vec ELSE Append(vec, <<n_str, <<>>, 0>>))
    OBVIOUS
  <2>2. /\ pc = "parse" /\ pc' = "ready" /\ i > Size /\ m_pattern' = m_pattern
        /\ m_items' = [k \in DOMAIN all |-> ItemOf(all[k])]
        /\ m_error' = (m_error \/ \E k \in DOMAIN all : all[k][3] = 1 /\ ~IsKnown(all[k][1]))
    BY <1>5, <2>1 DEF Finish
  <2>3. ASSUME ~m_error' PROVE CutInto(Len(m_items), ItemTexts, Size)'
    <3>1. /\ all \in Seq(Entry) /\ \A k \in 1 .. Len(vec) : all[k] = vec[k]
          /\ Len(all) = (IF n_str = <<>> THEN Len(vec) ELSE Len(vec) + 1)
          /\ Len([k \in DOMAIN all |-> ItemOf(all[k])]) = Len(all)
      BY <2>1, FinishProperties
    <3>2. Clean
      <4>1. \A k \in DOMAIN vec : k \in DOMAIN all /\ all[k] = vec[k]
        BY <1>0, <3>1
      <4>. QED BY <2>2, <2>3, <4>1 DEF Clean, AllKnown
    <3>3. i - 1 = Size
      BY <1>0, <2>2
    <3>4. CutInto(Len(all), EntryTexts(all), Size)
      BY <2>1, <2>2, <3>2, <3>3, WithText
    <3>5. PICK c \in [0 .. Len(all) -> 0 .. Size] :
            /\ c[0] = 0 /\ c[Len(all)] = Size
            /\ \A k \in 1 .. Len(all) : c[k - 1] <= c[k] /\ Part(c, k) \in EntryTexts(all)[k]
      BY <3>4 DEF CutInto
    <3>6. Len(m_items') = Len(all) /\ \A k \in 1 .. Len(all) : m_items'[k] = ItemOf(all[k])
      BY <2>2, <3>1
    <3>7. \A k \in 1 .. Len(all) :
            SubSeq(m_pattern', c[k - 1] + 1, c[k]) \in Written(m_items'[k])
      BY <2>2, <3>5, <3>6 DEF Part, EntryTexts
    <3>8. Size' = Size
      BY <2>2, SamePattern
    <3>. QED BY <3>5, <3>6, <3>7, <3>8 DEF CutInto, Part, ItemTexts
  <2>. QED BY <2>2, <2>3 DEF FaithInv
<1>6. CASE FormatItem \/ NextMessage \/ UNCHANGED vars
  <2>1. UNCHANGED <<m_pattern, i, n_str, vec, m_items, m_error, pc>>
    BY <1>6 DEF FormatItem, NextMessage, vars
  <2>2. Clean' <=> Clean
    BY <2>1 DEF Clean, AllKnown, IsKnown
  <2>. QED BY <2>1, <2>2, SamePattern DEF FaithInv, CutInto, Part, EntryTexts, ItemTexts
<1>. QED BY <1>1, <1>2, <1>3, <1>4, <1>5, <1>6 DEF Next

LEMMA InitFaithInv == Init => FaithInv
<1> SUFFICES ASSUME Init PROVE FaithInv
  OBVIOUS
<1>1. pc = "parse" /\ i = 1 /\ vec = <<>> /\ n_str = <<>> /\ Len(vec) = 0 /\ Len(n_str) = 0
  BY DEF Init
<1>2. Size \in Nat /\ 1 - 1 - 0 = 0 /\ 1 - 0 = 1 /\ 1 - 1 = 0
  BY InitTInv, PatternTyped
<1>3. CutInto(0, EntryTexts(vec), 0)
  <2>1. PICK c : c = [k \in 0 .. 0 |-> 0]
    OBVIOUS
  <2>2. c \in [0 .. 0 -> 0 .. Size] /\ c[0] = 0 /\ \A k \in 1 .. 0 : FALSE
    BY <1>2, <2>1
  <2>. QED BY <2>2 DEF CutInto
<1>4. n_str = SubSeq(m_pattern, 1, 0)
  BY <1>1
<1>. QED BY <1>1, <1>2, <1>3, <1>4 DEF FaithInv

-----------------------------------------------------------------------------
\* The texts of one item more.
OneItemMore(texts, item) == {t \o w : t \in texts, w \in Written(item)}

LEMMA OneMoreText ==
  ASSUME NEW texts, NEW item, NEW t \in texts, NEW w \in Written(item)
  PROVE  t \o w \in OneItemMore(texts, item)
BY DEF OneItemMore

\* f gives the texts of the first k items, for k up to n.
AreTexts(f, n) ==
  f = [k \in 0 .. n |-> IF k = 0 THEN {<<>>} ELSE OneItemMore(f[k - 1], m_items[k])]

\* There are such texts for any number of items: otherwise there would be a least
\* number for which there are none.
LEMMA TextsExist ==
  ASSUME NEW n \in Nat
  PROVE  \E f : AreTexts(f, n)
<1> DEFINE Without == {k \in Nat : ~\E f : AreTexts(f, k)}
<1>1. Without = {}
  <2> SUFFICES ASSUME Without # {} PROVE FALSE
    OBVIOUS
  <2>1. PICK k \in Without : \A m \in Without : k <= m
    <3>1. Without \subseteq Nat
      OBVIOUS
    <3>. HIDE DEF Without
    <3>. QED BY <3>1, LeastNatural
  <2>2. k \in Nat /\ ~\E f : AreTexts(f, k)
    BY <2>1
  <2>3. k # 0
    <3>1. PICK f : f = [j \in 0 .. 0 |-> {<<>>}]
      OBVIOUS
    <3>2. f = [j \in 0 .. 0 |-> IF j = 0 THEN {<<>>} ELSE OneItemMore(f[j - 1], m_items[j])]
      BY <3>1
    <3>. QED BY <2>2, <3>2 DEF AreTexts
  <2>4. k - 1 \in Nat /\ ~(k <= k - 1)
    BY <2>2, <2>3
  <2>5. PICK g : AreTexts(g, k - 1)
    BY <2>1, <2>4
  <2>6. \A j \in 0 .. k - 1 : g[j] = IF j = 0 THEN {<<>>} ELSE OneItemMore(g[j - 1], m_items[j])
    BY <2>5 DEF AreTexts
  <2>7. PICK last : last = OneItemMore(g[k - 1], m_items[k])
    OBVIOUS
  <2>8. PICK f : f = [j \in 0 .. k |-> IF j = k THEN last ELSE g[j]]
    OBVIOUS
  <2>9. /\ f[k] = last
        /\ \A j \in 0 .. k - 1 : f[j] = g[j]
    BY <2>2, <2>8
  <2>10. ASSUME NEW j \in 0 .. k
         PROVE  f[j] = IF j = 0 THEN {<<>>} ELSE OneItemMore(f[j - 1], m_items[j])
    <3>1. CASE j = k
      <4>1. j # 0 /\ f[j - 1] = g[k - 1]
        BY <2>2, <2>3, <2>4, <2>9, <3>1
      <4>. QED BY <2>7, <2>9, <3>1, <4>1
    <3>2. CASE j # k /\ j = 0
      BY <2>2, <2>6, <2>9, <3>2
    <3>3. CASE j # k /\ j # 0
      <4>1. j \in 0 .. k - 1 /\ j - 1 \in 0 .. k - 1
        BY <2>2, <3>3
      <4>2. f[j] = g[j] /\ f[j - 1] = g[j - 1]
        BY <2>9, <4>1
      <4>. QED BY <2>6, <3>3, <4>1, <4>2
    <3>. QED BY <3>1, <3>2, <3>3
  <2>11. AreTexts(f, k)
    BY <2>8, <2>10 DEF AreTexts
  <2>. QED BY <2>2, <2>11
<1>. QED BY <1>1

\* So the definition of Texts defines it.
LEMMA TextsAre ==
  ASSUME Len(m_items) \in Nat
  PROVE  AreTexts(Texts, Len(m_items))
<1>1. \E f : AreTexts(f, Len(m_items))
  BY TextsExist
<1>2. Texts = CHOOSE f : AreTexts(f, Len(m_items))
  BY DEF Texts, AreTexts, OneItemMore
<1>. QED BY <1>1, <1>2

\* The parts of the pattern up to part k are texts of the first k items.
LEMMA CutFaithful ==
  ASSUME m_pattern \in Seq(Characters), Len(m_items) \in Nat,
         CutInto(Len(m_items), ItemTexts, Size)
  PROVE  m_pattern \in Texts[Len(m_items)]
<1>1. PICK c \in [0 .. Len(m_items) -> 0 .. Size] :
        /\ c[0] = 0 /\ c[Len(m_items)] = Size
        /\ \A k \in 1 .. Len(m_items) : c[k - 1] <= c[k] /\ Part(c, k) \in ItemTexts[k]
  BY DEF CutInto
<1>2. \A k \in 0 .. Len(m_items) :
        Texts[k] = IF k = 0 THEN {<<>>} ELSE OneItemMore(Texts[k - 1], m_items[k])
  BY TextsAre DEF AreTexts
<1> DEFINE Missing == {k \in 0 .. Len(m_items) : SubSeq(m_pattern, 1, c[k]) \notin Texts[k]}
<1>3. Missing = {}
  <2> SUFFICES ASSUME Missing # {} PROVE FALSE
    OBVIOUS
  <2>1. PICK k \in Missing : \A m \in Missing : k <= m
    <3>1. Missing \subseteq Nat
      OBVIOUS
    <3>. HIDE DEF Missing
    <3>. QED BY <3>1, LeastNatural
  <2>2. k \in 0 .. Len(m_items) /\ SubSeq(m_pattern, 1, c[k]) \notin Texts[k]
    BY <2>1
  <2>3. k # 0
    <3>1. SubSeq(m_pattern, 1, 0) = <<>>
      OBVIOUS
    <3>2. 0 \in 0 .. Len(m_items) /\ <<>> \in Texts[0]
      BY <1>2
    <3>. QED BY <1>1, <2>2, <3>1, <3>2
  <2>4. k \in 1 .. Len(m_items) /\ k - 1 \in 0 .. Len(m_items) /\ ~(k <= k - 1)
    BY <2>2, <2>3
  <2>5. SubSeq(m_pattern, 1, c[k - 1]) \in Texts[k - 1]
    BY <2>1, <2>4
  <2>6. Part(c, k) \in Written(m_items[k])
    BY <1>1, <2>4 DEF ItemTexts
  <2>7. SubSeq(m_pattern, 1, c[k - 1]) \o Part(c, k) = SubSeq(m_pattern, 1, c[k])
    <3>1. PICK a : a = c[k - 1]
      OBVIOUS
    <3>2. PICK b : b = c[k]
      OBVIOUS
    <3>3. a \in 0 .. Size /\ b \in 0 .. Size /\ a <= b
      BY <1>1, <2>4, <3>1, <3>2
    <3>4. SubSeq(m_pattern, 1, a) \o SubSeq(m_pattern, a + 1, b) = SubSeq(m_pattern, 1, b)
      <4>1. 1 \in 1 .. Len(m_pattern) + 1 /\ a \in 1 - 1 .. Len(m_pattern) /\ b \in a .. Len(m_pattern)
        BY <3>3 DEF Size
      <4>. QED BY <4>1, ConcatAdjacentSubSeq
    <3>. QED BY <3>1, <3>2, <3>4 DEF Part
  <2>8. SubSeq(m_pattern, 1, c[k]) \in OneItemMore(Texts[k - 1], m_items[k])
    <3>1. PICK t : t = SubSeq(m_pattern, 1, c[k - 1])
      OBVIOUS
    <3>2. PICK w : w = Part(c, k)
      OBVIOUS
    <3>3. t \in Texts[k - 1] /\ w \in Written(m_items[k]) /\ t \o w = SubSeq(m_pattern, 1, c[k])
      BY <2>5, <2>6, <2>7, <3>1, <3>2
    <3>4. t \in Texts[k - 1] /\ w \in Written(m_items[k])
      BY <3>3
    <3>5. t \o w \in OneItemMore(Texts[k - 1], m_items[k])
      BY <3>4, OneMoreText
    <3>. QED BY <3>3, <3>5
  <2>. QED BY <1>2, <2>2, <2>3, <2>8
<1>4. SubSeq(m_pattern, 1, Size) \in Texts[Len(m_items)]
  <2>1. Len(m_items) \in 0 .. Len(m_items)
    OBVIOUS
  <2>. QED BY <1>1, <1>3, <2>1
<1>5. SubSeq(m_pattern, 1, Size) = m_pattern
  BY DEF Size
<1>. QED BY <1>4, <1>5

\* A pattern that init() accepts is the text of its items one after another, for
\* patterns of any length: it drops nothing, doubles nothing and keeps the order.
THEOREM FaithfulHolds == Spec => []Faithful
<1>1. TInv /\ FaithInv => Faithful
  <2> SUFFICES ASSUME TInv, FaithInv, pc = "ready", ~m_error
               PROVE  m_pattern \in Texts[Len(m_items)]
    BY DEF Faithful
  <2>1. m_pattern \in Seq(Characters) /\ Len(m_items) \in Nat
    BY DEF TInv, TypeOK
  <2>2. CutInto(Len(m_items), ItemTexts, Size)
    BY DEF FaithInv
  <2>. QED BY <2>1, <2>2, CutFaithful
<1>. QED BY <1>1, TInvHolds, ErrInvHolds, InitFaithInv, NextFaithInv, PTL DEF Spec
=============================================================================
