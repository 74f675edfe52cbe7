---------------------------- MODULE LogFormatter ----------------------------
(***************************************************************************)
(* A LogFormatter of components/log.cpp: init() parses a pattern such as   *)
(* "[%p]%T%d{%H}%n" into items, and format() prints them for each message. *)
(*                                                                         *)
(* A pattern is a sequence of characters.  What is printed is modelled by  *)
(* which items are padded: a tab sets the width of the stream for the next *)
(* one.                                                                    *)
(***************************************************************************)
EXTENDS Integers, Sequences, SequencesExt

CONSTANTS
  Letters,    \* the characters of which isalpha() is true
  Others,     \* the characters of texts and formats
  Known,      \* the letters in formatItems
  MaxLength   \* bound on the length of patterns

LeftBrace  == "{"
RightBrace == "}"

ASSUME FormatterAssumption ==
  /\ Known \subseteq Letters
  /\ {"T", "n"} \subseteq Known
  /\ {"%", LeftBrace, RightBrace, "end"} \cap (Letters \cup Others) = {}
  /\ MaxLength \in Nat

Characters == {"%", LeftBrace, RightBrace} \cup Letters \cup Others

VARIABLES
  m_pattern,
  i,          \* where init() is in the pattern
  n_str,      \* the text that is not in vec yet
  vec,        \* texts and conversions: string, format, and 0 or 1
  m_items,
  m_error,
  pc,         \* "parse" in init(), "ready" after it
  line,       \* per item that format() has printed: was it padded?
  width       \* what setw() has left in the stream

vars == <<m_pattern, i, n_str, vec, m_items, m_error, pc, line, width>>

Init ==
  /\ m_pattern \in SeqOf(Characters, MaxLength)
  /\ i = 1
  /\ n_str = <<>>
  /\ vec = <<>>
  /\ m_items = <<>>
  /\ m_error = FALSE
  /\ pc = "parse"
  /\ line = <<>>
  /\ width = 0

Size == Len(m_pattern)

At(k) == IF k <= Size THEN m_pattern[k] ELSE "end"

\* The first position after k at which the pattern has one of the characters,
\* or the one behind its end.
FirstAfter(k, characters) ==
  LET places == {n \in k + 1 .. Size : m_pattern[n] \in characters}
  IN  IF places = {} THEN Size + 1 ELSE CHOOSE n \in places : \A m \in places : n <= m

\* The name of a conversion goes up to a brace that opens, or a character that
\* is neither a letter nor a brace that closes.
NameEnd(k) == FirstAfter(k, Characters \ (Letters \cup {RightBrace}))

\* Mutant of FormatEnd: the last closing brace.
FormatEndLast(open) ==
  LET places == {n \in open + 1 .. Size : m_pattern[n] = RightBrace}
  IN  IF places = {} THEN Size + 1 ELSE CHOOSE n \in places : \A m \in places : n >= m

FormatEnd(open) == FirstAfter(open, {RightBrace})

\* Mutant of FormatText: the closing brace is part of it.
FormatTextWithBrace(open, close) == SubSeq(m_pattern, open + 1, close)

FormatText(open, close) == SubSeq(m_pattern, open + 1, close - 1)

-----------------------------------------------------------------------------
(* init(). *)
TextChar ==
  /\ pc = "parse" /\ i <= Size
  /\ m_pattern[i] # "%"
  /\ n_str' = Append(n_str, m_pattern[i])
  /\ i' = i + 1
  /\ UNCHANGED <<m_pattern, vec, m_items, m_error, pc, line, width>>

\* The text before a conversion; "%%" counts its first character as text.
Pending == IF At(i + 1) = "%" THEN Append(n_str, "%") ELSE n_str

WithPending == IF Pending = <<>> THEN vec ELSE Append(vec, <<Pending, <<>>, 0>>)

\* Mutant of Push: the parsing resumes one character too early.
PushEarly(name, fmt, n) ==
  /\ vec' = Append(WithPending, <<name, fmt, 1>>)
  /\ n_str' = <<>>
  /\ i' = n - 1
  /\ UNCHANGED <<m_pattern, m_items, m_error, pc, line, width>>

\* The pending text and a conversion, which ends before n.
Push(name, fmt, n) ==
  /\ vec' = Append(WithPending, <<name, fmt, 1>>)
  /\ n_str' = <<>>
  /\ i' = n
  /\ UNCHANGED <<m_pattern, m_items, m_error, pc, line, width>>

\* %name, up to the end of the pattern or another character.
Conversion ==
  LET n == NameEnd(i) IN
  /\ pc = "parse"
  /\ At(i) = "%"
  /\ At(n) # LeftBrace
  /\ Push(SubSeq(m_pattern, i + 1, n - 1), <<>>, n)

\* %name{format}
ConversionWithFormat ==
  LET open  == NameEnd(i)
      close == FormatEnd(open)
  IN
  /\ pc = "parse"
  /\ At(i) = "%"
  /\ At(open) = LeftBrace
  /\ close <= Size
  /\ Push(SubSeq(m_pattern, i + 1, open - 1), FormatText(open, close), close + 1)

\* %name{ without an end: the "%" is replaced by a mark, which comes before the
\* pending text, and what follows it is parsed again.
Unclosed ==
  LET open == NameEnd(i) IN
  /\ pc = "parse"
  /\ At(i) = "%"
  /\ At(open) = LeftBrace
  /\ FormatEnd(open) = Size + 1
  /\ vec' = Append(vec, <<"<<pattern_error>>", <<>>, 0>>)
  /\ m_error' = TRUE
  /\ i' = i + 1
  /\ UNCHANGED <<m_pattern, n_str, m_items, pc, line, width>>

\* The item for an element of vec.  Names are found in formatItems.
IsKnown(name) == Len(name) = 1 /\ name[1] \in Known

ItemOf(v) ==
  IF v[3] = 0 THEN <<"text", v[1]>>
  ELSE IF IsKnown(v[1]) THEN <<"item", v[1][1], v[2]>>
  ELSE <<"text", "<<error_format>>">>

\* Mutant of Finish: an unknown name is not an error.
FinishWithoutError ==
  LET all == IF n_str = <<>> THEN vec ELSE Append(vec, <<n_str, <<>>, 0>>) IN
  /\ pc = "parse" /\ i > Size
  /\ m_items' = [k \in DOMAIN all |-> ItemOf(all[k])]
  /\ pc' = "ready"
  /\ UNCHANGED <<m_pattern, i, n_str, vec, m_error, line, width>>

Finish ==
  LET all == IF n_str = <<>> THEN vec ELSE Append(vec, <<n_str, <<>>, 0>>) IN
  /\ pc = "parse" /\ i > Size
  /\ m_items' = [k \in DOMAIN all |-> ItemOf(all[k])]
  /\ m_error' = (m_error \/ \E k \in DOMAIN all : all[k][3] = 1 /\ ~IsKnown(all[k][1]))
  /\ pc' = "ready"
  /\ UNCHANGED <<m_pattern, i, n_str, vec, line, width>>

-----------------------------------------------------------------------------
(* format(). *)
IsItem(k, letter) == m_items[k][1] = "item" /\ m_items[k][2] = letter

\* std::endl does not use the width, everything else that is printed uses it up.
WidthAfter(k) ==
  IF IsItem(k, "T") THEN 5 ELSE IF IsItem(k, "n") THEN width ELSE 0

\* The next item.
FormatItem ==
  LET k == Len(line) + 1 IN
  /\ pc = "ready"
  /\ k <= Len(m_items)
  /\ line' = Append(line, width # 0 /\ ~IsItem(k, "n"))
  /\ width' = WidthAfter(k)
  /\ UNCHANGED <<m_pattern, i, n_str, vec, m_items, m_error, pc>>

\* Mutant of NextMessage: the messages share a stream.
NextMessageInStream ==
  /\ pc = "ready"
  /\ Len(line) = Len(m_items)
  /\ line' = <<>>
  /\ UNCHANGED <<m_pattern, i, n_str, vec, m_items, m_error, pc, width>>

\* Another message is formatted, into a stream of its own.
NextMessage ==
  /\ pc = "ready"
  /\ Len(line) = Len(m_items)
  /\ line' = <<>>
  /\ width' = 0
  /\ UNCHANGED <<m_pattern, i, n_str, vec, m_items, m_error, pc>>

Next == TextChar \/ Conversion \/ ConversionWithFormat \/ Unclosed \/ Finish
        \/ FormatItem \/ NextMessage

Spec == Init /\ [][Next]_vars

-----------------------------------------------------------------------------
(* Properties. *)

\* The position stays within the pattern or just behind it, and nothing is
\* printed that is not an item.
TypeOK ==
  /\ m_pattern \in Seq(Characters)
  /\ i \in 1 .. Size + 1
  /\ n_str \in Seq(Characters)
  /\ Len(vec) <= 2 * (i - 1)
  /\ m_error \in BOOLEAN
  /\ pc \in {"parse", "ready"}
  /\ line \in Seq(BOOLEAN)
  /\ Len(line) <= Len(m_items)
  /\ width \in {0, 5}

\* The ways to write an item: an empty format has braces or none.
Written(item) ==
  IF item[1] = "text" THEN {item[2]}
  ELSE {<<"%", item[2], LeftBrace>> \o item[3] \o <<RightBrace>>}
       \cup (IF item[3] = <<>> THEN {<<"%", item[2]>>} ELSE {})

\* The texts that the first n items may stand for.
Texts[n \in 0 .. Len(m_items)] ==
  IF n = 0 THEN {<<>>}
  ELSE {t \o w : t \in Texts[n - 1], w \in Written(m_items[n])}

\* A pattern that is accepted is exactly the text of its items one after
\* another: init() drops nothing, doubles nothing and keeps the order.
Faithful == pc = "ready" /\ ~m_error => m_pattern \in Texts[Len(m_items)]

\* The end of %x{format}, when x is at k + 1.
Closes(k, n) ==
  /\ At(k + 2) = LeftBrace
  /\ n \in k + 3 .. Size
  /\ m_pattern[n] = RightBrace
  /\ \A m \in k + 3 .. n - 1 : m_pattern[m] # RightBrace

Percents == {k \in 1 .. Size : m_pattern[k] = "%"}

\* log.cpp:396: %xxx, %xxx{xxx} and %% are what a pattern has, apart from text.  A
\* letter or a closing brace may not follow %x.
IsEscape(k) == At(k + 1) = "%"

IsConversion(k) ==
  /\ At(k + 1) \in Known
  /\ \/ At(k + 2) \notin Letters \cup {LeftBrace, RightBrace}
     \/ \E n \in 1 .. Size : Closes(k, n)

\* A percent at k belongs to what begins at m: it is the second one of %%, or
\* within a format.
Covers(m, k) ==
  \/ IsEscape(m) /\ k = m + 1
  \/ ~IsEscape(m) /\ \E n \in 1 .. Size : m < k /\ k <= n /\ Closes(m, n)

\* The pattern, read from its beginning, has conversions and escapes at starts.
Reads(starts) ==
  /\ \A k \in starts : IsEscape(k) \/ IsConversion(k)
  /\ \A k \in Percents : k \in starts <=> ~\E m \in starts : Covers(m, k)

WellFormed == \E starts \in SUBSET Percents : Reads(starts)

HasEscape == \E starts \in SUBSET Percents : Reads(starts) /\ \E k \in starts : IsEscape(k)

\* isError() tells exactly the patterns that are not well formed, and those with an
\* escape: every %% is refused, although log.cpp:396 lists it and log.cpp:420-424
\* keep a percent for it; Logger::setFormatter() ignores such a pattern.
ErrorExact == pc = "ready" => (m_error <=> ~WellFormed \/ HasEscape)

\* An item is padded exactly when it comes next after a tab of its own message,
\* line feeds apart.
PaddingLocal ==
  \A k \in DOMAIN line :
    line[k] <=> /\ ~IsItem(k, "n")
                /\ \E j \in 1 .. k - 1 :
                     /\ IsItem(j, "T")
                     /\ \A m \in j + 1 .. k - 1 : IsItem(m, "n")
=============================================================================
