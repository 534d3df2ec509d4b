------------------------------ MODULE CliProofs ------------------------------
(***************************************************************************)
(* Proofs about the command line. First CliLine, for a line and a history  *)
(* of any length, any letters and any keys in any order; then CliTable,    *)
(* for any commands, programs and lines that its assumption allows, a      *)
(* table of any size and any number of lines.                              *)
(***************************************************************************)
EXTENDS CliLine, CliTable, SequenceTheorems, FiniteSetTheorems, WellFoundedInduction, TLAPS

\* The bytes of an arrow key, or what is left of them, and what the editor has seen.
AtArrow(x) ==
  \/ rest = <<"ESC", "[", x>>
  \/ rest = <<"[", x>> /\ escString /\ escPos = 0
  \/ rest = <<x>> /\ escString /\ escPos = 1

AtDelete ==
  \/ rest = <<"ESC", "[", "3", "~">>
  \/ rest = <<"[", "3", "~">> /\ escString /\ escPos = 0
  \/ rest = <<"3", "~">> /\ escString /\ escPos = 1
  \/ rest = <<"~">> /\ escString /\ escPos = 2 /\ escParam = "3"

AtByte == \E k \in Texts \cup {"bs", "enter", "ESC"} : rest = <<k>>

Place ==
  /\ rest = <<>> \/ AtByte \/ AtDelete \/ \E x \in {"A", "B"} : AtArrow(x)
  /\ rest # <<>> => ended < MaxEnded

\* What the keys mean and what the buffer will have when the key's bytes are through.
Plainly ==
  plain =>
    \/ rest = <<>> /\ ~escString /\ edited = pStr
    \/ \E k \in Texts : rest = <<k>> /\ ~escString /\ edited = Append(pStr, k)
    \/ rest = <<"bs">> /\ ~escString /\ edited = Chopped(pStr)
    \/ rest = <<"enter">>
    \/ AtDelete /\ edited = pStr

\* noMod knows of every erasure, but for the one that comes next, unless it was
\* overwritten, which no plain keys do.
Marked ==
  /\ erased /\ noMod /\ ~overrun => rest = <<"bs">> /\ ~escString
  /\ plain => ~overrun

\* Until an arrow key's last byte the buffer is as it was.
Recalling ==
  arrow =>
    \/ pStr = before /\ \E x \in {"A", "B"} : AtArrow(x)
    \/ rest = <<>> /\ (pStr # before /\ ~overrun => ~erased /\ \E k \in 1 .. Len(hist) : pStr = hist[k])

\* The newest line of the stack is the last line given that was not empty.
NewestLine ==
  /\ \A k \in 1 .. Len(hist) : hist[k] # <<>>
  /\ hist = <<>> => \A i \in DOMAIN lines : lines[i] = <<>>
  /\ hist # <<>> => \E m \in DOMAIN lines :
       lines[m] = hist[1] /\ \A k \in m + 1 .. Len(lines) : lines[k] = <<>>

LineShape ==
  /\ LineTypeOK /\ lines \in Seq(Seq(Texts))
  /\ plain \in BOOLEAN /\ arrow \in BOOLEAN /\ erased \in BOOLEAN

CliInv == LineShape /\ Place /\ Plainly /\ Marked /\ Recalling /\ NewestLine /\ HistoryIsRecent

-----------------------------------------------------------------------------
LEMMA OneByte ==
  ASSUME NEW x
  PROVE  <<x>> # <<>> /\ Head(<<x>>) = x /\ Tail(<<x>>) = <<>>
OBVIOUS

LEMMA ArrowBytes ==
  ASSUME NEW x
  PROVE  /\ <<"ESC", "[", x>> # <<>> /\ <<"[", x>> # <<>>
         /\ Head(<<"ESC", "[", x>>) = "ESC" /\ Tail(<<"ESC", "[", x>>) = <<"[", x>>
         /\ Head(<<"[", x>>) = "[" /\ Tail(<<"[", x>>) = <<x>>
OBVIOUS

LEMMA DeleteBytes ==
  /\ <<"ESC", "[", "3", "~">> # <<>> /\ <<"[", "3", "~">> # <<>> /\ <<"3", "~">> # <<>> /\ <<"~">> # <<>>
  /\ Head(<<"ESC", "[", "3", "~">>) = "ESC" /\ Tail(<<"ESC", "[", "3", "~">>) = <<"[", "3", "~">>
  /\ Head(<<"[", "3", "~">>) = "[" /\ Tail(<<"[", "3", "~">>) = <<"3", "~">>
  /\ Head(<<"3", "~">>) = "3" /\ Tail(<<"3", "~">>) = <<"~">>
  /\ Head(<<"~">>) = "~" /\ Tail(<<"~">>) = <<>>
OBVIOUS

LEMMA KeyBytes ==
  /\ \A k \in Texts \cup {"bs", "enter"} : Keys[k] = <<k>>
  /\ Keys["esc"] = <<"ESC">> /\ Keys["up"] = <<"ESC", "[", "A">> /\ Keys["down"] = <<"ESC", "[", "B">>
  /\ Keys["del"] = <<"ESC", "[", "3", "~">>
  /\ DOMAIN Keys = Texts \cup {"bs", "enter"} \cup {"esc", "up", "down", "del"}
BY CliAssumption DEF Keys, Texts, Blank

LEMMA CliInitially == LineInit => CliInv
<1> SUFFICES ASSUME LineInit PROVE CliInv
  OBVIOUS
<1> USE CliAssumption
<1>1. /\ rest = <<>> /\ pStr = <<>> /\ ~escString /\ hist = <<>> /\ lines = <<>>
      /\ escString \in BOOLEAN /\ escPos = 0 /\ escParam \in {"A", "B", "3"} /\ noMod = TRUE /\ histIdx = -1 /\ overrun = FALSE
      /\ ended = 0 /\ arrow = FALSE /\ edited = <<>> /\ plain = TRUE /\ erased = FALSE
  BY DEF LineInit
<1>2. /\ <<>> \in Seq(Texts) /\ <<>> \in Seq(Seq(Texts)) /\ Len(<<>>) = 0 /\ DOMAIN <<>> = {}
  OBVIOUS
<1>3. LineShape
  <2>1. /\ Len(pStr) = 0 /\ Len(hist) = 0 /\ pStr \in Seq(Texts) /\ hist \in Seq(Seq(Texts)) /\ lines \in Seq(Seq(Texts))
    BY <1>1, <1>2
  <2>2. histIdx \in -1 .. (IF overrun THEN Past ELSE Len(hist) - 1) /\ Len(pStr) < LineLen /\ Len(hist) <= Depth
        /\ escPos \in 0 .. Full /\ overrun \in BOOLEAN /\ ended \in 0 .. MaxEnded
    <3>1. histIdx \in -1 .. Len(hist) - 1 /\ overrun = FALSE
      BY <1>1, <2>1
    <3>2. escPos \in 0 .. Full /\ Len(pStr) < LineLen /\ Len(hist) <= Depth /\ ended \in 0 .. MaxEnded
      BY <1>1, <2>1 DEF Full
    <3> QED BY <3>1, <3>2, Zenon
  <2> QED BY <1>1, <2>1, <2>2, Zenon DEF LineShape, LineTypeOK
<1>4. Fresh = {} /\ Cardinality(Fresh) = 0
  BY <1>1, <1>2, FS_EmptySet DEF Fresh
<1>5. HistoryIsRecent
  BY <1>1, <1>2, <1>3, <1>4 DEF HistoryIsRecent, LineShape
<1>6. Place /\ Plainly /\ Marked /\ Recalling /\ NewestLine
  BY <1>1, <1>2 DEF Place, Plainly, Marked, Recalling, NewestLine
<1> QED BY <1>3, <1>5, <1>6 DEF CliInv

\* The history follows from the lines alone.
LEMMA StackSame ==
  ASSUME CliInv, UNCHANGED <<hist, lines>>, LineShape'
  PROVE  NewestLine' /\ HistoryIsRecent'
<1>1. NewestLine'
  BY DEF CliInv, NewestLine
<1>2. Fresh' = Fresh
  BY DEF Fresh
<1> QED BY <1>1, <1>2 DEF CliInv, HistoryIsRecent, LineShape

LEMMA PressKeeps ==
  ASSUME CliInv, NEW k \in DOMAIN Keys, Press(k)
  PROVE  CliInv'
<1> USE CliAssumption
<1>1. /\ rest = <<>> /\ ended < MaxEnded /\ rest' = Keys[k]
      /\ plain' = (plain /\ k \notin {"esc", "up", "down"})
      /\ edited' = IF ~plain' THEN <<>>
                   ELSE IF k \in Texts THEN Append(edited, k)
                   ELSE IF k = "bs" THEN Chopped(edited) ELSE edited
      /\ arrow' = (k \in {"up", "down"})
      /\ before' = IF arrow' THEN pStr ELSE <<>>
      /\ erased' = (erased \/ (k = "bs" /\ ~escString))
      /\ pStr' = pStr /\ escString' = escString /\ escPos' = escPos /\ escParam' = escParam
      /\ noMod' = noMod /\ histIdx' = histIdx /\ overrun' = overrun /\ hist' = hist /\ lines' = lines /\ ended' = ended
  BY DEF Press, escape, browse, stack
<1>2. LineShape'
  BY <1>1 DEF CliInv, LineShape, LineTypeOK
<1>3. NewestLine' /\ HistoryIsRecent'
  BY <1>1, <1>2, StackSame
<1>4. \/ k \in Texts \cup {"bs", "enter"} /\ rest' = <<k>>
      \/ k = "esc" /\ rest' = <<"ESC">>
      \/ k = "up" /\ rest' = <<"ESC", "[", "A">>
      \/ k = "down" /\ rest' = <<"ESC", "[", "B">>
      \/ k = "del" /\ rest' = <<"ESC", "[", "3", "~">>
  BY <1>1, KeyBytes
<1>5. Place'
  BY <1>1, <1>4 DEF Place, AtByte, AtArrow, AtDelete
<1>6. Plainly'
  <2> SUFFICES ASSUME plain' PROVE Plainly'
    BY DEF Plainly
  <2>1. plain /\ k \notin {"esc", "up", "down"}
    BY <1>1 DEF CliInv, LineShape
  <2>2. ~escString /\ edited = pStr
    BY <1>1, <2>1, OneByte, DeleteBytes DEF CliInv, Plainly, AtDelete
  <2>3. {"bs", "enter", "del"} \cap Texts = {}
    BY DEF Texts, Blank
  <2>4. CASE k \in Texts
    BY <1>1, <1>4, <2>2, <2>4 DEF Plainly, Texts, Blank
  <2>5. CASE k = "bs"
    <3>1. edited' = Chopped(pStr)'
      BY <1>1, <2>2, <2>3, <2>5 DEF Chopped
    <3> QED BY <1>1, <1>4, <2>2, <2>5, <3>1 DEF Plainly
  <2>6. CASE k = "enter"
    BY <1>1, <1>4, <2>6 DEF Plainly
  <2>7. CASE k = "del"
    <3>1. edited' = pStr'
      BY <1>1, <2>2, <2>3, <2>7
    <3> QED BY <1>4, <2>3, <2>7, <3>1 DEF Plainly, AtDelete
  <2> QED BY <1>4, <2>1, <2>4, <2>5, <2>6, <2>7
<1>7. Marked'
  <2>1. (erased => ~noMod \/ overrun) /\ (plain => ~overrun)
    BY <1>1, OneByte DEF CliInv, Marked
  <2>2. k = "bs" => rest' = <<"bs">>
    BY <1>4
  <2> QED BY <1>1, <2>1, <2>2 DEF Marked
<1>8. Recalling'
  BY <1>1, <1>4 DEF Recalling, AtArrow, Texts, Blank
<1> QED BY <1>2, <1>3, <1>5, <1>6, <1>7, <1>8 DEF CliInv

-----------------------------------------------------------------------------
(* One byte. *)

Ctl == {"bs", "enter", "ESC"}

\* The next byte, and what is left behind it.
LEMMA ByteIs ==
  ASSUME CliInv, NextByte
  PROVE  /\ rest' = Tail(rest) /\ ended < MaxEnded
         /\ \/ ch \in Texts \cup Ctl /\ rest = <<ch>> /\ rest' = <<>>
            \/ \E x \in {"A", "B"} :
                 \/ ch = "ESC" /\ rest = <<"ESC", "[", x>> /\ rest' = <<"[", x>>
                 \/ ch = "[" /\ rest = <<"[", x>> /\ rest' = <<x>> /\ escString /\ escPos = 0
                 \/ ch = x /\ rest = <<x>> /\ rest' = <<>> /\ escString /\ escPos = 1
            \/ ch = "ESC" /\ rest = <<"ESC", "[", "3", "~">> /\ rest' = <<"[", "3", "~">>
            \/ ch = "[" /\ rest = <<"[", "3", "~">> /\ rest' = <<"3", "~">> /\ escString /\ escPos = 0
            \/ ch = "3" /\ rest = <<"3", "~">> /\ rest' = <<"~">> /\ escString /\ escPos = 1
            \/ ch = "~" /\ rest = <<"~">> /\ rest' = <<>> /\ escString /\ escPos = 2 /\ escParam = "3"
<1>1. rest # <<>> /\ rest' = Tail(rest) /\ ended < MaxEnded
  BY DEF NextByte, CliInv, Place
<1>2. CASE AtByte
  BY <1>1, <1>2, OneByte DEF AtByte, Ctl, ch
<1>3. ASSUME NEW x \in {"A", "B"}, AtArrow(x)
      PROVE  \/ ch = "ESC" /\ rest = <<"ESC", "[", x>> /\ rest' = <<"[", x>>
             \/ ch = "[" /\ rest = <<"[", x>> /\ rest' = <<x>> /\ escString /\ escPos = 0
             \/ ch = x /\ rest = <<x>> /\ rest' = <<>> /\ escString /\ escPos = 1
  BY <1>1, <1>3, OneByte, ArrowBytes DEF AtArrow, ch
<1>4. CASE AtDelete
  BY <1>1, <1>4, DeleteBytes DEF AtDelete, ch
<1> QED BY <1>1, <1>2, <1>3, <1>4 DEF CliInv, Place

\* An arrow's bytes are no other key's.
LEMMA InArrow ==
  ASSUME CliInv, NextByte, arrow
  PROVE  /\ pStr = before
         /\ \E x \in {"A", "B"} :
              \/ ch = "ESC" /\ rest' = <<"[", x>>
              \/ ch = "[" /\ rest' = <<x>> /\ escString /\ escPos = 0
              \/ ch = x /\ rest' = <<>> /\ escString /\ escPos = 1
<1>1. rest # <<>> /\ rest' = Tail(rest)
  BY DEF NextByte
<1>2. PICK x \in {"A", "B"} : AtArrow(x)
  BY <1>1 DEF CliInv, Recalling
<1>3. pStr = before
  BY <1>1 DEF CliInv, Recalling
<1> QED BY <1>1, <1>2, <1>3, OneByte, ArrowBytes DEF AtArrow, ch

\* Without arrows and lone escapes a byte of a letter is one.
LEMMA InPlain ==
  ASSUME CliInv, NextByte, plain
  PROVE  \/ ch \in Texts /\ rest' = <<>> /\ ~escString /\ edited = Append(pStr, ch)
         \/ ch = "bs" /\ rest' = <<>> /\ ~escString /\ edited = Chopped(pStr)
         \/ ch = "enter"
         \/ /\ edited = pStr
            /\ \/ ch = "ESC" /\ rest' = <<"[", "3", "~">>
               \/ ch = "[" /\ rest' = <<"3", "~">> /\ escString /\ escPos = 0
               \/ ch = "3" /\ rest' = <<"~">> /\ escString /\ escPos = 1
               \/ ch = "~" /\ rest' = <<>> /\ escString /\ escPos = 2 /\ escParam = "3"
<1>1. rest # <<>> /\ rest' = Tail(rest)
  BY DEF NextByte
<1>2. CASE \E k \in Texts : rest = <<k>> /\ ~escString /\ edited = Append(pStr, k)
  BY <1>1, <1>2, OneByte DEF ch
<1>3. CASE rest = <<"bs">> /\ ~escString /\ edited = Chopped(pStr)
  BY <1>1, <1>3, OneByte DEF ch
<1>4. CASE rest = <<"enter">>
  BY <1>4, OneByte DEF ch
<1>5. CASE AtDelete /\ edited = pStr
  BY <1>1, <1>5, DeleteBytes DEF AtDelete, ch
<1> QED BY <1>1, <1>2, <1>3, <1>4, <1>5 DEF CliInv, Plainly

LEMMA NotLetters ==
  Texts \cap {"bs", "enter", "ESC", "del", "up", "down", "esc"} = {}
BY CliAssumption DEF Texts, Blank

LEMMA EscapeKeeps ==
  ASSUME CliInv, Escape
  PROVE  CliInv'
<1> USE CliAssumption
<1>1. /\ NextByte /\ ch = "ESC" /\ escString' = TRUE /\ escPos' = 0
      /\ pStr' = pStr /\ escParam' = escParam /\ noMod' = noMod /\ histIdx' = histIdx /\ overrun' = overrun
      /\ hist' = hist /\ lines' = lines /\ ended' = ended
      /\ arrow' = arrow /\ before' = before /\ edited' = edited /\ plain' = plain /\ erased' = erased
  BY DEF Escape, browse, stack, pressed
<1>2. LineShape'
  BY <1>1 DEF CliInv, LineShape, LineTypeOK, Full
<1>3. NewestLine' /\ HistoryIsRecent'
  BY <1>1, <1>2, StackSame
<1>4. ended < MaxEnded
  BY <1>1, ByteIs
<1>5. \/ rest' = <<>>
      \/ \E x \in {"A", "B"} : rest' = <<"[", x>>
      \/ rest' = <<"[", "3", "~">>
  BY <1>1, ByteIs, NotLetters
<1>6. Place'
  BY <1>1, <1>4, <1>5 DEF Place, AtArrow, AtDelete
<1>7. Plainly'
  BY <1>1, InPlain, NotLetters DEF Plainly, AtDelete
<1>8. Marked'
  <2>1. rest # <<"bs">>
    BY <1>1, OneByte DEF ch
  <2> QED BY <1>1, <2>1 DEF CliInv, Marked
<1>9. Recalling'
  BY <1>1, InArrow DEF Recalling, AtArrow
<1> QED BY <1>2, <1>3, <1>6, <1>7, <1>8, <1>9 DEF CliInv

LEMMA EscFirstKeeps ==
  ASSUME CliInv, EscFirst
  PROVE  CliInv'
<1> USE CliAssumption
<1>1. /\ NextByte /\ escString /\ escPos = 0 /\ ch \notin {"ESC", "enter"}
      /\ escPos' = 1 /\ escString' = (ch = "[")
      /\ pStr' = pStr /\ escParam' = escParam /\ noMod' = noMod /\ histIdx' = histIdx /\ overrun' = overrun
      /\ hist' = hist /\ lines' = lines /\ ended' = ended
      /\ arrow' = arrow /\ before' = before /\ edited' = edited /\ plain' = plain /\ erased' = erased
  BY DEF EscFirst, browse, stack, pressed
<1>2. LineShape'
  BY <1>1 DEF CliInv, LineShape, LineTypeOK, Full
<1>3. NewestLine' /\ HistoryIsRecent'
  BY <1>1, <1>2, StackSame
<1>4. ended < MaxEnded
  BY <1>1, ByteIs
<1>5. \/ rest' = <<>>
      \/ \E x \in {"A", "B"} : ch = "[" /\ rest' = <<x>>
      \/ ch = "[" /\ rest' = <<"3", "~">>
  BY <1>1, ByteIs
<1>6. Place'
  BY <1>1, <1>4, <1>5 DEF Place, AtArrow, AtDelete
<1>7. Plainly'
  <2> SUFFICES ASSUME plain PROVE Plainly'
    BY <1>1 DEF Plainly
  <2>1. ch = "[" /\ edited = pStr /\ rest' = <<"3", "~">>
    BY <1>1, InPlain
  <2> QED BY <1>1, <2>1 DEF Plainly, AtDelete
<1>8. Marked'
  BY <1>1 DEF CliInv, Marked
<1>9. Recalling'
  BY <1>1, InArrow DEF Recalling, AtArrow
<1> QED BY <1>2, <1>3, <1>6, <1>7, <1>8, <1>9 DEF CliInv

\* A parameter's store changes nothing but the locals, and within the array only
\* escParam[0].
LEMMA StoreKeeps ==
  ASSUME CliInv, NEW str \in BOOLEAN, NEW idx \in -1 .. (IF overrun THEN Past ELSE Len(hist) - 1),
         Store(str, idx), ch \in Texts \cup {"A", "B", "3", "[", "bs"}
  PROVE  /\ escParam' \in Texts \cup {"A", "B", "3", "[", "bs"} /\ escString' \in BOOLEAN /\ noMod' \in BOOLEAN
         /\ overrun' \in BOOLEAN /\ histIdx' \in -1 .. (IF overrun' THEN Past ELSE Len(hist) - 1)
         /\ escString' \in {str, TRUE} /\ (overrun => overrun')
         /\ escPos < Full => /\ escParam' = IF escPos = 1 THEN ch ELSE escParam
                             /\ escString' = str /\ histIdx' = idx /\ noMod' = noMod /\ overrun' = overrun
         /\ ~overrun' => noMod' = noMod
<1>1. /\ escParam \in Texts \cup {"A", "B", "3", "[", "bs"} /\ noMod \in BOOLEAN /\ overrun \in BOOLEAN
      /\ Len(hist) \in Nat /\ Len(hist) <= Depth
  BY LenProperties DEF CliInv, LineShape, LineTypeOK
<1>2. CASE escPos < Full
  BY <1>1, <1>2 DEF Store
<1>3. CASE ~(escPos < Full)
  <2>1. /\ escString' \in {str, TRUE} /\ histIdx' \in {idx, Past} /\ noMod' \in {noMod, TRUE}
        /\ overrun' = TRUE /\ escParam' = escParam
    BY <1>3 DEF Store
  <2>2. idx \in -1 .. Past /\ Past \in -1 .. Past
    BY <1>1, CliAssumption DEF Past
  <2>3. histIdx' \in -1 .. Past /\ histIdx' \in -1 .. (IF overrun' THEN Past ELSE Len(hist) - 1)
    BY <2>1, <2>2, Zenon
  <2>4. escString' \in BOOLEAN /\ noMod' \in BOOLEAN /\ overrun' \in BOOLEAN
    BY <1>1, <2>1, Zenon
  <2> QED BY <1>1, <1>3, <2>1, <2>3, <2>4, Zenon
<1> QED BY <1>2, <1>3

LEMMA EscMoreKeeps ==
  ASSUME CliInv, EscMore
  PROVE  CliInv'
<1> USE CliAssumption
<1>1. /\ NextByte /\ escString /\ escPos >= 1 /\ ch \notin {"ESC", "enter", "A", "B", "~"}
      /\ escPos' = IF escPos < Full THEN escPos + 1 ELSE Full
      /\ pStr' = pStr /\ hist' = hist /\ lines' = lines /\ ended' = ended
      /\ arrow' = arrow /\ before' = before /\ edited' = edited /\ plain' = plain /\ erased' = erased
  BY DEF EscMore, Ending, stack, pressed
<1>2. /\ ended < MaxEnded /\ escPos \in 0 .. Full
      /\ \/ ch \in Texts \cup {"bs"} /\ rest' = <<>>
         \/ ch = "3" /\ rest' = <<"~">> /\ escPos = 1
  BY <1>1, ByteIs DEF Ctl, CliInv, LineShape, LineTypeOK
<1>3. /\ escParam' \in Texts \cup {"A", "B", "3", "[", "bs"} /\ escString' = TRUE /\ noMod' \in BOOLEAN
      /\ overrun' \in BOOLEAN /\ histIdx' \in -1 .. (IF overrun' THEN Past ELSE Len(hist) - 1)
      /\ (overrun => overrun')
      /\ escPos < Full => /\ escParam' = IF escPos = 1 THEN ch ELSE escParam
                          /\ noMod' = noMod /\ overrun' = overrun
      /\ ~overrun' => noMod' = noMod
  <2>1. Store(TRUE, histIdx) /\ histIdx \in -1 .. (IF overrun THEN Past ELSE Len(hist) - 1)
    BY DEF EscMore, CliInv, LineShape, LineTypeOK
  <2>2. ch \in Texts \cup {"A", "B", "3", "[", "bs"}
    BY <1>2
  <2> QED BY <2>1, <2>2, StoreKeeps
<1>4. LineShape'
  <2>1. escPos' \in 0 .. Full
    BY <1>1, <1>2 DEF Full
  <2> QED BY <1>1, <1>3, <2>1 DEF CliInv, LineShape, LineTypeOK
<1>5. NewestLine' /\ HistoryIsRecent'
  BY <1>1, <1>4, StackSame
<1>6. escPos = 1 => escPos' = 2 /\ escParam' = ch /\ overrun' = overrun
  BY <1>1, <1>3 DEF Full
<1>7. Place'
  BY <1>1, <1>2, <1>3, <1>6 DEF Place, AtDelete
<1>8. plain => rest' = <<"~">> /\ escPos = 1 /\ ch = "3" /\ edited = pStr
  BY <1>1, InPlain, NotLetters
<1>9. Plainly'
  BY <1>1, <1>3, <1>6, <1>8 DEF Plainly, AtDelete
<1>10. Marked'
  BY <1>1, <1>3, <1>6, <1>8 DEF CliInv, Marked
<1>11. Recalling'
  BY <1>1, <1>2, InArrow DEF Recalling
<1> QED BY <1>4, <1>5, <1>7, <1>9, <1>10, <1>11 DEF CliInv

LEMMA ChoppedType ==
  ASSUME NEW s \in Seq(Texts)
  PROVE  Chopped(s) \in Seq(Texts) /\ Len(Chopped(s)) <= Len(s)
<1>1. CASE s = <<>>
  BY <1>1 DEF Chopped
<1>2. CASE s # <<>>
  <2>1. Len(s) \in Nat \ {0} /\ \A i \in 1 .. Len(s) - 1 : s[i] \in Texts
    BY <1>2, EmptySeq, ElementOfSeq
  <2>2. /\ SubSeq(s, 1, Len(s) - 1) \in Seq(Texts)
        /\ Len(SubSeq(s, 1, Len(s) - 1)) = IF 1 <= Len(s) - 1 THEN Len(s) - 1 - 1 + 1 ELSE 0
    <3>1. 1 \in Int /\ Len(s) - 1 \in Int
      BY <2>1
    <3> QED BY <2>1, <3>1, SubSeqProperties
  <2> QED BY <1>2, <2>1, <2>2 DEF Chopped
<1> QED BY <1>1, <1>2

LEMMA BackspaceKeeps ==
  ASSUME CliInv, Backspace
  PROVE  CliInv'
<1> USE CliAssumption
<1>1. /\ NextByte /\ ~escString /\ ch = "bs" /\ pStr' = Chopped(pStr) /\ noMod' = FALSE
      /\ escString' = escString /\ escPos' = escPos /\ escParam' = escParam /\ histIdx' = histIdx /\ overrun' = overrun
      /\ hist' = hist /\ lines' = lines /\ ended' = ended
      /\ arrow' = arrow /\ before' = before /\ edited' = edited /\ plain' = plain /\ erased' = erased
  BY DEF Backspace, escape, stack, pressed
<1>2. pStr \in Seq(Texts) /\ Len(pStr) < LineLen
  BY DEF CliInv, LineShape, LineTypeOK
<1>3. pStr' \in Seq(Texts) /\ Len(pStr') < LineLen
  <2>1. Chopped(pStr) \in Seq(Texts) /\ Len(Chopped(pStr)) <= Len(pStr)
    BY <1>2, ChoppedType
  <2>2. Len(pStr) \in Nat /\ Len(Chopped(pStr)) \in Nat
    BY <1>2, <2>1, LenProperties
  <2> QED BY <1>1, <1>2, <2>1, <2>2
<1>4. LineShape'
  BY <1>1, <1>3 DEF CliInv, LineShape, LineTypeOK
<1>5. NewestLine' /\ HistoryIsRecent'
  BY <1>1, <1>4, StackSame
<1>6. rest' = <<>>
  BY <1>1, ByteIs
<1>7. Plainly'
  BY <1>1, <1>6, InPlain, NotLetters DEF Plainly
<1>8. Recalling'
  BY <1>1, InArrow DEF Recalling
<1> QED BY <1>1, <1>4, <1>5, <1>6, <1>7, <1>8 DEF CliInv, Place, Marked

-----------------------------------------------------------------------------
(* The end of a line. *)

\* A set of numbers has a least one, and a greatest one if it is bounded.
LEMMA Least ==
  ASSUME NEW S, S \subseteq Nat, S # {}
  PROVE  \E m \in S : \A n \in S : m <= n
<1> DEFINE R == OpToRel(<, Nat)
<1>1. IsWellFoundedOn(R, Nat)
  BY NatLessThanWellFounded
<1> HIDE DEF R
<1>2. PICK m \in S : \A n \in S : ~(<<n, m>> \in R)
  BY <1>1, WFMin
<1>3. \A n \in S : ~(n < m)
  BY <1>2 DEF R, OpToRel
<1> QED BY <1>3

LEMMA Greatest ==
  ASSUME NEW S, NEW b \in Nat, S \subseteq 1 .. b, S # {}
  PROVE  \E m \in S : \A n \in S : m >= n
<1> DEFINE T == {i \in Nat : \E j \in S : i = b - j}
<1>1. T \subseteq Nat /\ T # {}
  <2>1. PICK j \in S : TRUE
    OBVIOUS
  <2>2. b - j \in T
    BY <2>1
  <2> QED BY <2>2
<1> HIDE DEF T
<1>2. PICK i \in T : \A k \in T : i <= k
  BY <1>1, Least
<1>3. PICK m \in S : i = b - m
  BY <1>2 DEF T
<1>4. ASSUME NEW n \in S PROVE m >= n
  <2>1. b - n \in T /\ n \in 1 .. b /\ m \in 1 .. b
    BY DEF T
  <2>2. b - m <= b - n
    BY <2>1, <1>2, <1>3
  <2> QED BY <2>1, <2>2
<1> QED BY <1>4

\* What is left of a line is a text.
LEMMA TrimmedType ==
  ASSUME NEW s \in Seq(Texts)
  PROVE  Trimmed(s) \in Seq(Texts)
<1> DEFINE Solid == {i \in 1 .. Len(s) : s[i] # Blank}
           a == CHOOSE i \in Solid : \A j \in Solid : i <= j
           b == CHOOSE i \in Solid : \A j \in Solid : i >= j
<1>1. Len(s) \in Nat /\ \A i \in 1 .. Len(s) : s[i] \in Texts
  BY LenProperties, ElementOfSeq
<1>2. Trimmed(s) = IF Solid = {} THEN <<>> ELSE SubSeq(s, a, b)
  BY DEF Trimmed
<1>3. CASE Solid = {}
  BY <1>2, <1>3
<1>4. Solid \subseteq 1 .. Len(s) /\ Solid \subseteq Nat
  BY <1>1
<1>5. CASE Solid # {}
  <2> HIDE DEF Solid
  <2>1. a \in Solid
    <3>1. \E i \in Solid : \A j \in Solid : i <= j
      BY <1>4, <1>5, Least
    <3> QED BY <3>1
  <2>2. b \in Solid
    <3>1. \E i \in Solid : \A j \in Solid : i >= j
      BY <1>1, <1>4, <1>5, Greatest
    <3> QED BY <3>1
  <2>3. a \in 1 .. Len(s) /\ b \in 1 .. Len(s)
    BY <2>1, <2>2, <1>4
  <2> HIDE DEF a, b
  <2>4. a \in Int /\ b \in Int /\ \A i \in a .. b : s[i] \in Texts
    BY <1>1, <2>3
  <2>5. SubSeq(s, a, b) \in Seq(Texts)
    BY <2>4, SubSeqProperties
  <2> QED BY <1>2, <1>5, <2>5
<1> QED BY <1>3, <1>5

\* The stack after a line that is kept.
LEMMA PushedIs ==
  ASSUME CliInv, NEW t \in Seq(Texts), t # <<>>, hist # <<>> => t # hist[1]
  PROVE  /\ Pushed(t) \in Seq(Seq(Texts)) /\ Len(hist) \in Nat
         /\ Len(Pushed(t)) = IF Len(hist) < Depth THEN Len(hist) + 1 ELSE Depth
         /\ Pushed(t)[1] = t
         /\ \A k \in 2 .. Len(Pushed(t)) : k - 1 \in 1 .. Len(hist) /\ Pushed(t)[k] = hist[k - 1]
<1> USE CliAssumption
<1>1. hist \in Seq(Seq(Texts)) /\ Len(hist) \in Nat /\ Len(hist) <= Depth /\ <<t>> \in Seq(Seq(Texts))
      /\ Len(<<t>>) = 1 /\ <<t>>[1] = t
  BY LenProperties DEF CliInv, LineShape, LineTypeOK
<1> DEFINE u == <<t>> \o hist
           n == IF Len(hist) < Depth THEN Len(hist) + 1 ELSE Depth
<1>2. /\ u \in Seq(Seq(Texts)) /\ Len(u) = 1 + Len(hist)
      /\ \A i \in 1 .. 1 + Len(hist) : u[i] = IF i <= 1 THEN t ELSE hist[i - 1]
  <2>1. /\ u \in Seq(Seq(Texts)) /\ Len(u) = Len(<<t>>) + Len(hist)
        /\ \A i \in 1 .. Len(<<t>>) + Len(hist) : u[i] = IF i <= Len(<<t>>) THEN <<t>>[i] ELSE hist[i - Len(<<t>>)]
    BY <1>1, ConcatProperties
  <2>2. \A i \in 1 .. 1 + Len(hist) : i <= 1 => i = 1
    BY <1>1
  <2> QED BY <1>1, <2>1, <2>2
<1>3. n \in Nat \ {0} /\ n <= 1 + Len(hist)
  BY <1>1
<1>4. Pushed(t) = SubSeq(u, 1, n)
  BY DEF Pushed
<1> HIDE DEF u, n
<1>5. /\ Pushed(t) \in Seq(Seq(Texts)) /\ Len(Pushed(t)) = n
      /\ \A i \in 1 .. n : Pushed(t)[i] = u[i]
  <2>1. 1 \in Int /\ n \in Int /\ \A i \in 1 .. n : u[i] \in Seq(Texts)
    BY <1>1, <1>2, <1>3, ElementOfSeq
  <2>2. /\ SubSeq(u, 1, n) \in Seq(Seq(Texts))
        /\ Len(SubSeq(u, 1, n)) = IF 1 <= n THEN n - 1 + 1 ELSE 0
        /\ \A i \in 1 .. n - 1 + 1 : SubSeq(u, 1, n)[i] = u[1 + i - 1]
    BY <2>1, SubSeqProperties
  <2>3. \A i \in 1 .. n : i \in 1 .. n - 1 + 1 /\ 1 + i - 1 = i
    BY <1>3
  <2> QED BY <1>3, <1>4, <2>2, <2>3
<1>6. Pushed(t)[1] = t
  BY <1>1, <1>2, <1>3, <1>5
<1>7. ASSUME NEW k \in 2 .. Len(Pushed(t))
      PROVE  k - 1 \in 1 .. Len(hist) /\ Pushed(t)[k] = hist[k - 1]
  <2>1. k \in 1 .. n /\ k \in 1 .. 1 + Len(hist) /\ ~(k <= 1) /\ k - 1 \in 1 .. Len(hist)
    BY <1>1, <1>3, <1>5
  <2> QED BY <2>1, <1>2, <1>5
<1> QED BY <1>1, <1>5, <1>6, <1>7 DEF n

\* A line is kept just when it becomes a fresh one.
LEMMA FreshGrows ==
  ASSUME CliInv, NEW t \in Seq(Texts), lines' = Append(lines, t)
  PROVE  /\ Len(lines) \in Nat /\ lines' \in Seq(Seq(Texts)) /\ Len(lines') = Len(lines) + 1
         /\ \A i \in 1 .. Len(lines) : lines'[i] = lines[i]
         /\ lines'[Len(lines) + 1] = t
         /\ Fresh \subseteq 1 .. Len(lines)
         /\ Fresh' = IF t = <<>> \/ (hist # <<>> /\ t = hist[1]) THEN Fresh ELSE Fresh \cup {Len(lines) + 1}
<1> DEFINE n == Len(lines) + 1
<1>1. lines \in Seq(Seq(Texts)) /\ Len(lines) \in Nat /\ DOMAIN lines = 1 .. Len(lines)
  BY LenProperties DEF CliInv, LineShape
<1>2. /\ lines' \in Seq(Seq(Texts)) /\ Len(lines') = n /\ DOMAIN lines' = 1 .. n
      /\ \A i \in 1 .. Len(lines) : lines'[i] = lines[i]
      /\ lines'[n] = t
  BY <1>1, AppendProperties, LenProperties
<1>3. Fresh \subseteq 1 .. Len(lines)
  BY <1>1 DEF Fresh
<1> DEFINE F(ls, i) ==
             /\ ls[i] # <<>>
             /\ \A j \in 1 .. i - 1 : ls[j] = ls[i] =>
                  \E k \in j + 1 .. i - 1 : ls[k] \notin {<<>>, ls[i]}
<1>4. Fresh = {i \in 1 .. Len(lines) : F(lines, i)} /\ Fresh' = {i \in 1 .. n : F(lines', i)}
  BY <1>1, <1>2 DEF Fresh
<1>5. ASSUME NEW i \in 1 .. Len(lines) PROVE F(lines', i) <=> F(lines, i)
  <2>1. \A j \in 1 .. i : lines'[j] = lines[j]
    BY <1>1, <1>2
  <2>2. \A j \in 1 .. i - 1 : j \in 1 .. i /\ \A k \in j + 1 .. i - 1 : k \in 1 .. i
    BY <1>1
  <2>3. i \in 1 .. i
    BY <1>1
  <2> QED BY <2>1, <2>2, <2>3
<1>6. n \in 1 .. n /\ (\A i \in 1 .. n : i = n \/ i \in 1 .. Len(lines)) /\ \A i \in 1 .. Len(lines) : i \in 1 .. n
  BY <1>1
<1>7. \A k \in 1 .. n - 1 : k \in 1 .. Len(lines) /\ lines'[k] = lines[k]
  BY <1>1, <1>2
<1>8. NewestLine
  BY DEF CliInv
<1>9. CASE t = <<>>
  <2>1. ~F(lines', n)
    BY <1>2, <1>9
  <2> HIDE DEF F, n
  <2> QED BY <1>2, <1>3, <1>4, <1>5, <1>9, <1>6, <2>1 DEF n
<1>10. CASE hist # <<>> /\ t = hist[1]
  <2>1. PICK m \in 1 .. Len(lines) : lines[m] = t /\ \A k \in m + 1 .. Len(lines) : lines[k] = <<>>
    BY <1>1, <1>8, <1>10 DEF NewestLine
  <2>2. m \in 1 .. n - 1 /\ \A k \in m + 1 .. n - 1 : k \in m + 1 .. Len(lines)
    BY <1>1, <2>1
  <2>3. ~F(lines', n)
    BY <1>2, <1>7, <2>1, <2>2
  <2> HIDE DEF F, n
  <2> QED BY <1>2, <1>3, <1>4, <1>5, <1>10, <1>6, <2>3 DEF n
<1>11. CASE t # <<>> /\ ~(hist # <<>> /\ t = hist[1])
  <2>1. ASSUME NEW j \in 1 .. n - 1, lines'[j] = lines'[n]
        PROVE  \E k \in j + 1 .. n - 1 : lines'[k] \notin {<<>>, lines'[n]}
    <3>1. lines[j] = t /\ j \in 1 .. Len(lines)
      BY <1>2, <1>7, <2>1
    <3>2. hist # <<>> /\ t # hist[1]
      BY <1>1, <1>8, <1>11, <3>1 DEF NewestLine
    <3>3. PICK m \in 1 .. Len(lines) : lines[m] = hist[1] /\ \A k \in m + 1 .. Len(lines) : lines[k] = <<>>
      BY <1>1, <1>8, <3>2 DEF NewestLine
    <3>4. j # m /\ j \notin m + 1 .. Len(lines)
      BY <1>11, <3>1, <3>2, <3>3
    <3>5. m \in j + 1 .. n - 1
      BY <1>1, <3>1, <3>3, <3>4
    <3>6. hist[1] # <<>>
      <4>1. hist \in Seq(Seq(Texts)) /\ 1 \in 1 .. Len(hist)
        BY <3>2, EmptySeq DEF CliInv, LineShape, LineTypeOK
      <4> QED BY <1>8, <4>1 DEF NewestLine
    <3>7. lines'[m] = hist[1]
      BY <1>2, <3>3
    <3> QED BY <1>2, <3>2, <3>5, <3>6, <3>7
  <2>2. F(lines', n)
    BY <1>2, <1>11, <2>1
  <2> HIDE DEF F, n
  <2> QED BY <1>2, <1>3, <1>4, <1>5, <1>11, <1>6, <2>2 DEF n
<1> QED BY <1>1, <1>2, <1>3, <1>9, <1>10, <1>11

\* The counts of HistoryIsRecent.
Counted ==
  /\ Len(hist) = IF Cardinality(Fresh) < Depth THEN Cardinality(Fresh) ELSE Depth
  /\ \A k \in 1 .. Len(hist) : \E i \in Fresh :
       Cardinality({j \in Fresh : j > i}) = k - 1 /\ hist[k] = lines[i]

LEMMA FinitePart ==
  ASSUME NEW b \in Nat, NEW S, S \subseteq 1 .. b
  PROVE  IsFiniteSet(S) /\ Cardinality(S) \in Nat
<1>1. 1 \in Int /\ b \in Int
  OBVIOUS
<1>2. IsFiniteSet(1 .. b)
  BY <1>1, FS_Interval, Zenon
<1>3. IsFiniteSet(S)
  BY <1>2, FS_Subset
<1> QED BY <1>3, FS_CardinalityType

LEMMA StackKeeps ==
  ASSUME CliInv, NEW t \in Seq(Texts), hist' = Pushed(t), lines' = Append(lines, t)
  PROVE  hist' \in Seq(Seq(Texts)) /\ Len(hist') <= Depth /\ NewestLine' /\ Counted'
<1> USE CliAssumption
<1> DEFINE n == Len(lines) + 1
<1>1. /\ Len(lines) \in Nat /\ lines' \in Seq(Seq(Texts)) /\ Len(lines') = n
      /\ \A i \in 1 .. Len(lines) : lines'[i] = lines[i]
      /\ lines'[n] = t
      /\ Fresh \subseteq 1 .. Len(lines)
      /\ Fresh' = IF t = <<>> \/ (hist # <<>> /\ t = hist[1]) THEN Fresh ELSE Fresh \cup {n}
  BY FreshGrows
<1>2. DOMAIN lines = 1 .. Len(lines) /\ DOMAIN lines' = 1 .. n
  BY <1>1, LenProperties DEF CliInv, LineShape
<1>3. hist \in Seq(Seq(Texts)) /\ Len(hist) \in Nat /\ Len(hist) <= Depth
  BY LenProperties DEF CliInv, LineShape, LineTypeOK
<1>4. NewestLine /\ Counted
  BY DEF CliInv, HistoryIsRecent, Counted
<1>5. \A m \in 1 .. Len(lines) : \A k \in m + 1 .. n : k = n \/ k \in m + 1 .. Len(lines)
  <2>1. Len(lines) \in Nat
    BY <1>1
  <2> QED BY <2>1
<1>6. IsFiniteSet(Fresh) /\ Cardinality(Fresh) \in Nat
  BY <1>1, FinitePart
<1>7. n \in 1 .. n /\ n \notin Fresh /\ \A k \in n + 1 .. n : FALSE
  BY <1>1
<1> HIDE DEF n
<1>8. CASE t = <<>> \/ (hist # <<>> /\ t = hist[1])
  <2>1. hist' = hist /\ Fresh' = Fresh
    BY <1>1, <1>8 DEF Pushed
  <2>2. NewestLine'
    <3>1. hist # <<>> => 1 \in 1 .. Len(hist)
      BY <1>3, EmptySeq
    <3>2. hist = <<>> => \A i \in 1 .. n : lines'[i] = <<>>
      <4>1. \A i \in 1 .. n : i = n \/ i \in 1 .. Len(lines)
        BY <1>1 DEF n
      <4> QED BY <1>1, <1>2, <1>4, <1>8, <4>1 DEF NewestLine
    <3>3. hist # <<>> /\ t = hist[1] => \E m \in 1 .. n : lines'[m] = hist[1] /\ \A k \in m + 1 .. n : lines'[k] = <<>>
      BY <1>1, <1>7
    <3>4. hist # <<>> /\ t = <<>> => \E m \in 1 .. n : lines'[m] = hist[1] /\ \A k \in m + 1 .. n : lines'[k] = <<>>
      <4> SUFFICES ASSUME hist # <<>>, t = <<>>
                   PROVE  \E m \in 1 .. n : lines'[m] = hist[1] /\ \A k \in m + 1 .. n : lines'[k] = <<>>
        OBVIOUS
      <4>1. PICK m \in 1 .. Len(lines) : lines[m] = hist[1] /\ \A k \in m + 1 .. Len(lines) : lines[k] = <<>>
        BY <1>2, <1>4 DEF NewestLine
      <4>2. m \in 1 .. n /\ \A k \in m + 1 .. Len(lines) : k \in 1 .. Len(lines)
        BY <1>1 DEF n
      <4>3. lines'[m] = hist[1]
        BY <1>1, <4>1
      <4>4. ASSUME NEW k \in m + 1 .. n PROVE lines'[k] = <<>>
        <5>1. CASE k = n
          BY <1>1, <5>1
        <5>2. CASE k \in m + 1 .. Len(lines)
          BY <1>1, <4>1, <4>2, <5>2
        <5> QED BY <1>5, <5>1, <5>2
      <4> QED BY <4>2, <4>3, <4>4
    <3> QED BY <1>1, <1>2, <1>4, <1>8, <2>1, <3>2, <3>3, <3>4 DEF NewestLine
  <2>3. Counted'
    <3>1. \A i \in Fresh : lines'[i] = lines[i]
      BY <1>1
    <3> QED BY <1>4, <2>1, <3>1 DEF Counted
  <2> QED BY <1>3, <2>1, <2>2, <2>3
<1>9. CASE t # <<>> /\ ~(hist # <<>> /\ t = hist[1])
  <2>1. /\ hist' \in Seq(Seq(Texts))
        /\ Len(hist') = IF Len(hist) < Depth THEN Len(hist) + 1 ELSE Depth
        /\ hist'[1] = t
        /\ \A k \in 2 .. Len(hist') : k - 1 \in 1 .. Len(hist) /\ hist'[k] = hist[k - 1]
    BY <1>9, PushedIs
  <2>2. Fresh' = Fresh \cup {n}
    BY <1>1, <1>9
  <2>3. Len(hist') \in Nat \ {0} /\ Len(hist') <= Depth /\ \A k \in 1 .. Len(hist') : k = 1 \/ k \in 2 .. Len(hist')
    BY <1>3, <2>1
  <2>4. NewestLine'
    <3>1. \A k \in 1 .. Len(hist') : hist'[k] # <<>>
      BY <1>4, <1>9, <2>1, <2>3 DEF NewestLine
    <3>2. hist' # <<>>
      BY <2>3
    <3> QED BY <1>1, <1>2, <1>7, <2>1, <3>1, <3>2 DEF NewestLine
  <2>5. Cardinality(Fresh') = Cardinality(Fresh) + 1
    BY <1>6, <1>7, <2>2, FS_AddElement
  <2>6. Len(hist') = IF Cardinality(Fresh') < Depth THEN Cardinality(Fresh') ELSE Depth
    BY <1>3, <1>4, <1>6, <2>1, <2>5 DEF Counted
  <2>7. ASSUME NEW k \in 1 .. Len(hist')
        PROVE  \E i \in Fresh' : Cardinality({j \in Fresh' : j > i}) = k - 1 /\ hist'[k] = lines'[i]
    <3>1. CASE k = 1
      <4>1. {j \in Fresh' : j > n} = {}
        <5>1. \A j \in Fresh : ~(j > n)
          BY <1>1 DEF n
        <5>2. ~(n > n)
          BY <1>1 DEF n
        <5> QED BY <2>2, <5>1, <5>2
      <4>2. Cardinality({j \in Fresh' : j > n}) = 0
        BY <4>1, FS_EmptySet
      <4>3. n \in Fresh' /\ k - 1 = 0 /\ hist'[k] = lines'[n]
        BY <1>1, <2>1, <2>2, <3>1
      <4> QED BY <4>2, <4>3
    <3>2. CASE k # 1
      <4>1. k \in 2 .. Len(hist') /\ k - 1 \in 1 .. Len(hist) /\ hist'[k] = hist[k - 1]
        BY <2>1, <2>3, <3>2
      <4>2. PICK i \in Fresh : Cardinality({j \in Fresh : j > i}) = k - 1 - 1 /\ hist[k - 1] = lines[i]
        BY <1>4, <4>1 DEF Counted
      <4> DEFINE G == {j \in Fresh : j > i}
      <4>3. n > i /\ {j \in Fresh' : j > i} = G \cup {n} /\ n \notin G
        <5>1. n > i
          BY <1>1 DEF n
        <5> QED BY <1>7, <2>2, <5>1
      <4>4. IsFiniteSet(G)
        BY <1>6, FS_Subset
      <4>5. Cardinality(G \cup {n}) = Cardinality(G) + 1
        BY <4>3, <4>4, FS_AddElement
      <4>6. Cardinality({j \in Fresh' : j > i}) = k - 1
        <5>1. Cardinality(G) = k - 1 - 1 /\ k \in Int
          BY <4>2, <2>3
        <5> HIDE DEF G
        <5>2. Cardinality({j \in Fresh' : j > i}) = Cardinality(G) + 1
          BY <4>3, <4>5, Zenon
        <5> QED BY <5>1, <5>2
      <4>7. lines'[i] = lines[i]
        BY <1>1
      <4> QED BY <2>2, <4>1, <4>2, <4>6, <4>7
    <3> QED BY <3>1, <3>2
  <2> QED BY <2>1, <2>3, <2>4, <2>6, <2>7 DEF Counted
<1> QED BY <1>8, <1>9

LEMMA EndLineKeeps ==
  ASSUME CliInv, NEW s \in Seq(Texts), EndLine(s), rest' = <<>>, ended < MaxEnded
  PROVE  CliInv'
<1> USE CliAssumption
<1>1. /\ pStr' = <<>> /\ escString' = FALSE /\ escPos' = 0 /\ escParam' \in {"A", "B", "3"}
      /\ noMod' = TRUE /\ histIdx' = -1 /\ overrun' = FALSE /\ ended' = ended + 1
      /\ arrow' = FALSE /\ before' = <<>> /\ edited' = <<>> /\ plain' = TRUE /\ erased' = FALSE
  BY DEF EndLine, NewLine
<1>2. /\ hist' \in Seq(Seq(Texts)) /\ Len(hist') <= Depth /\ lines' \in Seq(Seq(Texts))
      /\ NewestLine' /\ Counted'
  <2>1. CASE UNCHANGED <<hist, lines>>
    <3>1. Fresh' = Fresh
      BY <2>1 DEF Fresh
    <3> QED BY <2>1, <3>1 DEF CliInv, LineShape, LineTypeOK, NewestLine, HistoryIsRecent, Counted
  <2>2. CASE hist' = Pushed(Trimmed(s)) /\ lines' = Append(lines, Trimmed(s))
    BY <2>2, TrimmedType, StackKeeps, FreshGrows
  <2> QED BY <2>1, <2>2 DEF EndLine
<1>3. ended' \in 0 .. MaxEnded
  BY <1>1 DEF CliInv, LineShape, LineTypeOK
<1>4. pStr' \in Seq(Texts) /\ Len(pStr') = 0 /\ Len(hist') \in Nat
  BY <1>1, <1>2, LenProperties
<1>5. LineShape'
  <2>1. escParam' \in Texts \cup {"A", "B", "3", "[", "bs"} /\ escPos' \in 0 .. Full
    BY <1>1 DEF Full
  <2>2. escString' \in BOOLEAN /\ noMod' \in BOOLEAN /\ plain' \in BOOLEAN /\ arrow' \in BOOLEAN /\ erased' \in BOOLEAN /\ overrun' \in BOOLEAN
    BY <1>1, Zenon
  <2>3. histIdx' \in -1 .. (IF overrun' THEN Past ELSE Len(hist') - 1) /\ Len(pStr') < LineLen
    BY <1>1, <1>4
  <2> QED BY <1>2, <1>3, <1>4, <2>1, <2>3, <2>2, Zenon DEF LineShape, LineTypeOK
<1>6. HistoryIsRecent'
  BY <1>2, <1>5 DEF HistoryIsRecent, Counted, LineShape
<1> QED BY <1>1, <1>2, <1>5, <1>6 DEF CliInv, Place, Plainly, Marked, Recalling

LEMMA EnterKeeps ==
  ASSUME CliInv, Enter
  PROVE  CliInv'
<1>1. NextByte /\ ch = "enter" /\ EndLine(pStr) /\ pStr \in Seq(Texts)
  BY DEF Enter, CliInv, LineShape, LineTypeOK
<1>2. rest' = <<>> /\ ended < MaxEnded
  BY <1>1, ByteIs
<1> QED BY <1>1, <1>2, EndLineKeeps

LEMMA CharKeeps ==
  ASSUME CliInv, Char
  PROVE  CliInv'
<1> USE CliAssumption
<1>1. NextByte /\ ~escString /\ ch \notin {"ESC", "bs", "enter"} /\ pStr \in Seq(Texts)
  BY DEF Char, CliInv, LineShape, LineTypeOK
<1>2. ch \in Texts /\ rest' = <<>> /\ ended < MaxEnded
  BY <1>1, ByteIs DEF Ctl
<1>3. Append(pStr, ch) \in Seq(Texts) /\ Len(Append(pStr, ch)) \in Nat
  BY <1>1, <1>2, AppendProperties, LenProperties
<1>4. CASE Len(Append(pStr, ch)) >= LineLen
  <2>1. EndLine(Append(pStr, ch))
    BY <1>4 DEF Char
  <2> QED BY <1>2, <1>3, <2>1, EndLineKeeps
<1>5. CASE ~(Len(Append(pStr, ch)) >= LineLen)
  <2>1. /\ pStr' = Append(pStr, ch)
        /\ escString' = escString /\ escPos' = escPos /\ escParam' = escParam
        /\ noMod' = noMod /\ histIdx' = histIdx /\ overrun' = overrun /\ hist' = hist /\ lines' = lines /\ ended' = ended
        /\ arrow' = arrow /\ before' = before /\ edited' = edited /\ plain' = plain /\ erased' = erased
    BY <1>5 DEF Char, escape, browse, stack, pressed
  <2>2. pStr' \in Seq(Texts) /\ Len(pStr') < LineLen
    BY <1>3, <1>5, <2>1
  <2>3. LineShape'
    BY <2>1, <2>2 DEF CliInv, LineShape, LineTypeOK
  <2>4. NewestLine' /\ HistoryIsRecent'
    BY <2>1, <2>3, StackSame
  <2>5. Plainly'
    BY <1>1, <1>2, <2>1, InPlain, NotLetters DEF Plainly
  <2>6. Marked'
    <3>1. rest # <<"bs">>
      BY <1>1, OneByte DEF ch
    <3> QED BY <2>1, <3>1 DEF CliInv, Marked
  <2>7. Recalling'
    BY <1>1, <1>2, <2>1, InArrow DEF Recalling
  <2> QED BY <1>2, <2>3, <2>4, <2>5, <2>6, <2>7 DEF CliInv, Place
<1> QED BY <1>4, <1>5

-----------------------------------------------------------------------------
(* The end of an escape sequence. *)

\* The index of the line to recall; a line that is recalled is in the stack, and nothing
\* was erased before, unless noMod and histIdx were overwritten.
LEMMA Recalls ==
  ASSUME CliInv, EscLast, escParam \in {"A", "B"}, noMod
  PROVE  /\ ~overrun => ~erased
         /\ \A i \in {Older, Newer} :
              /\ i \in -1 .. (IF overrun THEN Past ELSE Len(hist) - 1)
              /\ i > -1 => Line(i) \subseteq Seq(Texts)
              /\ i > -1 /\ ~overrun => \A s \in Line(i) : \E k \in 1 .. Len(hist) : s = hist[k]
<1>1. /\ histIdx \in -1 .. (IF overrun THEN Past ELSE Len(hist) - 1) /\ Len(hist) \in Nat /\ Len(hist) <= Depth
      /\ hist \in Seq(Seq(Texts))
  BY LenProperties DEF CliInv, LineShape, LineTypeOK
<1>2. escString
  BY DEF EscLast
<1>3. ~overrun => ~erased
  BY <1>2 DEF CliInv, Marked
<1>4. Past \in Nat /\ Past > Len(hist) /\ LineLen \in Nat
  BY <1>1, CliAssumption DEF Past
<1>5. ASSUME NEW i \in {Older, Newer} PROVE i \in -1 .. (IF overrun THEN Past ELSE Len(hist) - 1)
  BY <1>1, <1>4 DEF Older, Newer
<1>6. ASSUME NEW i \in Nat
      PROVE  /\ Line(i) \subseteq Seq(Texts)
             /\ i < Len(hist) => \A s \in Line(i) : \E k \in 1 .. Len(hist) : s = hist[k]
  <2>1. CASE i < Len(hist)
    <3>1. i + 1 \in 1 .. Len(hist) /\ Line(i) = {hist[i + 1]}
      BY <1>1, <2>1 DEF Line
    <3>2. hist[i + 1] \in Seq(Texts)
      BY <1>1, <3>1, ElementOfSeq
    <3> QED BY <3>1, <3>2
  <2>2. CASE ~(i < Len(hist))
    <3>1. Line(i) = UNION {[1 .. n -> Texts] : n \in 0 .. LineLen}
      BY <2>2 DEF Line
    <3>2. ASSUME NEW n \in 0 .. LineLen PROVE [1 .. n -> Texts] \subseteq Seq(Texts)
      BY <1>4, SeqDef
    <3> QED BY <2>2, <3>1, <3>2
  <2> QED BY <2>1, <2>2
<1>7. ASSUME NEW i \in {Older, Newer}, i > -1
      PROVE  i \in Nat /\ (~overrun => i < Len(hist))
  BY <1>1, <1>4, <1>5, <1>7
<1> QED BY <1>3, <1>5, <1>6, <1>7

LEMMA EscLastKeeps ==
  ASSUME CliInv, EscLast
  PROVE  CliInv'
<1> USE CliAssumption
<1> DEFINE moves == escParam \in {"A", "B"} /\ noMod
           idx == IF ~moves THEN histIdx ELSE IF escParam = "A" THEN Older ELSE Newer
           Texted == IF moves /\ idx > -1 THEN Line(idx) ELSE {pStr}
<1>1. NextByte /\ escString /\ escPos >= 1 /\ ch \in {"A", "B", "~"}
  BY DEF EscLast, Ending
<1>2. /\ pStr \in Seq(Texts) /\ Len(pStr) < LineLen /\ Len(pStr) \in Nat
      /\ histIdx \in -1 .. (IF overrun THEN Past ELSE Len(hist) - 1) /\ escPos \in 0 .. Full
      /\ escParam \in Texts \cup {"A", "B", "3", "[", "bs"} /\ noMod \in BOOLEAN /\ overrun \in BOOLEAN
  BY LenProperties DEF CliInv, LineShape, LineTypeOK
<1>3. rest' = <<>> /\ ended < MaxEnded
  BY <1>1, ByteIs, NotLetters DEF Ctl
<1>4. idx \in -1 .. (IF overrun THEN Past ELSE Len(hist) - 1)
  BY <1>2, Recalls
<1>5. PICK s \in Texted :
        IF Len(s) >= LineLen THEN EndLine(s)
        ELSE /\ pStr' = s
             /\ IF ch = "~"
                THEN escString' = FALSE /\ histIdx' = idx /\ UNCHANGED <<escParam, noMod, overrun>>
                ELSE Store(FALSE, idx)
             /\ escPos' = IF escString' THEN escPos ELSE 0
             /\ UNCHANGED <<stack, pressed>>
  BY DEF EscLast
<1>6. s \in Seq(Texts) /\ Len(s) \in Nat
  <2>1. CASE moves /\ idx > -1
    <3>1. Line(idx) \subseteq Seq(Texts)
      BY <2>1, Recalls
    <3> QED BY <2>1, <3>1, LenProperties
  <2>2. CASE ~(moves /\ idx > -1)
    BY <1>2, <2>2
  <2> QED BY <2>1, <2>2
<1>7. s # pStr /\ ~overrun => ~erased /\ \E k \in 1 .. Len(hist) : s = hist[k]
  BY Recalls
<1>8. plain /\ escParam = "3" => s = pStr
  OBVIOUS
<1> HIDE DEF Texted, idx
<1>9. CASE Len(s) >= LineLen
  BY <1>3, <1>5, <1>6, <1>9, EndLineKeeps
<1>10. CASE ~(Len(s) >= LineLen)
  <2>1. /\ pStr' = s /\ escPos' = IF escString' THEN escPos ELSE 0
        /\ hist' = hist /\ lines' = lines /\ ended' = ended
        /\ arrow' = arrow /\ before' = before /\ edited' = edited /\ plain' = plain /\ erased' = erased
    BY <1>5, <1>10 DEF stack, pressed
  <2>2. /\ escParam' \in Texts \cup {"A", "B", "3", "[", "bs"} /\ escString' \in BOOLEAN /\ noMod' \in BOOLEAN
        /\ overrun' \in BOOLEAN /\ histIdx' \in -1 .. (IF overrun' THEN Past ELSE Len(hist) - 1)
        /\ (overrun => overrun') /\ (~overrun' => noMod' = noMod)
        /\ ch = "~" \/ escPos < Full => ~escString' /\ overrun' = overrun
    <3>1. CASE ch = "~"
      <4>1. escString' = FALSE /\ histIdx' = idx /\ escParam' = escParam /\ noMod' = noMod /\ overrun' = overrun
        BY <1>5, <1>10, <3>1
      <4> QED BY <1>2, <1>4, <4>1
    <3>2. CASE ch # "~"
      <4>1. Store(FALSE, idx) /\ ch \in Texts \cup {"A", "B", "3", "[", "bs"}
        BY <1>1, <1>5, <1>10, <3>2
      <4> QED BY <1>4, <3>2, <4>1, StoreKeeps
    <3> QED BY <3>1, <3>2
  <2>3. LineShape'
    <3>1. pStr' \in Seq(Texts) /\ Len(pStr') < LineLen /\ escPos' \in 0 .. Full
      BY <1>2, <1>6, <1>10, <2>1 DEF Full
    <3> QED BY <2>1, <2>2, <3>1 DEF CliInv, LineShape, LineTypeOK
  <2>4. NewestLine' /\ HistoryIsRecent'
    BY <2>1, <2>3, StackSame
  <2>5. plain => ch = "~" /\ escParam = "3" /\ edited = pStr
    BY <1>1, InPlain, NotLetters
  <2>6. Plainly'
    BY <1>3, <1>8, <2>1, <2>2, <2>5 DEF Plainly
  <2>7. Marked'
    BY <1>1, <2>1, <2>2, <2>5 DEF CliInv, Marked
  <2>8. Recalling'
    BY <1>1, <1>3, <1>7, <2>1, <2>2, InArrow DEF Recalling
  <2> QED BY <1>3, <2>3, <2>4, <2>6, <2>7, <2>8 DEF CliInv, Place
<1> QED BY <1>9, <1>10

-----------------------------------------------------------------------------
LEMMA CliStep == CliInv /\ [LineNext]_lineVars => CliInv'
<1> SUFFICES ASSUME CliInv, [LineNext]_lineVars PROVE CliInv'
  OBVIOUS
<1>1. CASE \E k \in DOMAIN Keys : Press(k)
  BY <1>1, PressKeeps
<1>2. CASE Byte
  BY <1>2, EscapeKeeps, CharKeeps, BackspaceKeeps, EnterKeeps, EscFirstKeeps, EscMoreKeeps, EscLastKeeps DEF Byte
<1>3. CASE UNCHANGED lineVars
  <2>1. /\ rest' = rest /\ pStr' = pStr /\ escString' = escString /\ escPos' = escPos /\ escParam' = escParam
        /\ noMod' = noMod /\ histIdx' = histIdx /\ overrun' = overrun /\ hist' = hist /\ lines' = lines /\ ended' = ended
        /\ arrow' = arrow /\ before' = before /\ edited' = edited /\ plain' = plain /\ erased' = erased
    BY <1>3 DEF lineVars, escape, browse, stack, pressed
  <2>2. LineShape' /\ Place' /\ Marked' /\ Recalling'
    BY <2>1 DEF CliInv, LineShape, LineTypeOK, Place, AtByte, AtArrow, AtDelete, Marked, Recalling
  <2>3. Plainly'
    <3>1. Chopped(pStr)' = Chopped(pStr)
      BY <2>1 DEF Chopped
    <3> QED BY <2>1, <3>1 DEF CliInv, Plainly, AtDelete
  <2> QED BY <2>1, <2>2, <2>3, StackSame DEF CliInv
<1> QED BY <1>1, <1>2, <1>3 DEF LineNext

\* For a stack of any depth: it holds the last lines that were given, newest first, a
\* line that was given several times in a row once (cli.c:267-293).
THEOREM StackIsRecent == LineSpec => []HistoryIsRecent
<1>1. CliInv => HistoryIsRecent
  BY DEF CliInv
<1> QED BY CliInitially, CliStep, <1>1, PTL DEF LineSpec

\* For any keys in any order: no byte of a delete key's sequence gets into the buffer,
\* and none of the letters gets lost to one (cli.c:332-406).
THEOREM BufferFollowsKeys == LineSpec => []BufferIsEdited
<1>1. CliInv => BufferIsEdited
  BY OneByte, DeleteBytes DEF CliInv, Plainly, AtDelete, Marked, BufferIsEdited
<1> QED BY CliInitially, CliStep, <1>1, PTL DEF LineSpec

\* An arrow key recalls a whole line of the stack or does nothing, also behind lone
\* escapes and half sequences, and nothing after an erasure, unless a sequence of more
\* parameters than escParam holds overwrote noMod or histIdx (cli.c:372, :399).
THEOREM ArrowsRecall == LineSpec => []ArrowRecalls
<1>1. CliInv => ArrowRecalls
  BY OneByte, ArrowBytes DEF CliInv, Recalling, AtArrow, ArrowRecalls
<1> QED BY CliInitially, CliStep, <1>1, PTL DEF LineSpec

-----------------------------------------------------------------------------
(* The table of commands. *)

RegPcs == {"idle", "acquire", "copy", "first", "next", "count", "search", "stuck",
           "release", "return", "back"}
CliPcs == {"idle", "copy", "first", "next", "lookup", "pad", "print"}
Pieces == AllWords \cup {Torn, "hint"}
Slots == [toks : Seq(Pieces), cmd : Commands, laid : BOOLEAN]

Shape ==
  /\ TypeOK
  /\ table \in Seq(Slots) /\ todo \in [Regs -> Seq(Commands)]
  /\ pc \in [Tasks -> RegPcs \cup CliPcs]
  /\ pc[Cli] \in CliPcs /\ \A p \in Regs : pc[p] \in RegPcs
  /\ text \in [Tasks -> Seq(Pieces)] /\ toks \in [Tasks -> Seq(Pieces)]
  /\ lineCpy \in Seq(Pieces) /\ cursor \in Nat
  /\ handle \in [Regs -> Int]

\* What is split is what the caller wants split.
TextIs ==
  /\ Splits(Cli) \/ pc[Cli] = "lookup" => text[Cli] \in Lines
  /\ \A p \in Regs :
       /\ pc[p] # "idle" => todo[p] # <<>>
       /\ Splits(p) \/ pc[p] = "count" => text[p] = Append(Head(todo[p]).toks, "hint")

\* Two that split at the same time are both known to.
Alone == \A p, q \in Tasks : p # q /\ Splits(p) /\ Splits(q) => p \in clash

\* A task that splits alone has its own text before it and the first of its words.
Halfway(p) ==
  /\ lineCpy = text[p] /\ cursor = Len(toks[p])
  /\ cursor \in 1 .. Len(text[p]) /\ cursor <= Wanted(p)
  /\ \A i \in 1 .. Len(toks[p]) : toks[p][i] = text[p][i]

OwnWords(p) ==
  /\ pc[p] = "copy" => writer = p /\ cursor = 0
  /\ pc[p] = "first" => lineCpy = text[p] /\ cursor = 0
  /\ pc[p] = "next" => Halfway(p)
  /\ pc[p] = "lookup" => toks[p] = text[p]
  /\ pc[p] = "count" => toks[p] = Head(todo[p]).toks

Tokens == \A p \in Tasks \ clash : OwnWords(p)

Held == {"copy", "first", "next", "count", "search", "stuck", "release"}
Locked == \A p \in Regs : pc[p] \in Held => mutex = p

\* The slot counted last is p's.
Newest(p) == table # <<>> /\ table[Len(table)].cmd = Head(todo[p])

Named ==
  \A p \in Regs :
    /\ pc[p] \in {"search", "stuck", "release"} => Newest(p)
    /\ pc[p] = "return" /\ p \notin overtaken => Newest(p)
    /\ pc[p] = "back" /\ p \notin overtaken =>
         handle[p] \in 1 .. Len(table) /\ table[handle[p]].cmd = Head(todo[p])

\* The limit holds when the slot is counted, though it was looked at without the
\* mutex: the start-up task has counted its last command when the PTP task starts.
Before == {"acquire", "copy", "first", "next", "count"}
Room ==
  /\ Len(table) <= MaxCmds
  /\ \A p \in Regs : pc[p] \in Before => Len(table) < MaxCmds

Started == up \/ \E i \in DOMAIN table : table[i].cmd = Starter

StarterLast ==
  /\ \A i \in 1 .. Len(todo[Startup]) - 1 : todo[Startup][i] # Starter
  /\ pc[Ptp] # "idle" => up
  /\ Started =>
       /\ pc[Startup] \notin Before /\ Len(todo[Startup]) <= 1
       /\ pc[Startup] = "idle" => todo[Startup] = <<>>

\* What is not laid out is known to be missed, or will be when the flag says so.
LaidBut(S) == \A i \in DOMAIN table : table[i].laid \/ table[i].cmd \in S
Laid ==
  /\ pc[Cli] \in {"pad", "print"} => LaidBut(missed)
  /\ tidy => LaidBut(missed \cup Unflagged)

TableInv ==
  Shape /\ TextIs /\ Alone /\ Tokens /\ Locked /\ Named /\ Room /\ StarterLast /\ Laid

-----------------------------------------------------------------------------
(* The constants, and sequences. *)

LEMMA TheTasks ==
  /\ Startup # Ptp /\ Startup # Cli /\ Ptp # Cli /\ Nobody \notin Tasks
  /\ Cli \notin Regs /\ Cli \in Tasks /\ Regs \subseteq Tasks
  /\ Startup \in Regs /\ Ptp \in Regs
BY CliTableAssumption DEF Tasks, Regs

\* The words of a command are a text that is not empty.
LEMMA CmdWords ==
  ASSUME NEW c \in Commands
  PROVE  /\ c.toks \in Seq(Pieces) /\ c.toks # <<>> /\ Len(c.toks) \in Nat \ {0}
         /\ Append(c.toks, "hint") \in Seq(Pieces) /\ Append(c.toks, "hint") # <<>>
         /\ Len(Append(c.toks, "hint")) = Len(c.toks) + 1
<1>1. c.toks \in Seq(AllWords) /\ c.toks # <<>>
  BY CliTableAssumption
<1>2. AllWords \subseteq Pieces /\ "hint" \in Pieces
  BY DEF Pieces
<1>3. c.toks \in Seq(Pieces)
  BY <1>1, <1>2, SeqMonotonic
<1>4. Len(c.toks) \in Nat \ {0}
  BY <1>1, EmptySeq
<1> QED BY <1>1, <1>2, <1>3, <1>4, AppendProperties

LEMMA LineWords ==
  ASSUME NEW l \in Lines
  PROVE  l \in Seq(Pieces) /\ l # <<>> /\ Len(l) \in Nat \ {0}
<1>1. l \in Seq(AllWords) /\ l # <<>>
  BY CliTableAssumption
<1>2. AllWords \subseteq Pieces
  BY DEF Pieces
<1> QED BY <1>1, <1>2, SeqMonotonic, EmptySeq

LEMMA HeadTodo ==
  ASSUME NEW s \in Seq(Commands), s # <<>>
  PROVE  /\ Head(s) \in Commands /\ Head(s) = s[1]
         /\ Tail(s) \in Seq(Commands) /\ Len(s) \in Nat \ {0}
         /\ Len(Tail(s)) = Len(s) - 1
         /\ \A i \in 1 .. Len(s) - 1 : Tail(s)[i] = s[i + 1]
<1>1. Len(s) \in Nat \ {0}
  BY EmptySeq
<1> QED BY <1>1, HeadTailProperties

LEMMA PrefixIs ==
  ASSUME NEW S, NEW s \in Seq(S), NEW t \in Seq(S)
  PROVE  IsPrefix(s, t) <=>
           Len(s) <= Len(t) /\ \A i \in 1 .. Len(s) : s[i] = t[i]
<1>0. Len(s) \in Nat /\ Len(t) \in Nat
  BY LenProperties
<1>1. SUFFICES ASSUME Len(s) <= Len(t)
               PROVE  SubSeq(s, 1, Len(s)) = SubSeq(t, 1, Len(s)) <=>
                        \A i \in 1 .. Len(s) : s[i] = t[i]
  BY DEF IsPrefix
<1> DEFINE n == Len(s)
<1>2. /\ \A i \in 1 .. n : s[i] \in S
      /\ \A i \in 1 .. n : t[i] \in S
  <2>1. \A i \in 1 .. n : i \in 1 .. Len(t)
    BY <1>0, <1>1
  <2> QED BY <2>1, ElementOfSeq
<1>3. n \in Nat
  BY <1>0
<1> HIDE DEF n
<1>4. /\ SubSeq(s, 1, n) \in Seq(S) /\ Len(SubSeq(s, 1, n)) = n
      /\ \A i \in 1 .. n : SubSeq(s, 1, n)[i] = s[i]
  BY <1>2, <1>3, SubSeqProperties
<1>5. /\ SubSeq(t, 1, n) \in Seq(S) /\ Len(SubSeq(t, 1, n)) = n
      /\ \A i \in 1 .. n : SubSeq(t, 1, n)[i] = t[i]
  BY <1>2, <1>3, SubSeqProperties
<1>6. (\A i \in 1 .. n : s[i] = t[i]) => SubSeq(s, 1, n) = SubSeq(t, 1, n)
  BY <1>4, <1>5, SeqEqual
<1>7. SubSeq(s, 1, n) = SubSeq(t, 1, n) => \A i \in 1 .. n : s[i] = t[i]
  <2> HAVE SubSeq(s, 1, n) = SubSeq(t, 1, n)
  <2> TAKE i \in 1 .. n
  <2> QED BY <1>4, <1>5
<1> QED BY <1>6, <1>7 DEF n

-----------------------------------------------------------------------------
(* The inductive invariant. *)

LEMMA TableInitially == Init => TableInv
<1> SUFFICES ASSUME Init PROVE TableInv
  OBVIOUS
<1> USE TheTasks
<1>1. todo \in [Regs -> Seq(Commands)]
  BY CliTableAssumption DEF Init
<1>2. Shape
  <2>1. table \in Seq(Slots) /\ lineCpy \in Seq(Pieces) /\ <<>> \in Seq(Pieces)
    BY DEF Init, Mixed
  <2>2. TypeOK
    <3>1. Len(table) = 0 /\ DOMAIN table = {}
      BY EmptySeq DEF Init
    <3>2. \A p \in Regs : handle[p] \in -1 .. Len(table)
      BY <3>1 DEF Init
    <3> QED BY <3>1, <3>2 DEF Init, TypeOK
  <2> QED BY <1>1, <2>1, <2>2 DEF Init, Shape, RegPcs, CliPcs, Tasks
<1>3. TextIs /\ Alone /\ Tokens
  BY DEF Init, TextIs, Alone, Tokens, OwnWords, Splits, Tasks
<1>4. Locked /\ Named
  BY DEF Init, Locked, Named, Held, Tasks
<1>5. Room
  BY CliTableAssumption DEF Init, Room, Before, Tasks
<1>6. StarterLast
  <2>1. todo[Startup] \in Programs[Startup]
    BY DEF Init
  <2>2. \A i \in 1 .. Len(todo[Startup]) - 1 : todo[Startup][i] # Starter
    BY <2>1, CliTableAssumption
  <2> QED BY <2>2 DEF Init, StarterLast, Started, Tasks
<1>7. Laid
  BY DEF Init, Laid
<1> QED BY <1>2, <1>3, <1>4, <1>5, <1>6, <1>7 DEF TableInv

\* A step of p leaves what the other tasks are about.
OthersSame(p) ==
  \A q \in Tasks \ {p} :
    pc'[q] = pc[q] /\ text'[q] = text[q] /\ toks'[q] = toks[q] /\ (q \in Regs => todo'[q] = todo[q])

LEMMA AloneKeeps ==
  ASSUME Alone, NEW p \in Tasks, OthersSame(p), clash \ {p} \subseteq clash',
         \/ ~Splits(p)'
         \/ Splits(p) /\ clash \subseteq clash'
         \/ \A q \in Tasks \ {p} : Splits(q) => p \in clash' /\ q \in clash'
  PROVE  Alone'
BY DEF Alone, Splits, OthersSame

LEMMA OthersKeep ==
  ASSUME Shape, Alone, Tokens, NEW p \in Tasks, OthersSame(p), clash \ {p} \subseteq clash',
         \/ UNCHANGED <<lineCpy, writer, cursor>>
         \/ Splits(p)
         \/ \A q \in Tasks \ {p} : Splits(q) => q \in clash',
         p \in clash' \/ OwnWords(p)'
  PROVE  Tokens'
<1> USE TheTasks
<1> SUFFICES ASSUME NEW q \in Tasks \ {p}, q \notin clash' PROVE OwnWords(q)'
  BY DEF Tokens
<1>1. q \notin clash /\ OwnWords(q)
  BY DEF Tokens
<1>2. /\ pc'[q] = pc[q] /\ text'[q] = text[q] /\ toks'[q] = toks[q]
      /\ q \in Regs => todo'[q] = todo[q]
  BY DEF OthersSame
<1>3. CASE Splits(q)
  <2>1. UNCHANGED <<lineCpy, writer, cursor>>
    BY <1>1, <1>3 DEF Alone
  <2>2. Wanted(q)' = Wanted(q)
    BY <1>2 DEF Wanted, Tasks
  <2> QED BY <1>1, <1>2, <1>3, <2>1, <2>2 DEF OwnWords, Halfway, Splits
<1>4. CASE ~Splits(q)
  <2>1. CASE q \in Regs
    BY <1>1, <1>2, <1>4, <2>1 DEF OwnWords, Splits
  <2>2. CASE q = Cli
    BY <1>1, <1>2, <1>4, <2>2 DEF OwnWords, Splits, Shape, CliPcs
  <2> QED BY <2>1, <2>2 DEF Tasks
<1> QED BY <1>3, <1>4

\* A step from one piece of a split to the next.
LEMMA SplitKeeps ==
  ASSUME TableInv, NEW p \in Tasks, Splits(p),
         NEW w \in {"copy", "first", "next"}, pc' = [pc EXCEPT ![p] = w],
         UNCHANGED <<table, up, missed, text, clash, tidy, mutex, todo, handle, overtaken>>,
         NEW u \in Seq(Pieces), toks' = [toks EXCEPT ![p] = u],
         lineCpy' \in Seq(Pieces), cursor' \in Nat,
         p \in clash \/ OwnWords(p)'
  PROVE  TableInv'
<1> USE TheTasks
<1> USE DEF TableInv
<1>1. pc \in [Tasks -> RegPcs \cup CliPcs] /\ toks \in [Tasks -> Seq(Pieces)]
  BY DEF Shape
<1>2. /\ pc'[p] = w /\ pc' \in [Tasks -> RegPcs \cup CliPcs]
      /\ \A q \in Tasks \ {p} : pc'[q] = pc[q] /\ toks'[q] = toks[q]
      /\ toks' \in [Tasks -> Seq(Pieces)]
  BY <1>1 DEF RegPcs
<1>3. Splits(p) /\ \A q \in Tasks : Splits(q)' <=> Splits(q)
  BY <1>2 DEF Splits
<1>4. Shape'
  <2>1. TypeOK'
    BY DEF Shape, TypeOK
  <2>2. pc'[Cli] \in CliPcs /\ \A q \in Regs : pc'[q] \in RegPcs
    BY <1>2 DEF Shape, RegPcs, CliPcs
  <2> QED BY <1>2, <2>1, <2>2 DEF Shape
<1>5. TextIs'
  BY <1>2, <1>3 DEF TextIs, Splits
<1>6. OthersSame(p)
  BY <1>2 DEF OthersSame
<1>7. Alone'
  BY <1>3, <1>6, AloneKeeps
<1>8. Tokens'
  BY <1>3, <1>6, OthersKeep
<1>9. Locked' /\ Named'
  BY <1>2 DEF Locked, Named, Held, Newest, Splits
<1>10. Room' /\ StarterLast'
  BY <1>2 DEF Room, Before, StarterLast, Started, Splits
<1>11. Laid'
  <2>1. Unflagged' = Unflagged
    BY <1>2 DEF Unflagged, Splits
  <2> QED BY <1>2, <2>1 DEF Laid, LaidBut, Splits
<1> QED BY <1>4, <1>5, <1>7, <1>8, <1>9, <1>10, <1>11

LEMMA EndCopyKeeps ==
  ASSUME TableInv, NEW p \in Tasks, EndCopy(p)
  PROVE  TableInv'
<1> DEFINE u == toks[p]
<1>1. /\ Splits(p) /\ pc[p] = "copy" /\ pc' = [pc EXCEPT ![p] = "first"] /\ cursor' = 0
      /\ lineCpy' = (IF writer = p THEN text[p] ELSE Mixed)
      /\ UNCHANGED <<table, up, missed, text, toks, clash, tidy, mutex, todo, handle, overtaken>>
  BY DEF EndCopy, Go, regVars, Splits
<1>2. u \in Seq(Pieces) /\ toks' = [toks EXCEPT ![p] = u]
  BY <1>1 DEF TableInv, Shape
<1>3. lineCpy' \in Seq(Pieces) /\ cursor' \in Nat
  BY <1>1 DEF TableInv, Shape, Mixed
<1>4. p \in clash \/ OwnWords(p)'
  BY <1>1 DEF TableInv, Shape, Tokens, OwnWords
<1> HIDE DEF u
<1> QED BY <1>1, <1>2, <1>3, <1>4, SplitKeeps

\* What is left to split of the text of a task that splits alone.
LEMMA WholeText ==
  ASSUME TableInv, NEW p \in Tasks, Splits(p)
  PROVE  /\ text[p] \in Seq(Pieces) /\ text[p] # <<>> /\ Len(text[p]) \in Nat \ {0}
         /\ Wanted(p) \in Nat \ {0}
         /\ p = Cli => Wanted(p) = Len(text[p]) + 1
         /\ p \in Regs => /\ Head(todo[p]) \in Commands
                          /\ text[p] = Append(Head(todo[p]).toks, "hint")
                          /\ Wanted(p) + 1 = Len(text[p])
                          /\ Wanted(p) = Len(Head(todo[p]).toks)
<1> USE TheTasks
<1>1. CASE p = Cli
  <2>1. text[p] \in Lines
    BY <1>1 DEF TableInv, TextIs
  <2> QED BY <1>1, <2>1, LineWords DEF Wanted
<1>2. CASE p \in Regs
  <2>1. todo[p] \in Seq(Commands) /\ todo[p] # <<>> /\ text[p] = Append(Head(todo[p]).toks, "hint")
    BY <1>2 DEF TableInv, TextIs, Shape, Splits
  <2>2. Head(todo[p]) \in Commands
    BY <2>1, HeadTodo
  <2> QED BY <1>2, <2>1, <2>2, CmdWords DEF Wanted
<1> QED BY <1>1, <1>2 DEF Tasks

LEMMA FirstKeeps ==
  ASSUME TableInv, NEW p \in Tasks, First(p)
  PROVE  TableInv'
<1> DEFINE u == IF lineCpy = Mixed THEN <<Torn>> ELSE <<Head(lineCpy)>>
<1>1. /\ Splits(p) /\ pc[p] = "first" /\ pc' = [pc EXCEPT ![p] = "next"]
      /\ toks' = [toks EXCEPT ![p] = u]
      /\ UNCHANGED <<table, up, missed, text, lineCpy, clash, tidy, mutex, todo, handle, overtaken>>
  BY DEF First, Go, regVars, Splits
<1>2. /\ lineCpy # Mixed => cursor' = IF cursor = 0 THEN 1 ELSE Len(lineCpy)
      /\ lineCpy = Mixed => cursor' = cursor
  BY DEF First
<1>3. lineCpy \in Seq(Pieces) /\ cursor \in Nat /\ Len(lineCpy) \in Nat
  BY LenProperties DEF TableInv, Shape
<1>4. u \in Seq(Pieces)
  <2>1. lineCpy # <<>> => Head(lineCpy) \in Pieces
    BY <1>3, HeadTailProperties
  <2>2. \A x \in Pieces : <<x>> \in Seq(Pieces)
    OBVIOUS
  <2>3. Torn \in Pieces
    BY DEF Pieces
  <2> QED BY <2>1, <2>2, <2>3 DEF Mixed
<1>5. lineCpy' \in Seq(Pieces) /\ cursor' \in Nat
  BY <1>1, <1>2, <1>3
<1>6. ASSUME p \notin clash PROVE OwnWords(p)'
  <2>1. lineCpy = text[p] /\ cursor = 0
    BY <1>1, <1>6 DEF TableInv, Tokens, OwnWords
  <2>2. text[p] # <<>> /\ Len(text[p]) \in Nat \ {0} /\ Wanted(p) \in Nat \ {0}
    BY <1>1, WholeText
  <2>3. cursor' = 1 /\ u = <<Head(text[p])>> /\ toks'[p] = <<Head(text[p])>> /\ pc'[p] = "next"
    BY <1>1, <1>2, <2>1, <2>2 DEF Mixed, TableInv, Shape
  <2>4. Len(toks'[p]) = 1 /\ toks'[p][1] = text[p][1]
    BY <1>1, <2>2, <2>3, WholeText
  <2>5. Wanted(p)' = Wanted(p)
    BY <1>1 DEF Wanted
  <2>6. Halfway(p)'
    BY <1>1, <2>1, <2>2, <2>3, <2>4, <2>5 DEF Halfway
  <2> QED BY <2>3, <2>6 DEF OwnWords
<1> HIDE DEF u
<1> QED BY <1>1, <1>4, <1>5, <1>6, SplitKeeps

LEMMA NextWordKeeps ==
  ASSUME TableInv, NEW p \in Tasks, NextWord(p, Wanted(p))
  PROVE  TableInv'
<1>1. /\ Splits(p) /\ pc[p] = "next" /\ pc' = [pc EXCEPT ![p] = "next"]
      /\ Len(toks[p]) < Wanted(p)
      /\ UNCHANGED <<table, up, missed, text, lineCpy, clash, tidy, mutex, todo, handle, overtaken>>
  BY DEF NextWord, regVars, Splits, TableInv, Shape
<1>2. /\ lineCpy \in Seq(Pieces) /\ cursor \in Nat /\ Len(lineCpy) \in Nat
      /\ toks[p] \in Seq(Pieces) /\ Len(toks[p]) \in Nat
  BY LenProperties DEF TableInv, Shape
<1>3. PICK x \in Pieces :
        /\ toks' = [toks EXCEPT ![p] = Append(toks[p], x)]
        /\ \/ cursor # 0 /\ cursor < Len(lineCpy) /\ x = lineCpy[cursor + 1] /\ cursor' = cursor + 1
           \/ cursor = 0 /\ cursor' = 0
  <2>1. cursor < Len(lineCpy) => lineCpy[cursor + 1] \in Pieces
    <3>1. cursor < Len(lineCpy) => cursor + 1 \in 1 .. Len(lineCpy)
      BY <1>2
    <3> QED BY <1>2, <3>1, ElementOfSeq
  <2>2. Torn \in Pieces
    BY DEF Pieces
  <2> QED BY <2>1, <2>2 DEF NextWord
<1> DEFINE u == Append(toks[p], x)
<1>4. /\ u \in Seq(Pieces) /\ Len(u) = Len(toks[p]) + 1 /\ u[Len(toks[p]) + 1] = x
      /\ \A i \in 1 .. Len(toks[p]) : u[i] = toks[p][i]
  BY <1>2, <1>3, AppendProperties
<1>5. lineCpy' \in Seq(Pieces) /\ cursor' \in Nat /\ toks' = [toks EXCEPT ![p] = u] /\ toks'[p] = u
  BY <1>1, <1>2, <1>3 DEF TableInv, Shape
<1> HIDE DEF u
<1>6. ASSUME p \notin clash PROVE OwnWords(p)'
  <2>1. Halfway(p)
    BY <1>1, <1>6 DEF TableInv, Tokens, OwnWords
  <2>2. /\ Len(text[p]) \in Nat /\ Wanted(p) \in Nat
        /\ Wanted(p)' = Wanted(p)
    BY <1>1, WholeText DEF Wanted
  <2>3. /\ cursor = Len(toks[p]) /\ cursor # 0 /\ lineCpy = text[p]
        /\ \A i \in 1 .. Len(toks[p]) : toks[p][i] = text[p][i]
    BY <2>1, <2>2 DEF Halfway
  <2>4. cursor' = cursor + 1 /\ x = text[p][cursor + 1] /\ cursor < Len(text[p])
    BY <1>3, <2>3
  <2>5. cursor' = Len(u) /\ cursor' \in 1 .. Len(text[p]) /\ cursor' <= Wanted(p)
    BY <1>1, <1>2, <1>4, <2>2, <2>3, <2>4
  <2>6. \A i \in 1 .. Len(u) : u[i] = text[p][i]
    <3> TAKE i \in 1 .. Len(u)
    <3>1. i \in 1 .. Len(toks[p]) \/ i = Len(toks[p]) + 1
      BY <1>2, <1>4
    <3> QED BY <1>4, <2>3, <2>4, <3>1
  <2>7. Halfway(p)'
    BY <1>1, <1>5, <2>2, <2>3, <2>5, <2>6 DEF Halfway
  <2> QED BY <1>1, <2>7 DEF OwnWords
<1> QED BY <1>1, <1>4, <1>5, <1>6, SplitKeeps

LEMMA LastWordKeeps ==
  ASSUME TableInv, NEW p \in Tasks, LastWord(p, Wanted(p))
  PROVE  TableInv'
<1> USE TheTasks
<1> USE DEF TableInv
<1> DEFINE w == IF p = Cli THEN "lookup" ELSE "count"
<1>1. /\ Splits(p) /\ pc[p] = "next" /\ pc' = [pc EXCEPT ![p] = w]
      /\ Len(toks[p]) = Wanted(p) \/ cursor \in {0, Len(lineCpy)}
      /\ UNCHANGED <<table, up, missed, text, toks, lineCpy, writer, cursor, clash, tidy, mutex,
                     todo, handle, overtaken>>
  BY DEF LastWord, Go, tokVars, regVars, Splits
<1>2. /\ pc'[p] = w /\ pc' \in [Tasks -> RegPcs \cup CliPcs]
      /\ \A q \in Tasks \ {p} : pc'[q] = pc[q]
  BY <1>1 DEF Shape, RegPcs, CliPcs
<1>3. /\ p = Cli => w = "lookup"
      /\ p \in Regs => w = "count"
      /\ p = Cli \/ p \in Regs
  BY DEF Tasks
<1> HIDE DEF w
<1>4. Shape'
  <2>1. TypeOK'
    BY <1>1 DEF Shape, TypeOK
  <2>2. pc'[Cli] \in CliPcs /\ \A q \in Regs : pc'[q] \in RegPcs
    BY <1>2, <1>3 DEF Shape, RegPcs, CliPcs
  <2> QED BY <1>1, <1>2, <2>1, <2>2 DEF Shape
<1>5. TextIs'
  <2>1. ~Splits(p)' /\ \A q \in Tasks \ {p} : Splits(q)' <=> Splits(q)
    BY <1>2, <1>3 DEF Splits
  <2>2. (Splits(Cli) \/ pc[Cli] = "lookup")' => text'[Cli] \in Lines
    BY <1>1, <1>2, <2>1 DEF TextIs
  <2>3. ASSUME NEW q \in Regs
        PROVE  /\ pc'[q] # "idle" => todo'[q] # <<>>
               /\ Splits(q)' \/ pc'[q] = "count" => text'[q] = Append(Head(todo'[q]).toks, "hint")
    BY <1>1, <1>2, <2>1 DEF TextIs
  <2> QED BY <2>2, <2>3 DEF TextIs
<1>6. OthersSame(p)
  BY <1>1, <1>2 DEF OthersSame
<1>7. Alone'
  BY <1>1, <1>2, <1>3, <1>6, AloneKeeps DEF Splits
<1>8. ASSUME p \notin clash PROVE OwnWords(p)'
  <2>1. Halfway(p)
    BY <1>1, <1>8 DEF Tokens, OwnWords
  <2>2. /\ text[p] \in Seq(Pieces) /\ toks[p] \in Seq(Pieces)
        /\ Len(text[p]) \in Nat /\ Wanted(p) \in Nat /\ Len(toks[p]) \in Nat
    BY <1>1, WholeText, LenProperties DEF Shape
  <2>3. CASE p = Cli
    <3>1. Len(toks[p]) = Len(text[p])
      BY <1>1, <2>1, <2>2, <2>3, WholeText DEF Halfway
    <3>2. toks[p] = text[p]
      BY <2>1, <2>2, <3>1, SeqEqual DEF Halfway
    <3> QED BY <1>1, <1>2, <1>3, <2>3, <3>2 DEF OwnWords
  <2>4. CASE p \in Regs
    <3> DEFINE t == Head(todo[p]).toks
    <3>1. /\ Head(todo[p]) \in Commands /\ Wanted(p) = Len(t) /\ text[p] = Append(t, "hint")
          /\ Wanted(p) + 1 = Len(text[p])
      BY <1>1, <2>4, WholeText
    <3>2. t \in Seq(Pieces) /\ "hint" \in Pieces
      BY <3>1, CmdWords DEF Pieces
    <3> HIDE DEF t
    <3>3. \A i \in 1 .. Len(t) : text[p][i] = t[i]
      BY <3>1, <3>2, AppendProperties
    <3>4. Len(toks[p]) = Len(t)
      BY <1>1, <2>1, <2>2, <3>1 DEF Halfway
    <3>5. toks[p] = t
      BY <2>1, <2>2, <3>2, <3>3, <3>4, SeqEqual DEF Halfway
    <3> QED BY <1>1, <1>2, <1>3, <2>4, <3>5 DEF OwnWords, t
  <2> QED BY <1>3, <2>3, <2>4
<1>9. Tokens'
  BY <1>1, <1>6, <1>8, OthersKeep
<1>10. Locked' /\ Named'
  BY <1>1, <1>2, <1>3 DEF Locked, Named, Held, Newest
<1>11. Room' /\ StarterLast'
  BY <1>1, <1>2, <1>3 DEF Room, Before, StarterLast, Started
<1>12. Laid'
  <2>1. Unflagged' = Unflagged
    BY <1>1, <1>2, <1>3 DEF Unflagged
  <2> QED BY <1>1, <1>2, <1>3, <2>1 DEF Laid, LaidBut
<1> QED BY <1>4, <1>5, <1>7, <1>9, <1>10, <1>11, <1>12

LEMMA CheckKeeps ==
  ASSUME TableInv, NEW p \in Regs, Check(p)
  PROVE  TableInv'
<1> USE TheTasks
<1> USE DEF TableInv
<1>1. /\ pc[p] = "idle" /\ todo[p] # <<>> /\ (p = Ptp => up)
      /\ UNCHANGED <<table, up, missed, text, toks, lineCpy, writer, cursor, clash, tidy, mutex,
                     handle, overtaken>>
  BY DEF Check, tokVars
<1>2. pc \in [Tasks -> RegPcs \cup CliPcs] /\ todo \in [Regs -> Seq(Commands)] /\ todo[p] \in Seq(Commands)
  BY DEF Shape
<1>3. /\ pc' \in [Tasks -> RegPcs \cup CliPcs] /\ \A q \in Tasks \ {p} : pc'[q] = pc[q]
      /\ \A q \in Regs \ {p} : todo'[q] = todo[q]
      /\ pc'[p] \in {"idle", "acquire"}
      /\ todo'[p] \in Seq(Commands) /\ todo' \in [Regs -> Seq(Commands)]
      /\ pc'[p] # "idle" => todo'[p] # <<>>
  <2>1. Tail(todo[p]) \in Seq(Commands)
    BY <1>1, <1>2, HeadTodo
  <2> QED BY <1>1, <1>2, <2>1 DEF Check, Go, RegPcs
<1>4. Shape'
  <2>1. TypeOK'
    BY <1>1 DEF Shape, TypeOK
  <2>2. pc'[Cli] \in CliPcs /\ \A q \in Regs : pc'[q] \in RegPcs
    BY <1>3 DEF Shape, RegPcs, CliPcs
  <2> QED BY <1>1, <1>3, <2>1, <2>2 DEF Shape
<1>5. ~Splits(p) /\ ~Splits(p)' /\ \A q \in Tasks : Splits(q)' <=> Splits(q)
  BY <1>1, <1>3 DEF Splits
<1>6. TextIs'
  <2>1. (Splits(Cli) \/ pc[Cli] = "lookup")' => text'[Cli] \in Lines
    BY <1>1, <1>3, <1>5 DEF TextIs
  <2>2. ASSUME NEW q \in Regs
        PROVE  /\ pc'[q] # "idle" => todo'[q] # <<>>
               /\ Splits(q)' \/ pc'[q] = "count" => text'[q] = Append(Head(todo'[q]).toks, "hint")
    BY <1>1, <1>3, <1>5 DEF TextIs
  <2> QED BY <2>1, <2>2 DEF TextIs
<1>7. OthersSame(p)
  BY <1>1, <1>3 DEF OthersSame
<1>8. Alone'
  BY <1>1, <1>5, <1>7, AloneKeeps
<1>9. Tokens'
  <2>1. OwnWords(p)'
    BY <1>3 DEF OwnWords
  <2> QED BY <1>1, <1>7, <2>1, OthersKeep
<1>10. Locked' /\ Named'
  <2>1. ASSUME NEW q \in Regs
        PROVE  /\ pc'[q] \in Held => pc[q] \in Held
               /\ pc'[q] \in {"search", "stuck", "release", "return", "back"} =>
                    pc'[q] = pc[q] /\ todo'[q] = todo[q]
    BY <1>1, <1>3 DEF Held
  <2>2. Locked'
    BY <1>1, <2>1 DEF Locked
  <2>3. Named'
    BY <1>1, <2>1 DEF Named, Newest
  <2> QED BY <2>2, <2>3
<1>11. Room'
  <2>1. Len(table) \in Nat /\ MaxCmds \in Nat
    BY LenProperties, CliTableAssumption DEF Shape
  <2>2. pc'[p] = "acquire" => Len(table) < MaxCmds
    BY <1>1, <1>2, <2>1 DEF Check, Go, Room
  <2>3. ASSUME NEW q \in Regs, pc'[q] \in Before PROVE Len(table) < MaxCmds
    BY <1>1, <1>3, <2>2, <2>3 DEF Room, Before
  <2> QED BY <1>1, <2>3 DEF Room
<1>12. StarterLast'
  <2>1. \A i \in 1 .. Len(todo'[Startup]) - 1 : todo'[Startup][i] # Starter
    <3>1. CASE todo'[p] = todo[p]
      BY <1>3, <3>1 DEF StarterLast
    <3>2. CASE todo'[p] = Tail(todo[p]) /\ p = Startup
      <4>1. /\ Len(todo[p]) \in Nat \ {0} /\ Len(Tail(todo[p])) = Len(todo[p]) - 1
            /\ \A i \in 1 .. Len(todo[p]) - 1 : Tail(todo[p])[i] = todo[p][i + 1]
        BY <1>1, <1>2, HeadTodo
      <4>2. todo'[Startup] = Tail(todo[p]) /\ Len(todo'[Startup]) = Len(todo[p]) - 1
        BY <3>2, <4>1
      <4>3. ASSUME NEW i \in 1 .. Len(todo'[Startup]) - 1
            PROVE  i \in 1 .. Len(todo[p]) - 1 /\ i + 1 \in 1 .. Len(todo[p]) - 1
        BY <4>1, <4>2
      <4>4. \A i \in 1 .. Len(todo'[Startup]) - 1 : todo'[Startup][i] = todo[p][i + 1]
        BY <4>1, <4>2, <4>3
      <4> QED BY <3>2, <4>3, <4>4 DEF StarterLast
    <3>3. CASE p # Startup
      BY <1>3, <3>3 DEF StarterLast
    <3> QED BY <1>2, <3>1, <3>2, <3>3 DEF Check
  <2>2. pc'[Ptp] # "idle" => up'
    BY <1>1, <1>3 DEF StarterLast
  <2>3. Started' <=> Started
    BY <1>1 DEF Started
  <2>4. Started => p # Startup
    BY <1>1 DEF StarterLast
  <2> QED BY <1>3, <2>1, <2>2, <2>3, <2>4 DEF StarterLast
<1>13. Laid'
  <2>1. Unflagged' = Unflagged
    BY <1>1, <1>3 DEF Unflagged
  <2> QED BY <1>1, <1>3, <2>1 DEF Laid, LaidBut
<1> QED BY <1>4, <1>6, <1>8, <1>9, <1>10, <1>11, <1>12, <1>13

\* When a split starts, it and those it overlaps with are known.
LEMMA StartKeeps ==
  ASSUME TableInv, NEW p \in Tasks, NEW t \in Seq(Pieces), StartCopy(p, t), OthersSame(p),
         pc'[p] = "copy"
  PROVE  Alone' /\ Tokens'
<1> USE TheTasks
<1>1. /\ writer' = p /\ cursor' = 0
      /\ clash' = IF Others(p) = {} THEN clash \ {p} ELSE clash \cup {p} \cup Others(p)
  BY DEF StartCopy
<1>2. \A q \in Tasks \ {p} : Splits(q) => p \in clash' /\ q \in clash'
  BY <1>1 DEF Others
<1>3. clash \ {p} \subseteq clash'
  BY <1>1
<1>4. OwnWords(p)'
  BY <1>1 DEF OwnWords
<1>5. Alone'
  BY <1>2, <1>3, AloneKeeps DEF TableInv
<1>6. Tokens'
  BY <1>2, <1>3, <1>4, OthersKeep DEF TableInv
<1> QED BY <1>5, <1>6

LEMMA AcquireKeeps ==
  ASSUME TableInv, NEW p \in Regs, Acquire(p)
  PROVE  TableInv'
<1> USE TheTasks
<1> USE DEF TableInv
<1> DEFINE t == Append(Head(todo[p]).toks, "hint")
<1>1. /\ pc[p] = "acquire" /\ mutex = Nobody /\ mutex' = p
      /\ StartCopy(p, t) /\ pc' = [pc EXCEPT ![p] = "copy"]
      /\ UNCHANGED <<table, up, missed, tidy, todo, handle, overtaken>>
  BY DEF Acquire, Go
<1>2. t \in Seq(Pieces)
  <2>1. todo[p] \in Seq(Commands) /\ todo[p] # <<>>
    BY <1>1 DEF Shape, TextIs
  <2>2. Head(todo[p]) \in Commands
    BY <2>1, HeadTodo
  <2> QED BY <2>2, CmdWords
<1> HIDE DEF t
<1>3. /\ text' = [text EXCEPT ![p] = t] /\ toks' = [toks EXCEPT ![p] = <<>>]
      /\ lineCpy' = Mixed /\ cursor' = 0 /\ clash' \subseteq clash \cup Tasks
  BY <1>1 DEF StartCopy, Others
<1>4. /\ pc'[p] = "copy" /\ pc' \in [Tasks -> RegPcs \cup CliPcs] /\ text'[p] = t
      /\ \A q \in Tasks \ {p} : pc'[q] = pc[q] /\ text'[q] = text[q] /\ toks'[q] = toks[q]
  BY <1>1, <1>3 DEF Shape, RegPcs
<1>5. OthersSame(p)
  BY <1>1, <1>4 DEF OthersSame
<1>6. Alone' /\ Tokens'
  BY <1>1, <1>2, <1>4, <1>5, StartKeeps
<1>7. Shape'
  <2>1. TypeOK'
    BY <1>1, <1>3 DEF Shape, TypeOK
  <2>2. pc'[Cli] \in CliPcs /\ \A q \in Regs : pc'[q] \in RegPcs
    BY <1>4 DEF Shape, RegPcs, CliPcs
  <2>3. text' \in [Tasks -> Seq(Pieces)] /\ toks' \in [Tasks -> Seq(Pieces)]
    BY <1>2, <1>3 DEF Shape
  <2>4. lineCpy' \in Seq(Pieces) /\ cursor' \in Nat
    BY <1>3 DEF Mixed
  <2> QED BY <1>1, <1>4, <2>1, <2>2, <2>3, <2>4 DEF Shape
<1>8. TextIs'
  <2>1. (Splits(Cli) \/ pc[Cli] = "lookup")' => text'[Cli] \in Lines
    BY <1>4 DEF TextIs, Splits
  <2>2. ASSUME NEW q \in Regs
        PROVE  /\ pc'[q] # "idle" => todo'[q] # <<>>
               /\ Splits(q)' \/ pc'[q] = "count" => text'[q] = Append(Head(todo'[q]).toks, "hint")
    BY <1>1, <1>4 DEF TextIs, Splits, t
  <2> QED BY <2>1, <2>2 DEF TextIs
<1>9. Locked'
  BY <1>1, <1>4 DEF Locked, Held
<1>10. Named'
  BY <1>1, <1>4 DEF Named, Newest
<1>11. Room' /\ StarterLast'
  BY <1>1, <1>4 DEF Room, Before, StarterLast, Started
<1>12. Laid'
  <2>1. Unflagged' = Unflagged
    BY <1>1, <1>4 DEF Unflagged
  <2> QED BY <1>1, <1>4, <2>1 DEF Laid, LaidBut
<1> QED BY <1>6, <1>7, <1>8, <1>9, <1>10, <1>11, <1>12

LEMMA CountKeeps ==
  ASSUME TableInv, NEW p \in Regs, Count(p)
  PROVE  TableInv'
<1> USE TheTasks
<1> USE DEF TableInv
<1> DEFINE c == Head(todo[p])
<1> DEFINE s == [toks |-> toks[p], cmd |-> c, laid |-> FALSE]
<1>1. /\ pc[p] = "count" /\ pc' = [pc EXCEPT ![p] = "search"] /\ table' = Append(table, s)
      /\ missed' = (IF pc[Cli] \in {"pad", "print"} THEN missed \cup {c} ELSE missed)
      /\ overtaken' = overtaken \cup {q \in Regs \ {p} : pc[q] = "return"}
      /\ text' = [text EXCEPT ![p] = <<>>] /\ toks' = [toks EXCEPT ![p] = <<>>]
      /\ clash' = clash \ {p}
      /\ UNCHANGED <<up, lineCpy, writer, cursor, tidy, mutex, todo, handle>>
  BY DEF Count, Go, Forget
<1>2. c \in Commands /\ c = todo[p][1] /\ todo[p] # <<>> /\ Len(todo[p]) \in Nat \ {0}
  <2>1. todo[p] \in Seq(Commands) /\ todo[p] # <<>>
    BY <1>1 DEF Shape, TextIs
  <2> QED BY <2>1, HeadTodo
<1>3. s \in Slots /\ s.cmd = c /\ s.laid = FALSE
  BY <1>2 DEF Shape, Slots
<1> HIDE DEF s
<1> DEFINE n == Len(table)
<1>4. /\ n \in Nat /\ table' \in Seq(Slots) /\ table' # <<>> /\ Len(table') = n + 1
      /\ DOMAIN table = 1 .. n /\ DOMAIN table' = 1 .. n + 1
      /\ \A i \in 1 .. n : table'[i] = table[i]
      /\ table'[n + 1] = s
  <2>1. table \in Seq(Slots)
    BY DEF Shape
  <2> QED BY <1>1, <1>3, <2>1, AppendProperties, LenProperties
<1> HIDE DEF n
<1>5. /\ pc'[p] = "search" /\ pc' \in [Tasks -> RegPcs \cup CliPcs]
      /\ \A q \in Tasks \ {p} : pc'[q] = pc[q] /\ text'[q] = text[q] /\ toks'[q] = toks[q]
  BY <1>1 DEF Shape, RegPcs
<1>6. ~Splits(p)' /\ OthersSame(p)
  BY <1>1, <1>5 DEF OthersSame, Splits
<1>7. Shape'
  <2>1. text' \in [Tasks -> Seq(Pieces)] /\ toks' \in [Tasks -> Seq(Pieces)]
    BY <1>1 DEF Shape
  <2>2. \A q \in Regs : handle'[q] \in -1 .. Len(table')
    BY <1>1, <1>4 DEF Shape, TypeOK, n
  <2>3. \A i \in DOMAIN table' : table'[i].cmd \in Commands /\ table'[i].laid \in BOOLEAN
    <3> TAKE i \in DOMAIN table'
    <3>1. table'[i] \in Slots
      BY <1>4, ElementOfSeq
    <3> QED BY <3>1 DEF Slots
  <2>4. TypeOK'
    BY <1>1, <1>2, <2>2, <2>3 DEF Shape, TypeOK
  <2>5. pc'[Cli] \in CliPcs /\ \A q \in Regs : pc'[q] \in RegPcs
    BY <1>5 DEF Shape, RegPcs, CliPcs
  <2> QED BY <1>1, <1>4, <1>5, <2>1, <2>4, <2>5 DEF Shape
<1>8. TextIs'
  <2>1. (Splits(Cli) \/ pc[Cli] = "lookup")' => text'[Cli] \in Lines
    BY <1>5 DEF TextIs, Splits
  <2>2. ASSUME NEW q \in Regs
        PROVE  /\ pc'[q] # "idle" => todo'[q] # <<>>
               /\ Splits(q)' \/ pc'[q] = "count" => text'[q] = Append(Head(todo'[q]).toks, "hint")
    BY <1>1, <1>2, <1>5 DEF TextIs, Splits
  <2> QED BY <2>1, <2>2 DEF TextIs
<1>9. Alone'
  BY <1>1, <1>6, AloneKeeps
<1>10. Tokens'
  <2>1. OwnWords(p)'
    BY <1>5 DEF OwnWords
  <2> QED BY <1>1, <1>6, <2>1, OthersKeep
<1>11. mutex = p
  BY <1>1 DEF Locked, Held
<1>12. Locked'
  BY <1>1, <1>5, <1>11 DEF Locked
<1>13. Named'
  <2>1. Newest(p)'
    BY <1>1, <1>3, <1>4 DEF Newest
  <2>2. ASSUME NEW q \in Regs \ {p}
        PROVE  /\ pc'[q] \notin {"search", "stuck", "release"}
               /\ pc'[q] = "return" => q \in overtaken'
               /\ pc'[q] = "back" /\ q \notin overtaken' =>
                    handle'[q] \in 1 .. Len(table') /\ table'[handle'[q]].cmd = Head(todo'[q])
    <3>1. pc'[q] = pc[q] /\ q \in Regs
      BY <1>5
    <3>2. pc'[q] \notin {"search", "stuck", "release"}
      BY <3>1, <1>11 DEF Locked, Held
    <3>3. pc'[q] = "return" => q \in overtaken'
      BY <1>1, <3>1
    <3>4. ASSUME pc'[q] = "back", q \notin overtaken'
          PROVE  handle'[q] \in 1 .. Len(table') /\ table'[handle'[q]].cmd = Head(todo'[q])
      <4>1. handle[q] \in 1 .. n /\ table[handle[q]].cmd = Head(todo[q])
        BY <1>1, <3>1, <3>4 DEF Named, n
      <4> QED BY <1>1, <1>4, <4>1
    <3> QED BY <3>2, <3>3, <3>4
  <2> QED BY <1>5, <2>1, <2>2 DEF Named
<1>14. n < MaxCmds /\ n + 1 <= MaxCmds
  BY <1>1, <1>4, CliTableAssumption DEF Room, Before, n
<1>15. \A q \in Regs \ {p} : pc[q] \notin Before
  <2>1. pc[Ptp] # "idle" => pc[Startup] \notin Before
    BY DEF StarterLast, Started
  <2>2. pc[Startup] \in Before => pc[Ptp] \notin Before
    BY <2>1 DEF Before
  <2> QED BY <1>1, <2>2 DEF Regs, Before
<1>16. Room'
  BY <1>4, <1>5, <1>14, <1>15 DEF Room, Before
<1>17. StarterLast'
  <2>1. Started' => Started \/ c = Starter
    BY <1>1, <1>3, <1>4 DEF Started
  <2>2. pc[Ptp] # "idle" => Started
    BY DEF StarterLast, Started
  <2>3. CASE Started
    <3>1. p # Startup
      BY <1>1, <2>3 DEF StarterLast, Before
    <3>2. pc'[Startup] = pc[Startup]
      BY <1>5, <3>1
    <3> QED BY <1>1, <1>5, <2>3, <3>2 DEF StarterLast
  <2>4. CASE ~Started /\ c = Starter
    <3>1. p = Startup
      BY <1>1, <2>2, <2>4 DEF Regs
    <3>2. Len(todo[Startup]) <= 1
      <4>1. 1 \notin 1 .. Len(todo[Startup]) - 1
        BY <1>2, <2>4, <3>1 DEF StarterLast
      <4> QED BY <1>2, <3>1, <4>1
    <3>3. pc'[Startup] = "search" /\ pc'[Ptp] = pc[Ptp]
      BY <1>5, <3>1
    <3> QED BY <1>1, <3>2, <3>3 DEF StarterLast, Before
  <2>5. CASE ~Started /\ c # Starter
    BY <1>1, <1>5, <2>1, <2>5 DEF StarterLast
  <2> QED BY <2>3, <2>4, <2>5
<1>18. Laid'
  <2>1. ASSUME NEW S, NEW T, LaidBut(S), S \cup {c} \subseteq T
        PROVE  \A i \in DOMAIN table' : table'[i].laid \/ table'[i].cmd \in T
    BY <1>3, <1>4, <2>1 DEF LaidBut
  <2>2. pc'[Cli] \in {"pad", "print"} => LaidBut(missed)'
    <3> SUFFICES ASSUME pc'[Cli] \in {"pad", "print"} PROVE LaidBut(missed)'
      OBVIOUS
    <3>1. pc[Cli] \in {"pad", "print"}
      BY <1>5
    <3>2. LaidBut(missed) /\ missed \cup {c} \subseteq missed'
      BY <1>1, <3>1 DEF Laid
    <3> QED BY <2>1, <3>2 DEF LaidBut
  <2>3. Unflagged \cup {c} \subseteq Unflagged' /\ missed \subseteq missed'
    BY <1>1, <1>5 DEF Unflagged
  <2>4. tidy => (missed \cup Unflagged) \cup {c} \subseteq missed' \cup Unflagged'
    BY <2>3
  <2>5. tidy' => LaidBut(missed \cup Unflagged)'
    BY <1>1, <2>1, <2>4 DEF Laid, LaidBut
  <2> QED BY <2>2, <2>5 DEF Laid
<1> QED BY <1>7, <1>8, <1>9, <1>10, <1>12, <1>13, <1>16, <1>17, <1>18

\* A registering task's step with the mutex or its answer, away from its words.
LEMMA AnswerKeeps ==
  ASSUME TableInv, NEW p \in Regs, pc[p] \in {"search", "release", "return"},
         NEW w \in {"stuck", "release", "return", "back"}, pc' = [pc EXCEPT ![p] = w],
         UNCHANGED <<table, up, missed, todo, overtaken, tokVars>>,
         pc[p] = "search" <=> w \in {"release", "stuck"},
         pc[p] = "release" <=> w = "return",
         w = "stuck" => tidy' = tidy,
         w = "release" => tidy' = FALSE,
         w \in {"return", "back"} => tidy' = tidy,
         mutex' = IF w = "return" THEN Nobody ELSE mutex,
         handle' = IF w = "back" THEN [handle EXCEPT ![p] = Len(table)] ELSE handle
  PROVE  TableInv'
<1> USE TheTasks
<1> USE DEF TableInv
<1>1. UNCHANGED <<text, toks, lineCpy, writer, cursor, clash>>
  BY DEF tokVars
<1>2. /\ pc'[p] = w /\ pc' \in [Tasks -> RegPcs \cup CliPcs]
      /\ \A q \in Tasks \ {p} : pc'[q] = pc[q]
  BY DEF Shape, RegPcs
<1>3. ~Splits(p) /\ ~Splits(p)' /\ (\A q \in Tasks : Splits(q)' <=> Splits(q)) /\ OthersSame(p)
  BY <1>1, <1>2 DEF Splits, OthersSame
<1>4. Len(table) \in Nat
  BY LenProperties DEF Shape
<1>5. Shape'
  <2>1. tidy' \in BOOLEAN /\ mutex' \in Regs \cup {Nobody}
    BY DEF Shape, TypeOK
  <2>2. handle' \in [Regs -> Int] /\ \A q \in Regs : handle'[q] \in -1 .. Len(table)
    <3>1. Len(table) \in Int /\ Len(table) \in -1 .. Len(table)
      BY <1>4
    <3>2. handle \in [Regs -> Int] /\ \A q \in Regs : handle[q] \in -1 .. Len(table)
      BY DEF Shape, TypeOK
    <3> QED BY <3>1, <3>2
  <2>3. TypeOK'
    BY <1>1, <2>1, <2>2 DEF Shape, TypeOK
  <2>4. pc'[Cli] \in CliPcs /\ \A q \in Regs : pc'[q] \in RegPcs
    BY <1>2 DEF Shape, RegPcs, CliPcs
  <2> QED BY <1>1, <1>2, <2>2, <2>3, <2>4 DEF Shape
<1>6. TextIs'
  <2>1. (Splits(Cli) \/ pc[Cli] = "lookup")' => text'[Cli] \in Lines
    BY <1>1, <1>2, <1>3 DEF TextIs
  <2>2. ASSUME NEW q \in Regs
        PROVE  /\ pc'[q] # "idle" => todo'[q] # <<>>
               /\ Splits(q)' \/ pc'[q] = "count" => text'[q] = Append(Head(todo'[q]).toks, "hint")
    BY <1>1, <1>2, <1>3 DEF TextIs
  <2> QED BY <2>1, <2>2 DEF TextIs
<1>7. Alone'
  BY <1>1, <1>3, AloneKeeps
<1>8. Tokens'
  <2>1. OwnWords(p)'
    BY <1>2 DEF OwnWords
  <2> QED BY <1>1, <1>3, <2>1, OthersKeep
<1>9. Locked'
  <2>1. ASSUME NEW q \in Regs, pc'[q] \in Held PROVE pc[q] \in Held /\ (w = "return" => q # p)
    BY <1>2, <2>1 DEF Held
  <2>2. w = "return" => pc[p] \in Held
    BY DEF Held
  <2>3. ASSUME NEW q \in Regs, pc'[q] \in Held PROVE mutex' = q
    BY <2>1, <2>2, <2>3 DEF Locked
  <2> QED BY <2>3 DEF Locked
<1>10. Named'
  <2>1. pc[p] \in {"search", "release"} \/ p \notin overtaken => Newest(p)
    BY DEF Named
  <2>2. Newest(p) => Len(table) \in 1 .. Len(table)
    <3>1. table \in Seq(Slots)
      BY DEF Shape
    <3> QED BY <3>1, EmptySeq DEF Newest
  <2>3. ASSUME NEW q \in Regs \ {p}
        PROVE  pc'[q] = pc[q] /\ handle'[q] = handle[q]
    BY <1>2 DEF Shape
  <2>4. w = "back" => handle'[p] = Len(table)
    BY DEF Shape
  <2>5. \A q \in Regs : Newest(q)' <=> Newest(q)
    BY DEF Newest
  <2>6. /\ w \in {"search", "stuck", "release"} => Newest(p)
        /\ w = "return" /\ p \notin overtaken => Newest(p)
        /\ w = "back" /\ p \notin overtaken =>
             handle'[p] \in 1 .. Len(table) /\ table[handle'[p]].cmd = Head(todo[p])
    BY <2>1, <2>2, <2>4 DEF Newest
  <2> QED BY <1>2, <2>3, <2>5, <2>6 DEF Named
<1>11. Room' /\ StarterLast'
  BY <1>2 DEF Room, Before, StarterLast, Started
<1>12. Laid'
  <2>1. tidy' => Unflagged' = Unflagged
    <3>1. ASSUME tidy'
          PROVE  \A q \in Regs : pc'[q] \in {"search", "stuck"} <=> pc[q] \in {"search", "stuck"}
      BY <1>2, <3>1
    <3> QED BY <3>1 DEF Unflagged
  <2>2. tidy' => tidy
    OBVIOUS
  <2> QED BY <1>2, <2>1, <2>2 DEF Laid, LaidBut
<1> QED BY <1>5, <1>6, <1>7, <1>8, <1>9, <1>10, <1>11, <1>12

LEMMA SearchKeeps ==
  ASSUME TableInv, NEW p \in Regs, Search(p) \/ Release(p) \/ Return(p)
  PROVE  TableInv'
<1>1. CASE Search(p)
  <2> DEFINE w == IF Duplicate(p) THEN "stuck" ELSE "release"
  <2>1. /\ pc[p] = "search" /\ pc' = [pc EXCEPT ![p] = w] /\ w \in {"stuck", "release"}
        /\ w = "stuck" => tidy' = tidy
        /\ w = "release" => tidy' = FALSE
        /\ UNCHANGED <<table, up, missed, todo, overtaken, tokVars, mutex, handle>>
    BY <1>1 DEF Search, Go
  <2> HIDE DEF w
  <2> QED BY <2>1, AnswerKeeps
<1>2. CASE Release(p)
  BY <1>2, AnswerKeeps DEF Release, Go
<1>3. CASE Return(p)
  BY <1>3, AnswerKeeps DEF Return, Go
<1> QED BY <1>1, <1>2, <1>3

LEMMA BackKeeps ==
  ASSUME TableInv, NEW p \in Regs, Back(p)
  PROVE  TableInv'
<1> USE TheTasks
<1> USE DEF TableInv
<1>1. /\ pc[p] = "back" /\ pc' = [pc EXCEPT ![p] = "idle"]
      /\ todo' = [todo EXCEPT ![p] = Tail(todo[p])]
      /\ handle' = [handle EXCEPT ![p] = -1] /\ overtaken' = overtaken \ {p}
      /\ UNCHANGED <<table, up, missed, text, toks, lineCpy, writer, cursor, clash, tidy, mutex>>
  BY DEF Back, Go, tokVars
<1>2. /\ todo[p] # <<>> /\ Tail(todo[p]) \in Seq(Commands) /\ Len(todo[p]) \in Nat \ {0}
      /\ Len(Tail(todo[p])) = Len(todo[p]) - 1
      /\ \A i \in 1 .. Len(todo[p]) - 1 : Tail(todo[p])[i] = todo[p][i + 1]
  <2>1. todo[p] \in Seq(Commands) /\ todo[p] # <<>>
    BY <1>1 DEF Shape, TextIs
  <2> QED BY <2>1, HeadTodo
<1>3. /\ pc'[p] = "idle" /\ pc' \in [Tasks -> RegPcs \cup CliPcs]
      /\ todo' \in [Regs -> Seq(Commands)] /\ todo'[p] = Tail(todo[p])
      /\ \A q \in Tasks \ {p} : pc'[q] = pc[q]
      /\ \A q \in Regs \ {p} : todo'[q] = todo[q] /\ handle'[q] = handle[q]
  BY <1>1, <1>2 DEF Shape, RegPcs
<1>4. ~Splits(p) /\ ~Splits(p)' /\ (\A q \in Tasks : Splits(q)' <=> Splits(q)) /\ OthersSame(p)
  BY <1>1, <1>3 DEF Splits, OthersSame
<1>5. Shape'
  <2>1. Len(table) \in Nat
    BY LenProperties DEF Shape
  <2>2. handle' \in [Regs -> Int] /\ \A q \in Regs : handle'[q] \in -1 .. Len(table)
    <3>1. -1 \in Int /\ -1 \in -1 .. Len(table)
      BY <2>1
    <3>2. handle \in [Regs -> Int] /\ \A q \in Regs : handle[q] \in -1 .. Len(table)
      BY DEF Shape, TypeOK
    <3> QED BY <1>1, <3>1, <3>2
  <2>3. TypeOK'
    BY <1>1, <2>2 DEF Shape, TypeOK
  <2>4. pc'[Cli] \in CliPcs /\ \A q \in Regs : pc'[q] \in RegPcs
    BY <1>3 DEF Shape, RegPcs, CliPcs
  <2> QED BY <1>1, <1>3, <2>2, <2>3, <2>4 DEF Shape
<1>6. TextIs'
  <2>1. (Splits(Cli) \/ pc[Cli] = "lookup")' => text'[Cli] \in Lines
    BY <1>1, <1>3, <1>4 DEF TextIs
  <2>2. ASSUME NEW q \in Regs
        PROVE  /\ pc'[q] # "idle" => todo'[q] # <<>>
               /\ Splits(q)' \/ pc'[q] = "count" => text'[q] = Append(Head(todo'[q]).toks, "hint")
    BY <1>1, <1>3, <1>4 DEF TextIs
  <2> QED BY <2>1, <2>2 DEF TextIs
<1>7. Alone'
  BY <1>1, <1>4, AloneKeeps
<1>8. Tokens'
  <2>1. OwnWords(p)'
    BY <1>3 DEF OwnWords
  <2> QED BY <1>1, <1>4, <2>1, OthersKeep
<1>9. Locked' /\ Named'
  BY <1>1, <1>3 DEF Locked, Held, Named, Newest
<1>10. Room'
  BY <1>1, <1>3 DEF Room, Before
<1>11. StarterLast'
  <2>1. CASE p = Startup
    <3>1. todo'[Startup] = Tail(todo[p]) /\ Len(todo'[Startup]) = Len(todo[p]) - 1
      BY <1>2, <1>3, <2>1
    <3>2. ASSUME NEW i \in 1 .. Len(todo'[Startup]) - 1
          PROVE  i \in 1 .. Len(todo[p]) - 1 /\ i + 1 \in 1 .. Len(todo[p]) - 1
      BY <1>2, <3>1
    <3>3. \A i \in 1 .. Len(todo'[Startup]) - 1 : todo'[Startup][i] = todo[p][i + 1]
      BY <1>2, <3>1, <3>2
    <3>4. \A i \in 1 .. Len(todo'[Startup]) - 1 : todo'[Startup][i] # Starter
      BY <2>1, <3>2, <3>3 DEF StarterLast
    <3>5. Started' <=> Started
      BY <1>1 DEF Started
    <3>6. Started => Len(todo[p]) <= 1
      BY <2>1 DEF StarterLast
    <3>7. Started => Len(Tail(todo[p])) = 0
      <4>1. \A m \in Nat \ {0} : m <= 1 => m - 1 = 0
        OBVIOUS
      <4>2. Len(todo[p]) \in Nat \ {0} /\ Len(Tail(todo[p])) = Len(todo[p]) - 1
        BY <1>2
      <4> QED BY <3>6, <4>1, <4>2, Zenon
    <3>8. Len(Tail(todo[p])) = 0 => Tail(todo[p]) = <<>>
      BY <1>2, EmptySeq
    <3>9. Started => todo'[Startup] = <<>> /\ Len(todo'[Startup]) <= 1
      <4>1. 0 <= 1
        OBVIOUS
      <4>2. todo'[Startup] = Tail(todo[p])
        BY <3>1
      <4> QED BY <3>7, <3>8, <4>1, <4>2, Zenon
    <3>10. pc'[Ptp] = pc[Ptp] /\ pc'[Startup] = "idle"
      BY <1>3, <2>1
    <3> QED BY <1>1, <3>4, <3>5, <3>9, <3>10 DEF StarterLast, Before
  <2>2. CASE p # Startup
    BY <1>1, <1>3, <2>2 DEF StarterLast, Started, Before
  <2> QED BY <2>1, <2>2
<1>12. Laid'
  <2>1. Unflagged' = Unflagged
    BY <1>1, <1>3 DEF Unflagged
  <2> QED BY <1>1, <1>3, <2>1 DEF Laid, LaidBut
<1> QED BY <1>5, <1>6, <1>7, <1>8, <1>9, <1>10, <1>11, <1>12

LEMMA TypeKeeps ==
  ASSUME TableInv, NEW l \in Lines, Type(l)
  PROVE  TableInv'
<1> USE TheTasks
<1> USE DEF TableInv
<1>1. /\ pc[Cli] = "idle" /\ StartCopy(Cli, l) /\ pc' = [pc EXCEPT ![Cli] = "copy"]
      /\ UNCHANGED <<table, up, missed, tidy, mutex, todo, handle, overtaken>>
  BY DEF Type, Go, regVars
<1>2. l \in Seq(Pieces)
  BY LineWords
<1>3. /\ text' = [text EXCEPT ![Cli] = l] /\ toks' = [toks EXCEPT ![Cli] = <<>>]
      /\ lineCpy' = Mixed /\ cursor' = 0 /\ clash' \subseteq clash \cup Tasks
  BY <1>1 DEF StartCopy, Others
<1>4. /\ pc'[Cli] = "copy" /\ pc' \in [Tasks -> RegPcs \cup CliPcs] /\ text'[Cli] = l
      /\ \A q \in Tasks \ {Cli} : pc'[q] = pc[q] /\ text'[q] = text[q] /\ toks'[q] = toks[q]
  BY <1>1, <1>3 DEF Shape, RegPcs
<1>5. OthersSame(Cli)
  BY <1>1, <1>4 DEF OthersSame
<1>6. Alone' /\ Tokens'
  BY <1>1, <1>2, <1>4, <1>5, StartKeeps
<1>7. Shape'
  <2>1. TypeOK'
    BY <1>1, <1>3 DEF Shape, TypeOK
  <2>2. pc'[Cli] \in CliPcs /\ \A q \in Regs : pc'[q] \in RegPcs
    BY <1>4 DEF Shape, RegPcs, CliPcs
  <2>3. text' \in [Tasks -> Seq(Pieces)] /\ toks' \in [Tasks -> Seq(Pieces)]
    BY <1>2, <1>3 DEF Shape
  <2>4. lineCpy' \in Seq(Pieces) /\ cursor' \in Nat
    BY <1>3 DEF Mixed
  <2> QED BY <1>1, <1>4, <2>1, <2>2, <2>3, <2>4 DEF Shape
<1>8. TextIs'
  BY <1>1, <1>4 DEF TextIs, Splits
<1>9. Locked' /\ Named'
  BY <1>1, <1>4 DEF Locked, Held, Named, Newest
<1>10. Room' /\ StarterLast'
  BY <1>1, <1>4 DEF Room, Before, StarterLast, Started
<1>11. Laid'
  <2>1. Unflagged' = Unflagged
    BY <1>1, <1>4 DEF Unflagged
  <2> QED BY <1>1, <1>4, <2>1 DEF Laid, LaidBut
<1> QED BY <1>6, <1>7, <1>8, <1>9, <1>10, <1>11

\* A command that is called is that of the first slot whose words begin the line.
LEMMA CalledIs ==
  ASSUME TableInv
  PROVE  IF \E i \in DOMAIN table : Fits(table[i])
         THEN \E i \in DOMAIN table :
                /\ Fits(table[i])
                /\ Called = IF Len(toks[Cli]) - Len(table[i].toks) < table[i].cmd.min
                            THEN NoCmd ELSE table[i].cmd
         ELSE Called = NoCmd
<1> DEFINE found == {i \in DOMAIN table : Fits(table[i])}
<1> DEFINE first == CHOOSE i \in found : \A j \in found : i <= j
<1>1. Called = IF found = {} \/ Len(toks[Cli]) - Len(table[first].toks) < table[first].cmd.min
               THEN NoCmd ELSE table[first].cmd
  BY DEF Called
<1>2. found \subseteq Nat
  <2>1. table \in Seq(Slots)
    BY DEF TableInv, Shape
  <2> QED BY <2>1, LenProperties
<1>3. ASSUME found # {} PROVE first \in found
  <2> HIDE DEF found
  <2>1. \E m \in found : \A n \in found : m <= n
    BY <1>2, <1>3, Least
  <2> QED BY <2>1
<1> HIDE DEF first
<1> QED BY <1>1, <1>3, Zenon

LEMMA StarterCalled ==
  ASSUME TableInv, Called = Starter
  PROVE  Started
<1>1. NoCmd # Starter
  <2>1. Starter \in Commands
    BY CliTableAssumption
  <2> QED BY <2>1, CmdWords DEF NoCmd
<1>2. \E i \in DOMAIN table : Called = table[i].cmd
  BY <1>1, CalledIs, Zenon
<1> QED BY <1>2 DEF Started

\* The command line's task is done with its line.
LEMMA ForgetKeeps ==
  ASSUME TableInv, pc' = [pc EXCEPT ![Cli] = "idle"], Forget(Cli),
         UNCHANGED <<table, missed, regVars>>, up' \in BOOLEAN, up => up', up' => Started
  PROVE  TableInv'
<1> USE TheTasks
<1> USE DEF TableInv
<1>1. /\ text' = [text EXCEPT ![Cli] = <<>>] /\ toks' = [toks EXCEPT ![Cli] = <<>>]
      /\ clash' = clash \ {Cli}
      /\ UNCHANGED <<lineCpy, writer, cursor, tidy, mutex, todo, handle, overtaken>>
  BY DEF Forget, regVars
<1>2. /\ pc'[Cli] = "idle" /\ pc' \in [Tasks -> RegPcs \cup CliPcs]
      /\ \A q \in Tasks \ {Cli} : pc'[q] = pc[q] /\ text'[q] = text[q] /\ toks'[q] = toks[q]
  BY <1>1 DEF Shape, RegPcs
<1>3. ~Splits(Cli)' /\ OthersSame(Cli)
  BY <1>1, <1>2 DEF Splits, OthersSame
<1>4. Shape'
  <2>1. TypeOK'
    BY <1>1 DEF Shape, TypeOK
  <2>2. pc'[Cli] \in CliPcs /\ \A q \in Regs : pc'[q] \in RegPcs
    BY <1>2 DEF Shape, RegPcs, CliPcs
  <2>3. text' \in [Tasks -> Seq(Pieces)] /\ toks' \in [Tasks -> Seq(Pieces)]
    BY <1>1 DEF Shape
  <2> QED BY <1>1, <1>2, <2>1, <2>2, <2>3 DEF Shape
<1>5. TextIs'
  BY <1>1, <1>2, <1>3 DEF TextIs, Splits
<1>6. Alone'
  BY <1>1, <1>3, AloneKeeps
<1>7. Tokens'
  <2>1. OwnWords(Cli)'
    BY <1>2 DEF OwnWords
  <2> QED BY <1>1, <1>3, <2>1, OthersKeep
<1>8. Locked' /\ Named'
  BY <1>1, <1>2 DEF Locked, Held, Named, Newest
<1>9. Room'
  BY <1>1, <1>2 DEF Room, Before
<1>10. StarterLast'
  <2>1. Started' => Started
    BY DEF Started
  <2> QED BY <1>1, <1>2, <2>1 DEF StarterLast
<1>11. Laid'
  <2>1. Unflagged' = Unflagged
    BY <1>1, <1>2 DEF Unflagged
  <2> QED BY <1>1, <1>2, <2>1 DEF Laid, LaidBut
<1> QED BY <1>4, <1>5, <1>6, <1>7, <1>8, <1>9, <1>10, <1>11

LEMMA LookupKeeps ==
  ASSUME TableInv, Lookup \/ PrintHelp
  PROVE  TableInv'
<1>1. CASE Lookup
  <2>1. up' = (up \/ Called = Starter) /\ up \in BOOLEAN
    BY <1>1 DEF Lookup, TableInv, Shape, TypeOK
  <2>2. up' \in BOOLEAN /\ (up => up')
    BY <2>1
  <2>3. up' => Started
    BY <2>1, StarterCalled DEF Started
  <2>4. pc' = [pc EXCEPT ![Cli] = "idle"] /\ Forget(Cli) /\ UNCHANGED <<table, missed, regVars>>
    BY <1>1 DEF Lookup, Go
  <2> QED BY <2>2, <2>3, <2>4, ForgetKeeps
<1>2. CASE PrintHelp
  <2>1. up' \in BOOLEAN /\ (up => up') /\ (up' => Started)
    BY <1>2 DEF PrintHelp, TableInv, Shape, TypeOK, Started
  <2>2. pc' = [pc EXCEPT ![Cli] = "idle"] /\ Forget(Cli) /\ UNCHANGED <<table, missed, regVars>>
    BY <1>2 DEF PrintHelp, Go
  <2> QED BY <2>1, <2>2, ForgetKeeps
<1> QED BY <1>1, <1>2

\* The help looks at the slots: their commands stay.
LEMMA HelpKeeps ==
  ASSUME TableInv, NEW w \in {"pad", "print"}, pc' = [pc EXCEPT ![Cli] = w],
         UNCHANGED <<up, tokVars, mutex, todo, handle, overtaken>>,
         pc[Cli] \in {"lookup", "pad"}, tidy' \in BOOLEAN, missed' \subseteq Commands,
         table' \in Seq(Slots), Len(table') = Len(table),
         \A i \in DOMAIN table : table'[i].cmd = table[i].cmd,
         Laid'
  PROVE  TableInv'
<1> USE TheTasks
<1> USE DEF TableInv
<1>1. UNCHANGED <<text, toks, lineCpy, writer, cursor, clash>>
  BY DEF tokVars
<1>2. /\ pc'[Cli] = w /\ pc' \in [Tasks -> RegPcs \cup CliPcs]
      /\ \A q \in Tasks \ {Cli} : pc'[q] = pc[q]
  BY DEF Shape, CliPcs
<1>3. /\ ~Splits(Cli) /\ ~Splits(Cli)' /\ (\A q \in Tasks : Splits(q)' <=> Splits(q))
      /\ OthersSame(Cli)
  BY <1>1, <1>2 DEF Splits, OthersSame
<1>4. /\ Len(table) \in Nat /\ DOMAIN table = 1 .. Len(table) /\ DOMAIN table' = DOMAIN table
      /\ (table = <<>>) <=> (table' = <<>>)
  <2>1. table \in Seq(Slots)
    BY DEF Shape
  <2> QED BY <2>1, LenProperties, EmptySeq
<1>5. Shape'
  <2>1. \A i \in DOMAIN table' : table'[i].cmd \in Commands /\ table'[i].laid \in BOOLEAN
    <3> TAKE i \in DOMAIN table'
    <3>1. i \in 1 .. Len(table')
      BY <1>4
    <3>2. table'[i] \in Slots
      BY <3>1, ElementOfSeq
    <3> QED BY <3>2 DEF Slots
  <2>2. TypeOK'
    BY <1>1, <2>1 DEF Shape, TypeOK
  <2>3. pc'[Cli] \in CliPcs /\ \A q \in Regs : pc'[q] \in RegPcs
    BY <1>2 DEF Shape, RegPcs, CliPcs
  <2> QED BY <1>1, <1>2, <2>2, <2>3 DEF Shape
<1>6. TextIs'
  BY <1>1, <1>2, <1>3 DEF TextIs
<1>7. Alone'
  BY <1>1, <1>3, AloneKeeps
<1>8. Tokens'
  <2>1. OwnWords(Cli)'
    BY <1>2 DEF OwnWords
  <2> QED BY <1>1, <1>3, <2>1, OthersKeep
<1>9. Locked'
  BY <1>2 DEF Locked
<1>10. Named'
  <2>1. \A q \in Regs : Newest(q) => Newest(q)'
    <3>1. table # <<>> => Len(table) \in DOMAIN table
      <4>1. table \in Seq(Slots)
        BY DEF Shape
      <4> QED BY <1>4, <4>1, EmptySeq
    <3> QED BY <1>4, <3>1 DEF Newest
  <2>2. \A q \in Regs : handle[q] \in 1 .. Len(table) => table'[handle[q]].cmd = table[handle[q]].cmd
    BY <1>4
  <2> QED BY <1>2, <2>1, <2>2 DEF Named
<1>11. Room'
  BY <1>2 DEF Room, Before
<1>12. StarterLast'
  <2>1. Started' <=> Started
    BY <1>4 DEF Started
  <2> QED BY <1>2, <2>1 DEF StarterLast
<1> QED BY <1>5, <1>6, <1>7, <1>8, <1>9, <1>10, <1>11, <1>12

LEMMA FormatKeeps ==
  ASSUME TableInv, Format
  PROVE  TableInv'
<1> USE TheTasks
<1> USE DEF TableInv
<1>1. pc[Cli] = "lookup" /\ UNCHANGED <<up, tokVars, tidy, mutex, todo, handle, overtaken>>
  BY DEF Format, regVars
<1>2. tidy \in BOOLEAN /\ missed \subseteq Commands /\ table \in Seq(Slots)
  BY DEF Shape, TypeOK
<1>3. pc \in [Tasks -> RegPcs \cup CliPcs]
  BY DEF Shape
<1>4. CASE tidy
  <2>1. missed' = missed \cup Unflagged /\ pc' = [pc EXCEPT ![Cli] = "print"] /\ UNCHANGED table
    BY <1>4 DEF Format, Go
  <2>2. Unflagged \subseteq Commands
    <3> SUFFICES ASSUME NEW q \in Regs, pc[q] \in {"search", "stuck"}
                 PROVE  Head(todo[q]) \in Commands
      BY DEF Unflagged
    <3>1. todo[q] \in Seq(Commands) /\ todo[q] # <<>>
      BY DEF Shape, TextIs
    <3> QED BY <3>1, HeadTodo
  <2>3. Unflagged' = Unflagged
    BY <1>1, <1>3, <2>1 DEF Unflagged
  <2>4. LaidBut(missed \cup Unflagged)
    BY <1>4 DEF Laid
  <2>5. Laid'
    BY <2>1, <2>3, <2>4 DEF Laid, LaidBut
  <2> QED BY <1>1, <1>2, <2>1, <2>2, <2>5, HelpKeeps
<1>5. CASE ~tidy
  <2>1. /\ table' = [i \in DOMAIN table |-> [table[i] EXCEPT !.laid = TRUE]]
        /\ missed' = {} /\ pc' = [pc EXCEPT ![Cli] = "pad"]
    BY <1>5 DEF Format, Go
  <2>2. /\ Len(table) \in Nat /\ DOMAIN table = 1 .. Len(table)
        /\ \A i \in 1 .. Len(table) : table[i] \in Slots
    BY <1>2, LenProperties, ElementOfSeq
  <2>3. ASSUME NEW i \in DOMAIN table
        PROVE  table'[i] \in Slots /\ table'[i].cmd = table[i].cmd /\ table'[i].laid
    BY <2>1, <2>2 DEF Slots
  <2> DEFINE n == Len(table)
  <2>4. n \in Nat /\ table' \in [1 .. n -> Slots] /\ DOMAIN table' = DOMAIN table
    BY <2>1, <2>2, <2>3
  <2> HIDE DEF n
  <2>5. table' \in Seq(Slots) /\ DOMAIN table' = 1 .. Len(table')
    <3>1. table' \in Seq(Slots)
      BY <2>4, SeqDef
    <3> QED BY <3>1, LenProperties
  <2>6. Len(table') = Len(table)
    BY <2>2, <2>4, <2>5, LenProperties DEF n
  <2>7. Laid'
    BY <1>1, <1>5, <2>3, <2>4 DEF Laid, LaidBut
  <2> QED BY <1>1, <1>2, <2>1, <2>3, <2>5, <2>6, <2>7, HelpKeeps
<1> QED BY <1>2, <1>4, <1>5

LEMMA TidiedKeeps ==
  ASSUME TableInv, Tidied
  PROVE  TableInv'
<1> USE TheTasks
<1> USE DEF TableInv
<1>1. /\ pc[Cli] = "pad" /\ tidy' = TRUE /\ pc' = [pc EXCEPT ![Cli] = "print"]
      /\ UNCHANGED <<table, up, missed, tokVars, mutex, todo, handle, overtaken>>
  BY DEF Tidied, Go
<1>2. missed \subseteq Commands /\ table \in Seq(Slots)
  BY DEF Shape, TypeOK
<1>3. LaidBut(missed)
  BY <1>1 DEF Laid
<1>4. Laid'
  BY <1>1, <1>3 DEF Laid, LaidBut
<1> QED BY <1>1, <1>2, <1>4, HelpKeeps

\* Each step of a task keeps the invariant.
LEMMA TableStep == TableInv /\ [Next]_vars => TableInv'
<1> SUFFICES ASSUME TableInv, [Next]_vars PROVE TableInv'
  OBVIOUS
<1>1. ASSUME NEW p \in Tasks, TaskStep(p) PROVE TableInv'
  BY <1>1, EndCopyKeeps, FirstKeeps, NextWordKeeps, LastWordKeeps DEF TaskStep, Words
<1>2. ASSUME NEW p \in Regs, Register(p) PROVE TableInv'
  BY <1>2, CheckKeeps, AcquireKeeps, CountKeeps, SearchKeeps, BackKeeps DEF Register
<1>3. ASSUME NEW l \in Lines, Type(l) PROVE TableInv'
  BY <1>3, TypeKeeps
<1>4. CASE Serve
  BY <1>4, LookupKeeps, FormatKeeps, TidiedKeeps DEF Serve
<1>5. CASE UNCHANGED vars
  BY <1>5 DEF vars, tokVars, regVars, TableInv, Shape, TypeOK, TextIs, Alone, Tokens, OwnWords,
       Halfway, Wanted, Splits, Locked, Named, Newest, Room, StarterLast, Started, Laid, LaidBut,
       Unflagged
<1> QED BY <1>1, <1>2, <1>3, <1>4, <1>5 DEF Next

\* The layout writes through NULL for commands only that are known to be missed.
LEMMA NulledStep == TableInv /\ nulled \subseteq missed /\ [Next]_vars => nulled' \subseteq missed'
<1> SUFFICES ASSUME TableInv, nulled \subseteq missed, [Next]_vars PROVE nulled' \subseteq missed'
  OBVIOUS
<1>1. ASSUME NEW p \in Tasks, TaskStep(p) PROVE UNCHANGED <<missed, nulled>>
  BY <1>1 DEF TaskStep, EndCopy, First, Words, NextWord, LastWord, stores
<1>2. ASSUME NEW p \in Regs, Register(p) PROVE missed \subseteq missed' /\ nulled' = nulled
  BY <1>2 DEF Register, Check, Acquire, Count, Search, Release, Return, Back, stores
<1>3. ASSUME NEW l \in Lines, Type(l) PROVE UNCHANGED <<missed, nulled>>
  BY <1>3 DEF Type, stores
<1>4. CASE Lookup \/ PrintHelp
  BY <1>4 DEF Lookup, PrintHelp, stores
<1>5. CASE Format
  <2>1. CASE tidy
    BY <1>5, <2>1 DEF Format
  <2>2. CASE ~tidy
    BY <1>5, <2>2 DEF Format
  <2> QED BY <2>1, <2>2
<1>6. CASE Tidied
  <2>1. /\ nulled' = {table[i].cmd : i \in {j \in DOMAIN table : ~table[j].laid}}
        /\ missed' = missed /\ pc[Cli] = "pad"
    BY <1>6 DEF Tidied
  <2>2. LaidBut(missed)
    BY <2>1 DEF TableInv, Laid
  <2> QED BY <2>1, <2>2 DEF LaidBut
<1>7. CASE UNCHANGED vars
  BY <1>7 DEF vars, stores
<1> QED BY <1>1, <1>2, <1>3, <1>4, <1>5, <1>6, <1>7 DEF Next, Serve

LEMMA TableInvariant == Spec => []TableInv
BY TableInitially, TableStep, PTL DEF Spec

-----------------------------------------------------------------------------
(* What the invariant says. *)

\* HandleNames (cli_register_command, cli.c:465-526): the table stays within its limit,
\* although the limit is looked at without the mutex; a command is counted under its
\* own words unless splits overlapped; a handle is the command's own unless another
\* task got the mutex before the handle was made.
THEOREM HandlesName == Spec => []HandleNames
<1>1. ASSUME TableInv PROVE HandleNames
  <2>1. TypeOK /\ Len(table) <= MaxCmds
    BY <1>1 DEF TableInv, Shape, Room
  <2>2. ASSUME NEW p \in Regs
        PROVE  /\ pc[p] = "count" /\ p \notin clash => toks[p] = Head(todo[p]).toks
               /\ pc[p] = "back" /\ p \notin overtaken => table[handle[p]].cmd = Head(todo[p])
    BY <1>1, <2>2, TheTasks DEF TableInv, Tokens, OwnWords, Named
  <2> QED BY <2>1, <2>2 DEF HandleNames
<1> QED BY <1>1, TableInvariant, PTL

\* HelpIsTidy (tidy_format_commands, process_cli_line and cli_register_command,
\* cli.c:111-175, 198-212, 497-521): what the help prints is laid out, and no padding is
\* written through NULL, but for commands counted meanwhile.
THEOREM HelpsTidily == Spec => []HelpIsTidy
<1>1. ASSUME TableInv, nulled \subseteq missed PROVE HelpIsTidy
  BY <1>1 DEF TableInv, Laid, LaidBut, HelpIsTidy
<1>2. Init => TableInv /\ nulled \subseteq missed
  BY TableInitially DEF Init
<1>3. (TableInv /\ nulled \subseteq missed) /\ [Next]_vars => (TableInv /\ nulled \subseteq missed)'
  BY TableStep, NulledStep
<1> QED BY <1>1, <1>2, <1>3, PTL DEF Spec

\* Of two commands of which both begin one line neither is the other's beginning.
LEMMA OneBegins ==
  ASSUME NEW c \in Commands, NEW d \in Commands, NEW t \in Seq(Pieces),
         IsPrefix(c.toks, t), IsPrefix(d.toks, t)
  PROVE  c = d
<1>1. /\ c.toks \in Seq(Pieces) /\ d.toks \in Seq(Pieces)
      /\ Len(c.toks) \in Nat /\ Len(d.toks) \in Nat
  BY CmdWords
<1>2. /\ \A i \in 1 .. Len(c.toks) : c.toks[i] = t[i]
      /\ \A i \in 1 .. Len(d.toks) : d.toks[i] = t[i]
  BY <1>1, PrefixIs
<1>3. CASE Len(c.toks) <= Len(d.toks)
  <2>1. \A i \in 1 .. Len(c.toks) : i \in 1 .. Len(d.toks)
    BY <1>1, <1>3
  <2>2. IsPrefix(c.toks, d.toks)
    BY <1>1, <1>2, <1>3, <2>1, PrefixIs
  <2> QED BY <2>2, CliTableAssumption
<1>4. CASE Len(d.toks) <= Len(c.toks)
  <2>1. \A i \in 1 .. Len(d.toks) : i \in 1 .. Len(c.toks)
    BY <1>1, <1>4
  <2>2. IsPrefix(d.toks, c.toks)
    BY <1>1, <1>2, <1>4, <2>1, PrefixIs
  <2> QED BY <2>2, CliTableAssumption
<1> QED BY <1>1, <1>3, <1>4

\* RunsWhatWasTyped (process_cli_line, cli.c:179-253): a command that is called
\* had its words typed, and a line that begins with a registered command's words and
\* has enough behind them calls that command.
THEOREM RunsTyped == Spec => []RunsWhatWasTyped
<1>1. ASSUME TableInv, Asks, Cli \notin clash, \A i \in DOMAIN table : Own(table[i])
      PROVE  /\ Called # NoCmd => IsPrefix(Called.toks, text[Cli])
             /\ \A i \in DOMAIN table :
                  LET c == table[i].cmd IN
                  IsPrefix(c.toks, text[Cli]) /\ Len(text[Cli]) >= Len(c.toks) + c.min => Called = c
  <2> DEFINE t == text[Cli]
  <2>1. toks[Cli] = t /\ t \in Seq(Pieces)
    BY <1>1, TheTasks DEF TableInv, Shape, Tokens, OwnWords, Asks
  <2>2. \A i \in DOMAIN table : table[i].toks = table[i].cmd.toks /\ table[i].cmd \in Commands
    BY <1>1 DEF Own, TableInv, Shape, TypeOK
  <2> HIDE DEF t
  <2>3. \A i \in DOMAIN table : Fits(table[i]) <=> IsPrefix(table[i].cmd.toks, t)
    BY <2>1, <2>2 DEF Fits
  <2>4. Called # NoCmd => IsPrefix(Called.toks, t)
    BY <1>1, <2>3, CalledIs
  <2>5. ASSUME NEW i \in DOMAIN table,
               IsPrefix(table[i].cmd.toks, t), Len(t) >= Len(table[i].cmd.toks) + table[i].cmd.min
        PROVE  Called = table[i].cmd
    <3> DEFINE c == table[i].cmd
    <3>1. PICK j \in DOMAIN table :
            /\ Fits(table[j])
            /\ Called = IF Len(t) - Len(table[j].toks) < table[j].cmd.min
                        THEN NoCmd ELSE table[j].cmd
      BY <1>1, <2>1, <2>3, <2>5, CalledIs
    <3>2. table[j].cmd = c
      BY <2>1, <2>2, <2>3, <2>5, <3>1, OneBegins
    <3>3. ~(Len(t) - Len(c.toks) < c.min)
      <4>1. c \in Commands /\ c.min \in Nat
        BY <2>2, CliTableAssumption
      <4>2. Len(t) \in Nat /\ Len(c.toks) \in Nat
        BY <2>1, <4>1, CmdWords, LenProperties
      <4> QED BY <2>5, <4>1, <4>2
    <3> QED BY <2>2, <3>1, <3>2, <3>3
  <2> QED BY <2>4, <2>5 DEF t
<1>2. TableInv => RunsWhatWasTyped
  BY <1>1 DEF RunsWhatWasTyped
<1> QED BY <1>2, TableInvariant, PTL
=============================================================================
