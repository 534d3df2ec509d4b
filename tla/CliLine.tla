-------------------------------- MODULE CliLine --------------------------------
(***************************************************************************)
(* The line editor of the M4 core's command line (get_line in cli.c) and   *)
(* its history. A terminal sends keys, an arrow or delete key as an escape *)
(* sequence; the editor sees bytes, one at a time, and keeps its place in  *)
(* a sequence between them. Behind a lone escape and a [ letters are taken *)
(* for a sequence's parameters, however many: from the fifth on they are   *)
(* stored past escParam[4], in the other locals of get_line. A text is a   *)
(* sequence of letters; the letter Hist stands for the text of the command *)
(* that prints the history.                                                *)
(***************************************************************************)
EXTENDS Integers, Sequences, FiniteSets

CONSTANTS
  LineLen,   \* CLI_LINEBUF_LENGTH
  Depth,     \* HISTORY_STACK_DEPTH
  Letters,   \* what can be typed, next to the blank
  Hist,      \* CLI_HISTORY_CMD
  MaxEnded   \* bound: lines ended

ASSUME CliAssumption ==
  /\ LineLen \in Nat \ {0} /\ Depth \in Nat \ {0} /\ MaxEnded \in Nat
  /\ Hist \in Letters
  /\ Letters \cap {"ESC", "bs", "enter", "esc", "up", "down", "del"} = {}

VARIABLES
  rest,                       \* the bytes of the key that are still to come
  pStr,                       \* the line buffer up to *pLen
  escString, escPos, escParam, noMod, histIdx,  \* as in get_line; escParam[0]
  overrun,                    \* history: this line stored past escParam
  hist,                       \* sppCmdHistStk up to sHistStkLevel, newest first
  lines,                      \* history: the lines given to put_onto_cmd_hist_stk
  ended,                      \* history: lines ended
  arrow, before, edited, plain, erased  \* history: see Press

escape  == <<escString, escPos, escParam>>
browse  == <<noMod, histIdx, overrun>>
stack   == <<hist, lines, ended>>
pressed == <<arrow, before, edited, plain, erased>>
lineVars == <<rest, pStr, escape, browse, stack, pressed>>

Blank == "blank"
Texts == Letters \cup {Blank}

\* The bytes a key sends. "3" stands for the parameter of a key such as delete.
Keys == [k \in Texts \cup {"bs", "enter", "esc", "up", "down", "del"} |->
  CASE k = "up"   -> <<"ESC", "[", "A">>
    [] k = "down" -> <<"ESC", "[", "B">>
    [] k = "del"  -> <<"ESC", "[", "3", "~">>
    [] k = "esc"  -> <<"ESC">>
    [] OTHER      -> <<k>>]

\* A new line: the locals of get_line, escParam not among those it sets.
NewLine ==
  /\ pStr' = <<>> /\ escString' = FALSE /\ escPos' = 0
  /\ escParam' \in {"A", "B", "3"}
  /\ noMod' = TRUE /\ histIdx' = -1 /\ overrun' = FALSE

LineInit ==
  /\ rest = <<>> /\ pStr = <<>>
  /\ escString = FALSE /\ escPos = 0 /\ escParam \in {"A", "B", "3"}
  /\ noMod = TRUE /\ histIdx = -1 /\ overrun = FALSE
  /\ hist = <<>> /\ lines = <<>> /\ ended = 0
  /\ arrow = FALSE /\ before = <<>> /\ edited = <<>> /\ plain = TRUE /\ erased = FALSE

-----------------------------------------------------------------------------
(* The terminal. *)

Chopped(s) == IF s = <<>> THEN s ELSE SubSeq(s, 1, Len(s) - 1)

\* The history variables follow the keys: the text a user without arrow keys means
\* (plain: no arrow or lone escape so far), and whether he erased anything (a lone
\* escape swallows the next key).
Press(k) ==
  /\ rest = <<>> /\ ended < MaxEnded
  /\ rest' = Keys[k]
  /\ plain' = (plain /\ k \notin {"esc", "up", "down"})
  /\ edited' = IF ~plain' THEN <<>>
               ELSE IF k \in Texts THEN Append(edited, k)
               ELSE IF k = "bs" THEN Chopped(edited) ELSE edited
  /\ arrow' = (k \in {"up", "down"})
  /\ before' = IF arrow' THEN pStr ELSE <<>>
  /\ erased' = (erased \/ (k = "bs" /\ ~escString))
  /\ UNCHANGED <<pStr, escape, browse, stack>>

-----------------------------------------------------------------------------
(* The end of a line. *)

\* The line without the blanks at its ends.
Trimmed(s) ==
  LET Solid == {i \in 1 .. Len(s) : s[i] # Blank} IN
  IF Solid = {} THEN <<>>
  ELSE SubSeq(s, CHOOSE i \in Solid : \A j \in Solid : i <= j,
                 CHOOSE i \in Solid : \A j \in Solid : i >= j)

\* Mutant: the depth is forgotten.
PushedDeep(s) == IF s = <<>> \/ (hist # <<>> /\ s = hist[1]) THEN hist ELSE <<s>> \o hist

\* put_onto_cmd_hist_stk: no empty line, and not the newest again.
Pushed(s) ==
  IF s = <<>> \/ (hist # <<>> /\ s = hist[1]) THEN hist
  ELSE SubSeq(<<s>> \o hist, 1, IF Len(hist) < Depth THEN Len(hist) + 1 ELSE Depth)

\* The line s is complete: it goes to the history and to process_cli_line, or it
\* prints the history; either way the next line begins.
EndLine(s) ==
  /\ NewLine
  /\ IF Trimmed(s) = <<Hist>> THEN UNCHANGED <<hist, lines>>
     ELSE hist' = Pushed(Trimmed(s)) /\ lines' = Append(lines, Trimmed(s))
  /\ ended' = ended + 1
  /\ arrow' = FALSE /\ before' = <<>> /\ edited' = <<>> /\ plain' = TRUE /\ erased' = FALSE

-----------------------------------------------------------------------------
(* get_line, one byte. *)

ch == Head(rest)

NextByte == rest # <<>> /\ rest' = Tail(rest)

Escape ==
  /\ NextByte /\ ch = "ESC"
  /\ escString' = TRUE /\ escPos' = 0
  /\ UNCHANGED <<pStr, escParam, browse, stack, pressed>>

Char ==
  /\ NextByte /\ ~escString /\ ch \notin {"ESC", "bs", "enter"}
  /\ LET s == Append(pStr, ch) IN
     IF Len(s) >= LineLen THEN EndLine(s)
     ELSE pStr' = s /\ UNCHANGED <<escape, browse, stack, pressed>>

\* Mutant: nobody knows that the line was edited.
BackspaceNoMark ==
  /\ NextByte /\ ~escString /\ ch = "bs"
  /\ pStr' = Chopped(pStr)
  /\ UNCHANGED <<escape, browse, stack, pressed>>

Backspace ==
  /\ NextByte /\ ~escString /\ ch = "bs"
  /\ pStr' = Chopped(pStr)
  /\ noMod' = FALSE
  /\ UNCHANGED <<escape, histIdx, overrun, stack, pressed>>

(* Also inside an escape sequence the byte of the enter key ends the line. *)
Enter ==
  /\ NextByte /\ ch = "enter"
  /\ EndLine(pStr)

(* The first byte after ESC is [, or the sequence is none. *)
EscFirst ==
  /\ NextByte /\ escString /\ escPos = 0 /\ ch \notin {"ESC", "enter"}
  /\ escPos' = 1
  /\ escString' = (ch = "[")
  /\ UNCHANGED <<pStr, escParam, browse, stack, pressed>>

\* Mutant: the last byte of a key such as delete does not end the sequence.
EndingNoTilde == {"A", "B"}

\* The bytes that end a sequence.
Ending == {"A", "B", "~"}

\* escPos when escParam is full, and for every later parameter.
Full == 5

\* What a letter is as a histIdx: past the stack.
Past == Depth + 1

\* escParam[escPos - 1] = c, after the sequence has left str and idx in escString and
\* histIdx: past the array it falls on one of the locals behind, or on none of these.
Store(str, idx) ==
  IF escPos < Full
  THEN /\ escParam' = IF escPos = 1 THEN ch ELSE escParam
       /\ escString' = str /\ histIdx' = idx /\ UNCHANGED <<noMod, overrun>>
  ELSE /\ escString' \in {str, TRUE} /\ histIdx' \in {idx, Past} /\ noMod' \in {noMod, TRUE}
       /\ overrun' = TRUE /\ UNCHANGED escParam

(* A parameter. *)
EscMore ==
  /\ NextByte /\ escString /\ escPos >= 1 /\ ch \notin {"ESC", "enter"} \cup Ending
  /\ Store(TRUE, histIdx)
  /\ escPos' = IF escPos < Full THEN escPos + 1 ELSE Full
  /\ UNCHANGED <<pStr, stack, pressed>>

\* The histIdx of the next older and the next newer line.
Older == IF histIdx + 1 < Len(hist) - 1 THEN histIdx + 1 ELSE Len(hist) - 1

Newer == IF histIdx > 0 THEN histIdx - 1 ELSE -1

\* What may be found in the stack at an index: past its lines, anything.
Line(i) ==
  IF i < Len(hist) THEN {hist[i + 1]} ELSE UNION {[1 .. n -> Texts] : n \in 0 .. LineLen}

(* The end of a sequence: what it does is looked up in escParam[0], which is  *)
(* stored only after that; an arrow without a line to recall blanks the       *)
(* screen and keeps the buffer.                                               *)
EscLast ==
  /\ NextByte /\ escString /\ escPos >= 1 /\ ch \in Ending
  /\ LET moves == escParam \in {"A", "B"} /\ noMod
         idx == IF ~moves THEN histIdx ELSE IF escParam = "A" THEN Older ELSE Newer
     IN \E s \in IF moves /\ idx > -1 THEN Line(idx) ELSE {pStr} :
          IF Len(s) >= LineLen THEN EndLine(s)
          ELSE /\ pStr' = s
               /\ IF ch = "~"
                  THEN escString' = FALSE /\ histIdx' = idx /\ UNCHANGED <<escParam, noMod, overrun>>
                  ELSE Store(FALSE, idx)
               /\ escPos' = IF escString' THEN escPos ELSE 0
               /\ UNCHANGED <<stack, pressed>>

Byte == Escape \/ Char \/ Backspace \/ Enter \/ EscFirst \/ EscMore \/ EscLast

LineNext == (\E k \in DOMAIN Keys : Press(k)) \/ Byte

LineSpec == LineInit /\ [][LineNext]_lineVars

-----------------------------------------------------------------------------
(* Properties. *)

\* Type invariant: the browsed line exists, unless histIdx was overwritten, and the buffer never holds a full line
\* between two bytes.
LineTypeOK ==
  /\ pStr \in Seq(Texts) /\ Len(pStr) < LineLen
  /\ escString \in BOOLEAN /\ escPos \in 0 .. Full /\ overrun \in BOOLEAN
  /\ escParam \in Texts \cup {"A", "B", "3", "[", "bs"}
  /\ noMod \in BOOLEAN /\ histIdx \in -1 .. (IF overrun THEN Past ELSE Len(hist) - 1)
  /\ hist \in Seq(Seq(Texts)) /\ Len(hist) <= Depth /\ ended \in 0 .. MaxEnded

\* The lines that the history keeps, by their place: not empty, and not what the
\* last line that was not empty was.
Fresh == {i \in DOMAIN lines :
  /\ lines[i] # <<>>
  /\ \A j \in 1 .. i - 1 : lines[j] = lines[i] =>
       \E k \in j + 1 .. i - 1 : lines[k] \notin {<<>>, lines[i]}}

\* The types hold, and the stack holds the last lines that were not empty, newest first, a line that
\* was given several times in a row once (cli.c:267-293).
HistoryIsRecent ==
  /\ LineTypeOK
  /\ Len(hist) = IF Cardinality(Fresh) < Depth THEN Cardinality(Fresh) ELSE Depth
  /\ \A k \in 1 .. Len(hist) : \E i \in Fresh :
       Cardinality({j \in Fresh : j > i}) = k - 1 /\ hist[k] = lines[i]

\* Between two keys the buffer is what the keys mean: letters and erasures, no
\* byte of a function key's sequence in it and none lost to one; and no such sequence
\* is longer than escParam (cli.c:332-406).
BufferIsEdited == rest = <<>> /\ plain => pStr = edited /\ ~overrun

\* An arrow key recalls a whole line of the history or does nothing, and it does
\* nothing to a line in which something was erased (cli.c:372); only a sequence of five
\* parameters, typed behind a lone escape in the same line, can break this: it overwrites
\* noMod and histIdx (cli.c:399).
ArrowRecalls ==
  rest = <<>> /\ arrow /\ pStr # before =>
    \/ ~erased /\ \E k \in 1 .. Len(hist) : pStr = hist[k]
    \/ overrun
=============================================================================
