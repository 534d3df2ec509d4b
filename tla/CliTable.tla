------------------------------- MODULE CliTable -------------------------------
(***************************************************************************)
(* The table of commands of the M4 core's command line: two tasks register *)
(* commands under a mutex while the command line's task splits what was    *)
(* typed and looks it up without it. Both sides split text in one static   *)
(* buffer with strtok, whose position is static too. The start-up task     *)
(* registers first; the PTP task does once its command was typed.          *)
(* A text is a sequence of words. The slot behind the last counted one is  *)
(* seen by the mutex's holder only: it is kept in toks until it is counted.*)
(***************************************************************************)
EXTENDS Integers, FiniteSets, SequencesExt

CONSTANTS
  Startup, Ptp, Cli,  \* the start-up task, the PTP task, the command line's task
  Programs,   \* per registering task, the sequences of commands it may register
  Lines,      \* what may be typed, as words
  Starter,    \* the command whose callback starts the PTP task
  MaxCmds,    \* CLI_MAX_CMD_CNT
  MaxLines,   \* bound: lines typed
  Torn        \* a piece of text that is no word

Regs == {Startup, Ptp}
Tasks == Regs \cup {Cli}
Commands == UNION {ToSet(s) : s \in UNION {Programs[p] : p \in Regs}}
NoCmd == [toks |-> <<>>, min |-> 0]
Nobody == "nobody"
Mixed == <<>>   \* lineCpy while or after two copies overlap

AllWords == UNION {ToSet(t) : t \in {c.toks : c \in Commands} \cup Lines}

\* No command is registered twice under different words, none begins another, and
\* the one that starts the PTP task is the start-up task's last (cmds.c:90-92,
\* timersync.c:182).
ASSUME CliTableAssumption ==
  /\ Startup # Ptp /\ Startup # Cli /\ Ptp # Cli /\ Nobody \notin Tasks
  /\ MaxCmds \in Nat /\ MaxLines \in Nat
  /\ \A p \in Regs : Programs[p] \subseteq Seq(Commands)
  /\ \A c \in Commands : c.toks \in Seq(AllWords) \ {<<>>} /\ c.min \in Nat
  /\ \A c, d \in Commands : IsPrefix(c.toks, d.toks) => c = d
  /\ Lines \subseteq Seq(AllWords) \ {<<>>}
  /\ Starter \in Commands
  /\ \A s \in Programs[Startup] : \A i \in 1 .. Len(s) - 1 : s[i] # Starter

VARIABLES
  table,      \* spCliCmds below sCliCmdCnt; laid: the hint and padding are set
  tidy,       \* sCmdsTidy
  mutex,      \* the holder of modifyMtx
  todo,       \* what each registering task will register
  up,         \* the PTP task runs
  pc, text, toks,         \* per task: where it is, what it splits, the words so far
  lineCpy, writer, cursor, \* the static copy, who copies, strtok's place in it (0: astray)
  handle,     \* what cli_register_command returns, -1 otherwise
  typed,      \* bound: lines typed
  clash,      \* history: tasks whose last split overlapped another one
  overtaken,  \* history: tasks that were overtaken between release and return
  missed,     \* history: commands counted while a help text was made
  nulled,     \* history: commands whose padding the last layout wrote through NULL
  fault       \* such a write was a fault: the core does not go on

tokVars == <<text, toks, lineCpy, writer, cursor, clash>>
regVars == <<tidy, mutex, todo, handle, overtaken>>
stores  == <<nulled, fault>>
vars == <<table, up, pc, typed, missed, tokVars, regVars, stores>>

Init ==
  /\ table = <<>> /\ tidy = FALSE /\ mutex = Nobody
  /\ todo \in {f \in [Regs -> UNION {Programs[p] : p \in Regs}] :
                 \A p \in Regs : f[p] \in Programs[p]}
  /\ up = FALSE
  /\ pc = [p \in Tasks |-> "idle"]
  /\ text = [p \in Tasks |-> <<>>] /\ toks = text
  /\ lineCpy = Mixed /\ writer = Nobody /\ cursor = 0
  /\ handle = [p \in Regs |-> -1]
  /\ typed = 0
  /\ clash = {} /\ overtaken = {} /\ missed = {}
  /\ nulled = {} /\ fault = FALSE

Go(p, where) == pc' = [pc EXCEPT ![p] = where]

-----------------------------------------------------------------------------
(* tokenize_cli_line. *)

Splits(p) == pc[p] \in {"copy", "first", "next"}
Others(p) == {q \in Tasks \ {p} : Splits(q)}

\* The strcpy of t starts; the text is whole when it ends with no other in between.
StartCopy(p, t) ==
  /\ text' = [text EXCEPT ![p] = t] /\ toks' = [toks EXCEPT ![p] = <<>>]
  /\ lineCpy' = Mixed /\ writer' = p /\ cursor' = 0
  /\ clash' = IF Others(p) = {} THEN clash \ {p} ELSE clash \cup {p} \cup Others(p)

EndCopy(p) ==
  /\ pc[p] = "copy"
  /\ lineCpy' = IF writer = p THEN text[p] ELSE Mixed
  /\ writer' = Nobody /\ cursor' = 0
  /\ Go(p, "first")
  /\ UNCHANGED <<table, up, typed, missed, text, toks, clash, regVars, stores>>

\* strtok(pLineCpy): a word that was cut off before ends the text.
First(p) ==
  /\ pc[p] = "first"
  /\ IF lineCpy = Mixed
     THEN toks' = [toks EXCEPT ![p] = <<Torn>>] /\ UNCHANGED cursor
     ELSE /\ toks' = [toks EXCEPT ![p] = <<Head(lineCpy)>>]
          /\ cursor' = IF cursor = 0 THEN 1 ELSE Len(lineCpy)
  /\ Go(p, "next")
  /\ UNCHANGED <<table, up, typed, missed, text, lineCpy, writer, clash, regVars, stores>>

\* How many words the caller asks for: TOK_ARR_LEN is more than a line has.
Wanted(p) == IF p = Cli THEN Len(text[p]) + 1 ELSE Len(Head(todo[p]).toks)

\* strtok(NULL): the word behind the cursor. In a text that it was not set in it
\* finds a piece of a word.
NextWord(p, most) ==
  /\ pc[p] = "next" /\ Len(toks[p]) < most
  /\ \/ /\ cursor # 0 /\ cursor < Len(lineCpy)
        /\ toks' = [toks EXCEPT ![p] = Append(@, lineCpy[cursor + 1])]
        /\ cursor' = cursor + 1
     \/ /\ cursor = 0
        /\ toks' = [toks EXCEPT ![p] = Append(@, Torn)]
        /\ UNCHANGED cursor
  /\ UNCHANGED <<table, up, pc, typed, missed, text, lineCpy, writer, clash, regVars, stores>>

\* All words are fetched, or strtok finds none.
LastWord(p, most) ==
  /\ pc[p] = "next"
  /\ Len(toks[p]) = most \/ cursor \in {0, Len(lineCpy)}
  /\ Go(p, IF p = Cli THEN "lookup" ELSE "count")
  /\ UNCHANGED <<table, up, typed, missed, tokVars, regVars, stores>>

\* Mutant: one word too many is fetched.
OneWordMore(p) == NextWord(p, Wanted(p) + 1) \/ LastWord(p, Wanted(p) + 1)

Words(p) == NextWord(p, Wanted(p)) \/ LastWord(p, Wanted(p))

\* The caller is done with its words.
Forget(p) ==
  /\ text' = [text EXCEPT ![p] = <<>>] /\ toks' = [toks EXCEPT ![p] = <<>>]
  /\ clash' = clash \ {p}
  /\ UNCHANGED <<lineCpy, writer, cursor>>

-----------------------------------------------------------------------------
(* cli_register_command. The code counts slots from 0, table from 1. *)

\* The limit is looked at without the mutex; a full table returns -1.
Check(p) ==
  /\ pc[p] = "idle" /\ todo[p] # <<>> /\ (p = Ptp => up)
  /\ IF Len(table) = MaxCmds
     THEN todo' = [todo EXCEPT ![p] = Tail(@)] /\ UNCHANGED pc
     ELSE Go(p, "acquire") /\ UNCHANGED todo
  /\ UNCHANGED <<table, up, typed, missed, tokVars, tidy, mutex, handle, overtaken, stores>>

\* The help text goes on behind the command's words.
Acquire(p) ==
  /\ pc[p] = "acquire" /\ mutex = Nobody
  /\ mutex' = p
  /\ StartCopy(p, Append(Head(todo[p]).toks, "hint"))
  /\ Go(p, "copy")
  /\ UNCHANGED <<table, up, typed, missed, tidy, todo, handle, overtaken, stores>>

\* The last fields are stored (pHint = NULL) and the slot is counted.
Count(p) ==
  /\ pc[p] = "count"
  /\ table' = Append(table, [toks |-> toks[p], cmd |-> Head(todo[p]), laid |-> FALSE])
  /\ missed' = IF pc[Cli] \in {"pad", "print"} THEN missed \cup {Head(todo[p])} ELSE missed
  /\ overtaken' = overtaken \cup {q \in Regs \ {p} : pc[q] = "return"}
  /\ Forget(p)
  /\ Go(p, "search")
  /\ UNCHANGED <<up, typed, tidy, mutex, todo, handle, stores>>

\* The words of the new slot against those of the earlier slots.
Duplicate(p) ==
  \E i \in 1 .. Len(table) - 1 : table[i].toks = table[Len(table)].toks

\* Mutants: the commands stay marked as tidy; the mutex is not given back.
SearchKeepsTidy(p) ==
  /\ pc[p] = "search"
  /\ IF Duplicate(p)
     THEN Go(p, "stuck") /\ UNCHANGED tidy
     ELSE Go(p, "release") /\ UNCHANGED tidy
  /\ UNCHANGED <<table, up, typed, missed, tokVars, mutex, todo, handle, overtaken, stores>>

SearchKeepsMutex(p) ==
  /\ pc[p] = "search"
  /\ IF Duplicate(p)
     THEN Go(p, "stuck") /\ UNCHANGED tidy
     ELSE Go(p, "return") /\ tidy' = FALSE
  /\ UNCHANGED <<table, up, typed, missed, tokVars, mutex, todo, handle, overtaken, stores>>

\* A duplicate is removed by cli_remove_command, which waits for the mutex that
\* its caller holds: what it does behind that line is never reached.
Search(p) ==
  /\ pc[p] = "search"
  /\ IF Duplicate(p)
     THEN Go(p, "stuck") /\ UNCHANGED tidy
     ELSE Go(p, "release") /\ tidy' = FALSE
  /\ UNCHANGED <<table, up, typed, missed, tokVars, mutex, todo, handle, overtaken, stores>>

Release(p) ==
  /\ pc[p] = "release"
  /\ mutex' = Nobody
  /\ Go(p, "return")
  /\ UNCHANGED <<table, up, typed, missed, tokVars, tidy, todo, handle, overtaken, stores>>

Return(p) ==
  /\ pc[p] = "return"
  /\ handle' = [handle EXCEPT ![p] = Len(table)]
  /\ Go(p, "back")
  /\ UNCHANGED <<table, up, typed, missed, tokVars, tidy, mutex, todo, overtaken, stores>>

\* The caller, which does not keep the handle, goes on to its next registration.
Back(p) ==
  /\ pc[p] = "back"
  /\ todo' = [todo EXCEPT ![p] = Tail(@)]
  /\ handle' = [handle EXCEPT ![p] = -1]
  /\ overtaken' = overtaken \ {p}
  /\ Go(p, "idle")
  /\ UNCHANGED <<table, up, typed, missed, tokVars, tidy, mutex, stores>>

-----------------------------------------------------------------------------
(* process_cli_line. *)

\* get_line has returned a line that is not blank.
Type(l) ==
  /\ pc[Cli] = "idle" /\ typed < MaxLines
  /\ typed' = typed + 1
  /\ StartCopy(Cli, l)
  /\ Go(Cli, "copy")
  /\ UNCHANGED <<table, up, missed, regVars, stores>>

\* Mutant: the first words are compared only.
FitsByFirstWord(slot) == slot.toks[1] = toks[Cli][1]

\* The slot's words begin the line.
Fits(slot) == IsPrefix(slot.toks, toks[Cli])

\* The command to call: the first slot that fits, if enough words are left for its
\* arguments. Counted slots do not change, so the scan is one step.
Called ==
  LET found == {i \in DOMAIN table : Fits(table[i])}
      slot  == table[CHOOSE i \in found : \A j \in found : i <= j]
  IN  IF found = {} \/ Len(toks[Cli]) - Len(slot.toks) < slot.cmd.min
      THEN NoCmd ELSE slot.cmd

Asks == pc[Cli] = "lookup" /\ toks[Cli][1] # "help"

Lookup ==
  /\ Asks
  /\ up' = (up \/ Called = Starter)
  /\ Forget(Cli)
  /\ Go(Cli, "idle")
  /\ UNCHANGED <<table, typed, missed, regVars, stores>>

\* Counted, but sCmdsTidy is not taken back yet.
Unflagged == {Head(todo[p]) : p \in {q \in Regs : pc[q] \in {"search", "stuck"}}}

\* tidy_format_commands: nothing to do, or its first loop finds the hint and the
\* place for the padding of every slot counted by now.
Format ==
  /\ pc[Cli] = "lookup" /\ toks[Cli][1] = "help"
  /\ IF tidy
     THEN /\ missed' = missed \cup Unflagged
          /\ Go(Cli, "print")
          /\ UNCHANGED <<table, nulled>>
     ELSE /\ table' = [i \in DOMAIN table |-> [table[i] EXCEPT !.laid = TRUE]]
          /\ missed' = {} /\ nulled' = {}
          /\ Go(Cli, "pad")
  /\ UNCHANGED <<up, typed, tokVars, regVars, fault>>

\* Its second loop fills in the padding of every slot counted by then, through a NULL
\* pPadding if the first did not see the slot; the commands are tidy. The write
\* has no effect on the table, or it is a fault.
Tidied ==
  /\ pc[Cli] = "pad"
  /\ nulled' = {table[i].cmd : i \in {j \in DOMAIN table : ~table[j].laid}}
  /\ fault' \in {FALSE, nulled' # {}}
  /\ tidy' = TRUE
  /\ Go(Cli, "print")
  /\ UNCHANGED <<table, up, typed, missed, tokVars, mutex, todo, handle, overtaken>>

PrintHelp ==
  /\ pc[Cli] = "print"
  /\ Forget(Cli)
  /\ Go(Cli, "idle")
  /\ UNCHANGED <<table, up, typed, missed, regVars, stores>>

-----------------------------------------------------------------------------
TaskStep(p) == EndCopy(p) \/ First(p) \/ Words(p)

Register(p) ==
  \/ Check(p) \/ Acquire(p) \/ Count(p) \/ Search(p) \/ Release(p) \/ Return(p) \/ Back(p)

Serve == Lookup \/ Format \/ Tidied \/ PrintHelp

Next ==
  /\ ~fault
  /\ \/ \E p \in Tasks : TaskStep(p)
     \/ \E p \in Regs : Register(p)
     \/ \E l \in Lines : Type(l)
     \/ Serve

(* Tasks of one priority share the time; nobody is assumed to type. *)
Spec ==
  /\ Init /\ [][Next]_vars
  /\ \A p \in Regs : WF_vars(~fault /\ (TaskStep(p) \/ Register(p)))
  /\ WF_vars(~fault /\ (TaskStep(Cli) \/ Serve))

-----------------------------------------------------------------------------
(* Properties. *)

TypeOK ==
  /\ tidy \in BOOLEAN /\ up \in BOOLEAN /\ mutex \in Regs \cup {Nobody}
  /\ \A i \in DOMAIN table : table[i].cmd \in Commands /\ table[i].laid \in BOOLEAN
  /\ \A p \in Regs : handle[p] \in -1 .. Len(table)
  /\ clash \subseteq Tasks /\ overtaken \subseteq Regs
  /\ missed \subseteq Commands

\* A slot holds its command's own words.
Own(slot) == slot.toks = slot.cmd.toks

\* The table stays within its limit, a command is counted under its own words
\* unless another task split a text at the same time (cli.c:82), and the handle
\* a registration returns is the command's unless another one got the mutex
\* between the release and the return (cli.c:522-526).
HandleNames ==
  /\ TypeOK
  /\ Len(table) <= MaxCmds
  /\ \A p \in Regs :
       /\ pc[p] = "count" /\ p \notin clash => toks[p] = Head(todo[p]).toks
       /\ pc[p] = "back" /\ p \notin overtaken => table[handle[p]].cmd = Head(todo[p])

\* A command that is called is one whose words were typed, and a line that begins
\* with the words of a registered command calls it, unless splits overlap now or
\* did when a command was registered.
RunsWhatWasTyped ==
  Asks /\ Cli \notin clash /\ (\A i \in DOMAIN table : Own(table[i])) =>
    /\ Called # NoCmd => IsPrefix(Called.toks, text[Cli])
    /\ \A i \in DOMAIN table :
         LET c == table[i].cmd IN
         IsPrefix(c.toks, text[Cli]) /\ Len(text[Cli]) >= Len(c.toks) + c.min => Called = c

\* What the help prints is laid out, and the layout writes no padding through NULL,
\* except for a command that was counted while the help was laid out or printed
\* (cli.c:497), or before the flag was taken back (cli.c:521). One that falls between
\* the two loops of the layout (cli.c:118, :153) is written to through NULL, and one that
\* falls between the loops and the flag (cli.c:171) is printed without its hint until
\* something else is registered.
HelpIsTidy ==
  /\ nulled \subseteq missed
  /\ pc[Cli] = "print" =>
       \A i \in DOMAIN table : table[i].laid \/ table[i].cmd \in missed

\* A registration comes to its end, unless a command was registered twice: then
\* its task, and every task that registers later, waits forever (cli.c:517); or unless
\* the help's write through NULL stops the core.
OnlyDuplicatesHang ==
  \A p \in Regs : pc[p] = "acquire" ~>
    \/ pc[p] = "idle"
    \/ fault
    \/ \E q \in Regs : pc[q] = "stuck" /\
         \E i \in 1 .. Len(table) - 1 :
           Own(table[i]) /\ Own(table[Len(table)]) => table[i].cmd = table[Len(table)].cmd
=============================================================================
