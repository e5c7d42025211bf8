------------------------------ MODULE FileLines ------------------------------
(***************************************************************************)
(* FilesystemService.readFile from its split of the file into lines on,    *)
(* with lines by their numbers: what range is read for which is asked.     *)
(***************************************************************************)
EXTENDS Integers

CONSTANTS Unset,      \* a field that is not given
          MaxLines   \* bound: lines of a file

ASSUME LinesAssumption == Unset \notin Int /\ MaxLines \in Nat

Ranges ==
  [total : 1..MaxLines, startLine : {Unset} \cup 0 .. MaxLines + 1,
   endLine : {Unset} \cup -(MaxLines + 1) .. MaxLines + 1]

Least(m, n) == IF m < n THEN m ELSE n

\* Mutation: the line numbers are taken as offsets.
MutSlice(first, last, total) ==
  {n \in 1..total : n > first /\ n <= IF last < 0 THEN total + last ELSE last}

\* lines.slice(first - 1, last): a negative end counts from the back
Slice(first, last, total) ==
  {n \in 1..total : n >= first /\ n <= IF last < 0 THEN total + last ELSE last}

Refused(r) ==
  r.startLine # Unset /\ (r.startLine < 1 \/ (r.endLine # Unset /\ r.endLine < r.startLine))

\* an endLine of 0 is one that is not given
ReadLines(r) ==
  LET first == IF r.startLine = Unset THEN 1 ELSE r.startLine
      last  == IF r.endLine \in {Unset, 0} THEN r.total ELSE Least(r.total, r.endLine)
  IN IF Refused(r) THEN [ok |-> FALSE, lines |-> {}, startLine |-> 1, endLine |-> 0]
     ELSE [ok |-> TRUE, lines |-> Slice(first, last, r.total), startLine |-> first, endLine |-> last]

(***************************************************************************)
(* A range is refused or read whole: the lines are those of the file from  *)
(* startLine to endLine, both included, and those that are reported, at    *)
(* either end of the file and past it.  A negative endLine is refused with *)
(* a startLine; without one it reads all but that many of the last lines,  *)
(* and reports the negative endLine and not the last line it read.         *)
(***************************************************************************)
LinesFit(r, read) ==
  read.ok =>
    /\ r.startLine # Unset => r.startLine >= 1
    /\ r.endLine # Unset /\ r.endLine > 0 =>
         read.lines = {n \in 1..r.total : n <= r.endLine /\ (r.startLine # Unset => n >= r.startLine)}
    /\ IF r.endLine # Unset /\ r.endLine < 0
         THEN /\ r.startLine = Unset /\ read.endLine = r.endLine
              /\ read.lines = {n \in 1..r.total : n <= r.total + r.endLine}
         ELSE read.lines = {n \in 1..r.total : n >= read.startLine /\ n <= read.endLine}
=============================================================================
