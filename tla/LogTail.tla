------------------------------- MODULE LogTail -------------------------------
(***************************************************************************)
(* The controller's own log over the API: tailFile of api/handler/logs.go  *)
(* takes the size once, reads the file backwards block by block until it   *)
(* has counted more newlines than lines were asked for, and splits what    *)
(* follows, while the logger goes on appending.  A byte is a newline or    *)
(* not; a line is the interval of its bytes.                               *)
(***************************************************************************)
EXTENDS Integers, Sequences, FiniteSets, SequencesExt

CONSTANTS
    BlockSize,  \* 8192 in the code
    Wanted,     \* numbers of lines that may be asked for
    MaxSize     \* bound: bytes of the file

VARIABLES
    file,    \* sequence of BOOLEAN: is the byte a newline?
    n,       \* lines asked for
    size,    \* the size Stat returned
    offset,  \* where the last block read begins
    found,   \* newlines counted
    pc

vars == <<file, n, size, offset, found, pc>>

Newlines(from, to) == {i \in from..to : file[i]}

Init ==
    /\ file \in UNION {[1..k -> BOOLEAN] : k \in 0..MaxSize}
    /\ n \in Wanted /\ size = 0 /\ offset = 0 /\ found = 0 /\ pc = "stat"

Stat ==
    /\ pc = "stat"
    /\ size' = Len(file) /\ offset' = Len(file)
    /\ pc' = IF Len(file) = 0 THEN "done" ELSE "block"
    /\ UNCHANGED <<file, n, found>>

(* The newline before the first line wanted, if this block has it: the one  *)
(* with as many newlines of the block after it as are still missing.        *)
Cut(first, last) ==
    {i \in Newlines(first, last) : found + Cardinality(Newlines(i, last)) = n + 1}

(* Mutant of Block: one newline fewer is enough. *)
BlockShort ==
    /\ pc = "block" /\ offset > 0 /\ found < n
    /\ LET start == IF BlockSize > offset THEN 0 ELSE offset - BlockSize
           cut == {i \in Newlines(start + 1, offset) :
                        found + Cardinality(Newlines(i, offset)) = n}
       IN  /\ found' = found + Cardinality(Newlines(start + 1, offset))
           /\ offset' = IF cut = {} THEN start ELSE CHOOSE i \in cut : TRUE
    /\ pc' = IF found' >= n THEN "split" ELSE "block"
    /\ UNCHANGED <<file, n, size>>

(* One block, read backwards. *)
Block ==
    /\ pc = "block" /\ offset > 0 /\ found <= n
    /\ LET start == IF BlockSize > offset THEN 0 ELSE offset - BlockSize
           cut == Cut(start + 1, offset)
       IN  IF cut = {}
           THEN /\ found' = found + Cardinality(Newlines(start + 1, offset))
                /\ offset' = start /\ pc' = "block"
           ELSE /\ found' = n + 1
                /\ offset' = CHOOSE i \in cut : TRUE
                /\ pc' = "split"
    /\ UNCHANGED <<file, n, size>>

StartOfFile ==
    /\ pc = "block" /\ offset = 0 /\ pc' = "split"
    /\ UNCHANGED <<file, n, size, offset, found>>

(* From the offset to the size that was taken; Result is the answer. *)
Split ==
    /\ pc = "split" /\ pc' = "done"
    /\ UNCHANGED <<file, n, size, offset, found>>

Append1 ==
    /\ Len(file) < MaxSize
    /\ \E b \in BOOLEAN : file' = Append(file, b)
    /\ UNCHANGED <<n, size, offset, found, pc>>

Next == Stat \/ Block \/ StartOfFile \/ Split \/ Append1

Spec == Init /\ [][Next]_vars

-----------------------------------------------------------------------------
(* The lines between two places: one per newline, and what follows the      *)
(* last one if anything does.                                               *)
LinesFrom(from, to) ==
    LET ends == Newlines(from + 1, to)
        stop == ends \cup (IF to > from /\ ~file[to] THEN {to + 1} ELSE {})
        start(e) == LET before == {i \in ends : i < e} IN
                    IF before = {} THEN from + 1 ELSE 1 + CHOOSE i \in before : \A j \in before : j <= i
    IN  {<<start(e), e - 1>> : e \in stop}

Result == LinesFrom(offset, size)
Complete(line) == line[2] < size /\ file[line[2] + 1]
LastLines(lines, k) == {l \in lines : Cardinality({m \in lines : m[2] >= l[2]}) <= k}

(* The answer is the end of the file as it was when its size was taken: of  *)
(* the lines that had been finished, the last n, whatever the block         *)
(* boundaries cut and however much was appended meanwhile, and besides them *)
(* only the line being written (tailFile).                                  *)
TailIsLast ==
    pc = "done" =>
        LET finished == {l \in LinesFrom(0, size) : Complete(l)} IN
        /\ {l \in Result : Complete(l)} = LastLines(finished, n)
        /\ Cardinality(Result) <= n + 1
=============================================================================
