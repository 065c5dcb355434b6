--------------------------------- MODULE Vdf ---------------------------------
(***************************************************************************)
(* The reader of Valve's text format (steam/vdf.go), through which every   *)
(* depot and manifest id a download starts from has to pass.  The code's   *)
(* recursion is a stack here, one step an iteration of parseChildren.  A   *)
(* text is a sequence of classes of characters.  The reference is Written: *)
(* the texts a tree may be written as, with and without quotes and space.  *)
(***************************************************************************)
EXTENDS Naturals, Sequences, SequencesExt, FiniteSets

CONSTANTS
    Chars,      \* quote, open, close, space, slash (\) and letters
    MaxText,    \* bound: length of the arbitrary texts
    Strings     \* keys and values of the trees that are written

Node(key, value, children) == [key |-> key, value |-> value, children |-> children]
Leaf(key, value) == Node(key, value, <<>>)

VARIABLES
    tree,   \* <<the tree the text was written from>>, or <<>> for any text
    input,
    pos,
    stack,  \* the nodes whose children are being read, innermost last
    pc      \* "children", "done", "error"

vars == <<tree, input, pos, stack, pc>>

-----------------------------------------------------------------------------
(* The reference. *)

Quoted(s) == <<"quote">> \o FlattenSeq([i \in 1..Len(s) |->
                IF s[i] \in {"quote", "slash"} THEN <<"slash", s[i]>> ELSE <<s[i]>>]) \o <<"quote">>

Bare(s) == s # <<>> /\ \A i \in 1..Len(s) : s[i] \notin {"quote", "open", "close", "space", "slash"}

WrittenString(s) == {Quoted(s)} \cup (IF Bare(s) THEN {s} ELSE {})

Spaces(a, b) == {a \o <<"space">> \o b} \cup
                (IF a # <<>> /\ a[Len(a)] \in {"quote", "open", "close"} THEN {a \o b} ELSE {})

WrittenLeaf(n) ==
    UNION {Spaces(k, v) : k \in WrittenString(n.key), v \in WrittenString(n.value)}

Leaves == {Leaf(k, v) : k, v \in Strings}
Branches == {Node(k, <<>>, c) : k \in Strings, c \in {<<>>} \cup {<<n>> : n \in Leaves}}

WrittenBranch(n) ==
    LET bodies == IF n.children = <<>> THEN {<<>>} ELSE WrittenLeaf(n.children[1])
    IN  UNION {Spaces(k \o <<"open">> \o b, <<"close">>) :
                    k \in WrittenString(n.key), b \in bodies}

Written ==
    UNION {{[tree |-> <<n>>, text |-> w] : w \in WrittenLeaf(n)} : n \in Leaves}
    \cup UNION {{[tree |-> <<n>>, text |-> w] : w \in WrittenBranch(n)} : n \in Branches}

-----------------------------------------------------------------------------
(* The parser. *)

End == Len(input) + 1
Closings == {End} \cup {k \in 1..Len(input) : input[k] = "close"}

skipWhitespace(i) ==
    CHOOSE j \in i..End : /\ \A k \in i..(j - 1) : input[k] = "space"
                          /\ j = End \/ input[j] # "space"

(* Mutant of Escape: the character after a backslash is not looked at. *)
EscapeNone(i) == FALSE

(* A backslash that stands for the character after it; before any other     *)
(* character it stands for itself.                                          *)
Escape(i) == input[i] = "slash" /\ i < Len(input) /\ input[i + 1] \in {"quote", "slash"}

(* readQuotedString, from behind the opening quote. *)
readQuotedString(i) ==
    LET f[j \in i..(End + 1)] ==
            IF j >= End THEN [ok |-> FALSE, s |-> <<>>, pos |-> End]
            ELSE IF Escape(j) THEN LET r == f[j + 2] IN [r EXCEPT !.s = <<input[j + 1]>> \o @]
            ELSE IF input[j] = "quote" THEN [ok |-> TRUE, s |-> <<>>, pos |-> j + 1]
            ELSE LET r == f[j + 1] IN [r EXCEPT !.s = <<input[j]>> \o @]
    IN  f[i]

readUnquotedString(i) ==
    LET end == CHOOSE j \in i..End :
                    /\ \A k \in i..(j - 1) : input[k] \notin {"space", "open", "close"}
                    /\ j = End \/ input[j] \in {"space", "open", "close"}
    IN  [ok |-> TRUE, s |-> SubSeq(input, i, end - 1), pos |-> end]

readString(i) ==
    IF i = End THEN [ok |-> FALSE, s |-> <<>>, pos |-> End]
    ELSE IF input[i] = "quote" THEN readQuotedString(i + 1) ELSE readUnquotedString(i)

Init ==
    /\ \/ \E w \in Written : tree = w.tree /\ input = w.text
       \/ tree = <<>> /\ \E n \in 0..MaxText : input \in [1..n -> Chars]
    /\ pos = 1 /\ stack = <<Node(<<>>, <<>>, <<>>)>> /\ pc = "children"

Add(s, n) == [s EXCEPT ![Len(s)].children = Append(@, n)]
Stop(p) == pc' = p /\ UNCHANGED <<pos, stack>>

(* parseChildren returns at the end of the text or before a closing brace;  *)
(* its caller, unless it is ParseVDF, skips the brace and keeps the node.   *)
EndChildren ==
    LET i == skipWhitespace(pos) IN
    /\ pc = "children" /\ i \in Closings
    /\ IF Len(stack) = 1 THEN Stop("done")
       ELSE /\ stack' = Add(Front(stack), Last(stack))
            /\ pos' = IF i = End THEN i ELSE i + 1
            /\ UNCHANGED pc
    /\ UNCHANGED <<tree, input>>

(* A key, and then a subtree or a value. *)
ParseChild ==
    LET i == skipWhitespace(pos)
        key == readString(i)
        j == skipWhitespace(key.pos)
        value == readString(j)
    IN
    /\ pc = "children" /\ i \notin Closings
    /\ IF ~key.ok \/ j = End THEN Stop("error")
       ELSE IF input[j] = "open"
       THEN /\ stack' = Append(stack, Node(key.s, <<>>, <<>>))
            /\ pos' = j + 1 /\ UNCHANGED pc
       ELSE IF ~value.ok THEN Stop("error")
       ELSE /\ stack' = Add(stack, Leaf(key.s, value.s))
            /\ pos' = value.pos /\ UNCHANGED pc
    /\ UNCHANGED <<tree, input>>

Next == EndChildren \/ ParseChild

Spec == Init /\ [][Next]_vars

TypeOK ==
    /\ pos \in 1..End /\ Len(stack) >= 1 /\ pc \in {"children", "done", "error"}

(* Every way to write a tree is read back as that tree: quotes, spaces and  *)
(* escaped characters in keys and values, empty strings and empty subtrees  *)
(* (ParseVDF).                                                              *)
WrittenIsRead ==
    tree # <<>> => /\ pc # "error"
                   /\ pc = "done" => stack[1].children = tree
=============================================================================
