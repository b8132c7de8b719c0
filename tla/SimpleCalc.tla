------------------------------ MODULE SimpleCalc ------------------------------
(***************************************************************************)
(* examples/parsers/simplecalc: the scanner that Ragel generated           *)
(* (lexer.cpp), which feeds CalcParser with the tokens of a file.          *)
(*                                                                         *)
(* The file is chosen while it is read.  A character is a class: a digit,  *)
(* the point, a symbol by its token, white space, or any other.            *)
(***************************************************************************)
EXTENDS CalcParser, FiniteSets

CONSTANTS
    Symbols,     \* bound: the symbols of the files, a subset of the tokens
    FileBudget,  \* bound: what the characters of a file may cost
    Statements   \* bound: the statements of a file

Digit == 11
Point == 12
Space == 13
Other == 14
CalcChars == {Digit, Point, Space, Other} \cup Symbols \cup {EndOfInput}

\* The longest expressions have no blanks, points or strangers, and few minuses.
Cost(c) == CASE c \in {Digit, PLUS, TIMES, OPENP, CLOSEP} -> 1
             [] c = EndOfInput -> 4 [] OTHER -> 3

ASSUME FileAssumption == Symbols \subseteq PLUS .. CLOSEP /\ {FileBudget, Statements} \subseteq Nat

VARIABLES
    calc_text,   \* the characters of the file that have been looked at
    calc_p,      \* p: the index of the next character
    calc_eof,    \* the file ends behind calc_text
    scan_cs,     \* the state of the scanner: 0 error, 2 start, 3 and 4 digits, 1 point
    ts, te,      \* the token being scanned is ts .. te - 1
    spent,       \* (bound) the cost of calc_text and its statements
    calc_from    \* (ghost) where the statement began

scannerVars == <<calc_text, calc_p, calc_eof, scan_cs, ts, te, spent, calc_from>>
calcVars == <<parserVars, scannerVars>>

CalcInit ==
    /\ ParseInit
    /\ calc_text = <<>> /\ calc_p = 1 /\ calc_eof = FALSE
    /\ scan_cs = 2 /\ ts = 1 /\ te = 1
    /\ spent = [cost |-> 0, statements |-> 0]
    /\ calc_from = 1

\* A statement is over when Parse() has returned from its semicolon.
StatementDone ==
    /\ scan_cs = 2 /\ ~InParse /\ calc_p > calc_from /\ calc_text[calc_p - 1] = EndOfInput

Scanning == ~InParse /\ scan_cs # 0 /\ ~StatementDone

\* The character at p, read from the file if it is the first time.
ReadChar(c) ==
    \/ calc_p <= Len(calc_text) /\ c = calc_text[calc_p] /\ UNCHANGED <<calc_text, spent>>
    \/ /\ calc_p = Len(calc_text) + 1 /\ ~calc_eof
       /\ spent.statements < Statements
       /\ c # EndOfInput => spent.cost + Cost(c) <= FileBudget
       /\ calc_text' = Append(calc_text, c)
       /\ spent' = [cost |-> spent.cost + Cost(c),
                    statements |-> spent.statements + IF c = EndOfInput THEN 1 ELSE 0]

Emit(major, minor) ==
    /\ yylook' = [major |-> major, minor |-> minor]
    /\ UNCHANGED <<yystack, yyerrcnt>>

\* A symbol in the start state; a semicolon ends the statement.
ScanSymbol ==
    /\ Scanning /\ scan_cs = 2
    /\ \E c \in Symbols \cup {EndOfInput} : ReadChar(c) /\ Emit(c, <<>>)
    /\ calc_p' = calc_p + 1
    /\ UNCHANGED <<calc_eof, scan_cs, ts, te, calc_from, calc_out, overflowed>>

ScanSpace ==
    /\ Scanning /\ scan_cs = 2 /\ ReadChar(Space)
    /\ calc_p' = calc_p + 1
    /\ UNCHANGED <<parserVars, calc_eof, scan_cs, ts, te, calc_from>>

ScanDigit ==
    /\ Scanning /\ ReadChar(Digit)
    /\ scan_cs' = IF scan_cs \in {2, 3} THEN 3 ELSE 4
    /\ ts' = IF scan_cs = 2 THEN calc_p ELSE ts
    /\ te' = IF scan_cs \in {2, 3} THEN calc_p + 1 ELSE te
    /\ calc_p' = calc_p + 1
    /\ UNCHANGED <<parserVars, calc_eof, calc_from>>

ScanPoint ==
    /\ Scanning /\ scan_cs = 3 /\ ReadChar(Point)
    /\ scan_cs' = 1
    /\ calc_p' = calc_p + 1
    /\ UNCHANGED <<parserVars, calc_eof, ts, te, calc_from>>

\* The first character behind a number is looked at, and looked at again.
ScanNumber ==
    /\ Scanning
    /\ \/ /\ scan_cs \in {3, 4}
          /\ \E c \in CalcChars \ {Digit} : (scan_cs = 4 \/ c # Point) /\ ReadChar(c)
       \/ /\ calc_eof /\ scan_cs \in {3, 4} /\ calc_p > Len(calc_text)
          /\ UNCHANGED <<calc_text, spent>>
    /\ Emit(DOUBLE, <<ts, calc_p>>)
    /\ te' = calc_p /\ scan_cs' = 2
    /\ UNCHANGED <<calc_p, calc_eof, ts, calc_from, calc_out, overflowed>>

\* A point without a digit behind it does not belong to the number: back to te.
ScanBack ==
    /\ Scanning /\ scan_cs = 1
    /\ \/ \E c \in CalcChars \ {Digit} : ReadChar(c)
       \/ calc_eof /\ calc_p > Len(calc_text) /\ UNCHANGED <<calc_text, spent>>
    /\ Emit(DOUBLE, <<ts, te>>)
    /\ calc_p' = te /\ scan_cs' = 2
    /\ UNCHANGED <<calc_eof, ts, te, calc_from, calc_out, overflowed>>

\* Anything else ends the scan without a word.
ScanError ==
    /\ Scanning /\ scan_cs = 2
    /\ \E c \in {Point, Other} : ReadChar(c)
    /\ scan_cs' = 0
    /\ UNCHANGED <<parserVars, calc_p, calc_eof, ts, te, calc_from>>

EndOfFile ==
    /\ Scanning /\ ~calc_eof /\ calc_p = Len(calc_text) + 1
    /\ calc_eof' = TRUE
    /\ UNCHANGED <<parserVars, calc_text, calc_p, scan_cs, ts, te, spent, calc_from>>

\* (ghost) The next statement begins.
NextStatement ==
    /\ StatementDone
    /\ calc_from' = calc_p
    /\ calc_out' = <<>> /\ overflowed' = FALSE
    /\ UNCHANGED <<yystack, yyerrcnt, yylook, calc_text, calc_p, calc_eof, scan_cs, ts, te, spent>>

Scan == \/ ScanSymbol \/ ScanSpace \/ ScanDigit \/ ScanPoint \/ ScanNumber \/ ScanBack
        \/ ScanError \/ EndOfFile

CalcNext == (ParseStep /\ UNCHANGED scannerVars) \/ Scan \/ NextStatement

CalcSpec == CalcInit /\ [][CalcNext]_calcVars

-----------------------------------------------------------------------------
(***************************************************************************)
(* The grammar of parser.y and lexer.rl, read directly off the text: the   *)
(* trees of the expression that the characters from i to j - 1 spell.      *)
(***************************************************************************)
Spells(i, j, class) == \A k \in i .. j - 1 : calc_text[k] = class
IsNumeral(i, j) ==
    /\ j > i
    /\ \/ Spells(i, j, Digit)
       \/ \E k \in i + 1 .. j - 2 :
             calc_text[k] = Point /\ Spells(i, k, Digit) /\ Spells(k + 1, j, Digit)

Spelled ==
    LET ends == 1 .. Len(calc_text) + 1
        trees[kind \in {"sum", "product", "factor"}, i \in ends, j \in ends] ==
            LET chains(ops, left, right) ==
                    UNION {{<<calc_text[k], l, r>> : l \in trees[left, i, k], r \in trees[right, k + 1, j]}
                           : k \in {k \in i .. j - 1 : calc_text[k] \in ops}} IN
            CASE kind = "sum" -> trees["product", i, j] \cup chains({PLUS, MINUS}, "sum", "product")
              [] kind = "product" ->
                   trees["factor", i, j] \cup chains({DIVIDE, TIMES}, "product", "factor")
              [] OTHER ->
                   (IF IsNumeral(i, j) THEN {<<i, j>>} ELSE {})
                   \cup (IF j > i + 1 /\ calc_text[i] = OPENP /\ calc_text[j - 1] = CLOSEP
                         THEN trees["sum", i + 1, j - 1] ELSE {})
                   \cup (IF i < j /\ calc_text[i] = Space THEN trees["factor", i + 1, j]
                         ELSE IF i < j /\ calc_text[j - 1] = Space THEN trees["factor", i, j - 1]
                         ELSE {})
    IN  trees

(***************************************************************************)
(* Properties.                                                             *)
(***************************************************************************)
\* Type invariant of the calculator.
CalcTypeOK ==
    /\ \A i \in DOMAIN yystack : /\ yystack[i].stateno \in 0 .. YY_MAX_REDUCE
                                 /\ yystack[i].major \in 0 .. 9
    /\ yyerrcnt \in Int /\ yyerrcnt <= 3
    /\ yylook.major \in 0 .. NoToken
    /\ calc_text \in Seq(CalcChars) /\ calc_p \in 1 .. Len(calc_text) + 1
    /\ ts \in 1 .. calc_p /\ te \in 1 .. calc_p
    /\ scan_cs \in 0 .. 4
    /\ calc_eof \in BOOLEAN /\ overflowed \in BOOLEAN

\* What the calculator prints for a statement.  If the statement is in the
\* grammar, it is the value with the precedence and associativity that parser.y
\* declares, and nothing else; if it is not, a syntax error is among it.  After
\* an overflow of the stack a statement of the grammar gets a syntax error too,
\* never a wrong value alone.
CalcAnswers ==
    StatementDone =>
      LET trees == Spelled["sum", calc_from, calc_p - 1]
          complains == \E i \in DOMAIN calc_out : calc_out[i] = Complaint IN
      IF trees # {}
      THEN IF overflowed THEN complains
           ELSE Cardinality(trees) = 1 /\ \E tree \in trees : calc_out = <<tree>>
      ELSE overflowed \/ complains

=============================================================================
