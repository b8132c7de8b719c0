------------------------------ MODULE CalcParser ------------------------------
(***************************************************************************)
(* The parser of examples/parsers/simplecalc, parser.c: the automaton that *)
(* Lemon generated, with its tables, and one call of Parse() per token.    *)
(* The value of an expression is its tree, so that a sum in another order, *)
(* or with another precedence, is another value.                           *)
(***************************************************************************)
EXTENDS Integers, Sequences

CONSTANT YYSTACKDEPTH  \* the entries of yystack, 100 in the code

ASSUME StackAssumption == YYSTACKDEPTH \in Nat \ {0}

EndOfInput == 0
PLUS == 1
MINUS == 2
DIVIDE == 3
TIMES == 4
OPENP == 5
CLOSEP == 6
DOUBLE == 7
Tokens == EndOfInput .. DOUBLE
NoToken == 8

YY_MAX_SHIFT == 9
YY_MIN_SHIFTREDUCE == 14
YY_MAX_SHIFTREDUCE == 20
YY_ERROR_ACTION == 21
YY_ACCEPT_ACTION == 22
YY_MIN_REDUCE == 24
YY_MAX_REDUCE == 30

\* An array of C: the first element has index 0.
Array(s) == [i \in 0 .. Len(s) - 1 |-> s[i + 1]]

yy_action == Array(<<9, 5, 1, 3, 2, 28, 15, 24, 5, 1, 3, 2, 27, 4, 6, 20, 23, 22, 7, 3, 2, 8>>)
yy_lookahead == Array(<<9, 1, 2, 3, 4, 9, 6, 0, 1, 2, 3, 4, 9, 5, 9, 7, 10, 8, 9, 3, 4, 9,
                        10, 10, 10, 10, 10, 10, 8, 8>>)
yy_shift_ofst == Array(<<8, 8, 8, 8, 8, 8, 0, 7, 16, 16>>)
yy_reduce_ofst == Array(<<9, -9, -4, 3, 5, 12>>)
yy_default == Array(<<21, 21, 21, 21, 21, 21, 21, 21, 26, 29>>)

\* The rules: the symbol on the left and the number of symbols on the right.
yyRuleInfoLhs == Array(<<8, 9, 9, 9, 9, 9, 9>>)
yyRuleInfoNRhs == Array(<<1, 3, 3, 3, 3, 3, 1>>)

VARIABLES
    yystack,    \* the entries [stateno, major, minor]; the last one is yytos
    yyerrcnt,   \* shifts left before out of the error
    yylook,     \* the token of the call of Parse() under way, or NoToken
    calc_out,   \* what this statement has printed
    overflowed  \* (ghost) yyStackOverflow ran in this statement

parserVars == <<yystack, yyerrcnt, yylook, calc_out, overflowed>>

Idle == [major |-> NoToken, minor |-> <<>>]
BottomOfStack == <<[stateno |-> 0, major |-> 0, minor |-> <<>>]>>

\* ParseAlloc.
ParseInit ==
    /\ yystack = BottomOfStack
    /\ yyerrcnt = -1
    /\ yylook = Idle
    /\ calc_out = <<>>
    /\ overflowed = FALSE

\* What yy_syntax_error prints.
Complaint == <<"Syntax error.">>

yytos == yystack[Len(yystack)]
yy_pop_parser_stack == SubSeq(yystack, 1, Len(yystack) - 1)

yy_find_shift_action(iLookAhead, stateno) ==
    IF stateno > YY_MAX_SHIFT THEN stateno
    ELSE LET i == yy_shift_ofst[stateno] + iLookAhead
         IN  IF yy_lookahead[i] = iLookAhead THEN yy_action[i] ELSE yy_default[stateno]

yy_find_reduce_action(stateno, iLookAhead) == yy_action[yy_reduce_ofst[stateno] + iLookAhead]

yyact == yy_find_shift_action(yylook.major, yytos.stateno)
InParse == yylook.major # NoToken

\* The value that the rule computes from the minors on its right-hand side.
RuleValue(yyruleno, rhs) ==
    CASE yyruleno = 1 -> rhs[2].minor
      [] yyruleno \in 2 .. 5 -> <<rhs[2].major, rhs[1].minor, rhs[3].minor>>
      [] OTHER -> rhs[1].minor

\* One turn of the loop of Parse(): yy_reduce.
Reduce ==
    /\ InParse /\ yyact >= YY_MIN_REDUCE
    /\ LET yyruleno == yyact - YY_MIN_REDUCE
           below == Len(yystack) - yyRuleInfoNRhs[yyruleno]
           rhs == SubSeq(yystack, below + 1, Len(yystack))
           yygoto == yyRuleInfoLhs[yyruleno] IN
       /\ yystack' = Append(SubSeq(yystack, 1, below),
                            [stateno |-> yy_find_reduce_action(yystack[below].stateno, yygoto),
                             major |-> yygoto, minor |-> RuleValue(yyruleno, rhs)])
       /\ calc_out' = IF yyruleno = 0 THEN Append(calc_out, rhs[1].minor) ELSE calc_out
    /\ UNCHANGED <<yyerrcnt, yylook, overflowed>>

\* Everything is popped but the bottom; the token is dropped without a word.
yyStackOverflow ==
    /\ Len(yystack) = YYSTACKDEPTH
    /\ yystack' = BottomOfStack /\ overflowed' = TRUE

yy_shift ==
    /\ Len(yystack) < YYSTACKDEPTH
    /\ yystack' = Append(yystack,
          [stateno |-> IF yyact > YY_MAX_SHIFT
                       THEN yyact + YY_MIN_REDUCE - YY_MIN_SHIFTREDUCE ELSE yyact,
           major |-> yylook.major, minor |-> yylook.minor])
    /\ UNCHANGED overflowed

Shift ==
    /\ InParse /\ yyact <= YY_MAX_SHIFTREDUCE
    /\ yyStackOverflow \/ yy_shift
    /\ yyerrcnt' = yyerrcnt - 1
    /\ yylook' = Idle
    /\ UNCHANGED calc_out

Accept ==
    /\ InParse /\ yyact = YY_ACCEPT_ACTION
    /\ yystack' = yy_pop_parser_stack
    /\ yyerrcnt' = -1
    /\ yylook' = Idle
    /\ UNCHANGED <<calc_out, overflowed>>

\* The token is thrown away; at the end of the input yy_parse_failed clears the
\* stack.
SyntaxError ==
    /\ InParse /\ yyact = YY_ERROR_ACTION
    /\ calc_out' = IF yyerrcnt <= 0 THEN Append(calc_out, Complaint) ELSE calc_out
    /\ IF yylook.major = EndOfInput
       THEN yystack' = BottomOfStack /\ yyerrcnt' = -1
       ELSE UNCHANGED yystack /\ yyerrcnt' = 3
    /\ yylook' = Idle
    /\ UNCHANGED overflowed

ParseStep == Reduce \/ Shift \/ Accept \/ SyntaxError

\* What parser.c asserts before it uses the tables and the stack: the goto after
\* a reduction is an entry of its own in the tables and never an error, every
\* action is one of the kinds the loop handles, and the stack holds a whole
\* right-hand side, and only its bottom when the input is accepted.
ParserAsserts ==
    /\ Len(yystack) \in 1 .. YYSTACKDEPTH
    /\ InParse =>
         /\ \/ yyact \in 0 .. YY_MAX_SHIFT
            \/ yyact \in YY_MIN_SHIFTREDUCE .. YY_ACCEPT_ACTION
            \/ yyact \in YY_MIN_REDUCE .. YY_MAX_REDUCE
         /\ yyact = YY_ACCEPT_ACTION => Len(yystack) = 2
         /\ yyact >= YY_MIN_REDUCE =>
              LET yyruleno == yyact - YY_MIN_REDUCE
                  below == Len(yystack) - yyRuleInfoNRhs[yyruleno]
                  i == yy_reduce_ofst[yystack[below].stateno] + yyRuleInfoLhs[yyruleno] IN
              /\ below >= 1 /\ yystack[below].stateno \in DOMAIN yy_reduce_ofst
              /\ i \in DOMAIN yy_action /\ yy_lookahead[i] = yyRuleInfoLhs[yyruleno]
              /\ yy_action[i] \notin YY_MAX_SHIFT + 1 .. YY_ERROR_ACTION

=============================================================================
