------------------------------ MODULE DiceRoller ------------------------------
(***************************************************************************)
(* examples/parsers/diceParserRagel: a formula of dice is read into        *)
(* reverse Polish notation (operator>> in diceparser_rl.cpp), and          *)
(* evaluated in place (diceparser.cpp), throwing the dice.  One formula    *)
(* in a process of its own; numbers have no width.                         *)
(***************************************************************************)
EXTENDS Integers, Sequences, SequencesExt

CONSTANTS
    DiceInputs,  \* what users type, see DiceAssumption
    MaxThrows    \* bound: throws of one cast

\* Items of the notation.  A cast has a modifier: none, the recast <<"!">>, or
\* the highest <<"M", n>> or lowest <<"m", n>> so many.
Num(n) == <<"num", n>>
Op(c) == <<"op", c>>
NoModifier == <<"none">>

DiceDigits == {"0", "1", "2"}
DiceDigitOf(c) == CASE c = "0" -> 0 [] c = "1" -> 1 [] OTHER -> 2
DiceChars ==
    DiceDigits \cup {" ", "!", "%", "(", ")", "*", "+", "-", "/", "M", "d", "m", "other"}

\* tree is what the text means, or <<>> for a text without a meaning, and values
\* what it may be worth: numbers, or Undefined where C++ says nothing of it.
Undefined == <<"undefined">>
ASSUME DiceAssumption ==
    /\ \A in \in DiceInputs : in.text \in Seq(DiceChars)
    /\ MaxThrows \in Nat

VARIABLES
    dice_input,  \* the line
    dice_pc,     \* reading, evaluating, casting, answered, threw, undefined
    dice_p,      \* p, from 1; behind the line comes the NUL
    dice_cs,     \* 1, or 2 inside a number
    dice_intVal, \* the number being read
    dice_numPut, \* a cast has a number on its left
    dice_bang,   \* exclamationMark
    dice_ops,    \* operation, the stack
    dice_rpn,    \* the formula; later RS
    dice_i,      \* the index of evaluate(), from 1
    dice_mod,    \* modification
    dice_gen,    \* gen, by the number of its sides; 0 before the first cast
    dice_left,   \* the throws of a cast that are left: countOfRoll - i
    dice_rolls,  \* rolls
    dice_last    \* resultOfRoll

castVars == <<dice_gen, dice_left, dice_rolls, dice_last>>
diceVars == <<dice_input, dice_pc, dice_p, dice_cs, dice_intVal, dice_numPut, dice_bang,
              dice_ops, dice_rpn, dice_i, dice_mod, castVars>>
notReading == <<dice_input, dice_i, dice_mod, castVars>>

DiceInit ==
    /\ dice_input \in DiceInputs
    /\ dice_pc = "reading" /\ dice_p = 1 /\ dice_cs = 1
    /\ dice_intVal = 0 /\ dice_numPut = FALSE /\ dice_bang = FALSE
    /\ dice_ops = <<>> /\ dice_rpn = <<>>
    /\ dice_i = 1 /\ dice_mod = NoModifier
    /\ dice_gen = 0 /\ dice_left = 0 /\ dice_rolls = <<>> /\ dice_last = 0

-----------------------------------------------------------------------------
(***************************************************************************)
(* operator>>: one character.                                              *)
(***************************************************************************)
Char == IF dice_p <= Len(dice_input.text) THEN dice_input.text[dice_p] ELSE "NUL"
Reads(chars) == dice_pc = "reading" /\ Char \in chars
TopOp == IF dice_ops = <<>> THEN " " ELSE dice_ops[Len(dice_ops)]
PopOp == SubSeq(dice_ops, 1, Len(dice_ops) - 1)

\* A number ends at the first other character, before that one has its effect.
NumberEnded == IF dice_cs = 2 THEN Append(dice_rpn, Num(dice_intVal)) ELSE dice_rpn
NumPut == dice_cs = 2 \/ dice_numPut
EndNumber == dice_cs' = 1 /\ dice_intVal' = 0

\* The operator on the stack goes to the formula, and the character is read again.
PopAndReread ==
    /\ dice_rpn' = Append(NumberEnded, Op(TopOp))
    /\ dice_ops' = PopOp
    /\ UNCHANGED <<dice_p, dice_bang>>

DiceThrows ==
    /\ dice_pc' = "threw"
    /\ UNCHANGED <<notReading, dice_p, dice_cs, dice_intVal, dice_numPut, dice_bang, dice_ops, dice_rpn>>

DiceBlank ==
    /\ Reads({" "})
    /\ dice_p' = dice_p + 1 /\ dice_rpn' = NumberEnded /\ dice_numPut' = NumPut /\ EndNumber
    /\ UNCHANGED <<notReading, dice_pc, dice_bang, dice_ops>>

DiceOpen ==
    /\ Reads({"("})
    /\ dice_ops' = Append(dice_ops, "(") /\ dice_numPut' = TRUE
    /\ dice_p' = dice_p + 1 /\ dice_rpn' = NumberEnded /\ EndNumber
    /\ UNCHANGED <<notReading, dice_pc, dice_bang>>

DiceClose ==
    /\ Reads({")"}) /\ dice_ops # <<>>
    /\ IF TopOp = "("
       THEN /\ dice_ops' = PopOp /\ dice_rpn' = NumberEnded /\ dice_p' = dice_p + 1
            /\ UNCHANGED dice_bang
       ELSE PopAndReread
    /\ dice_numPut' = TRUE /\ EndNumber
    /\ UNCHANGED <<notReading, dice_pc>>

\* A number does not begin with a 0.
DiceDigit ==
    /\ Reads(IF dice_cs = 2 THEN DiceDigits ELSE DiceDigits \ {"0"})
    /\ dice_intVal' = dice_intVal * 10 + DiceDigitOf(Char)
    /\ dice_cs' = 2 /\ dice_p' = dice_p + 1
    /\ UNCHANGED <<notReading, dice_pc, dice_numPut, dice_bang, dice_ops, dice_rpn>>

PushOrReread(below) ==
    /\ IF dice_ops = <<>> \/ TopOp \in below
       THEN /\ dice_ops' = Append(dice_ops, Char) /\ dice_rpn' = NumberEnded
            /\ dice_bang' = FALSE /\ dice_p' = dice_p + 1
       ELSE PopAndReread
    /\ dice_numPut' = FALSE /\ EndNumber
    /\ UNCHANGED <<notReading, dice_pc>>

DiceTimes == Reads({"*", "/", "%"}) /\ PushOrReread({"+", "-", "("})
DicePlus == Reads({"+", "-"}) /\ PushOrReread({"("})

\* A cast without a number on its left is a cast of one die.
DiceCast ==
    /\ Reads({"d"})
    /\ IF dice_ops = <<>> \/ TopOp \in {"+", "-", "*", "/", "%", "("}
       THEN /\ dice_ops' = Append(dice_ops, "d") /\ dice_p' = dice_p + 1
            /\ dice_rpn' = IF NumPut THEN NumberEnded ELSE Append(NumberEnded, Num(1))
            /\ UNCHANGED dice_bang
       ELSE PopAndReread
    /\ dice_numPut' = NumPut /\ EndNumber
    /\ UNCHANGED <<notReading, dice_pc>>

DiceModifier ==
    /\ Reads({"M", "m"}) /\ TopOp = "d" /\ ~dice_bang
    /\ dice_ops' = Append(dice_ops, Char)
    /\ dice_rpn' = NumberEnded /\ dice_numPut' = NumPut /\ dice_p' = dice_p + 1 /\ EndNumber
    /\ UNCHANGED <<notReading, dice_pc, dice_bang>>

DiceRecast ==
    /\ Reads({"!"}) /\ TopOp = "d"
    /\ dice_rpn' = Append(NumberEnded, Op("!")) /\ dice_bang' = TRUE
    /\ dice_numPut' = NumPut /\ dice_p' = dice_p + 1 /\ EndNumber
    /\ UNCHANGED <<notReading, dice_pc, dice_ops>>

\* All that is left on the stack goes to the formula, a parenthesis too.
DiceEnd ==
    /\ Reads({"NUL"}) /\ TopOp # "("
    /\ dice_rpn' = NumberEnded \o [i \in DOMAIN dice_ops |-> Op(dice_ops[Len(dice_ops) + 1 - i])]
    /\ dice_ops' = <<>> /\ dice_numPut' = NumPut /\ EndNumber
    /\ dice_pc' = "evaluating"
    /\ UNCHANGED <<notReading, dice_p, dice_bang>>

DiceRefuses ==
    /\ \/ Reads({")"}) /\ dice_ops = <<>>
       \/ Reads({"M", "m"}) /\ (TopOp # "d" \/ dice_bang)
       \/ Reads({"!"}) /\ TopOp # "d"
       \/ Reads({"NUL"}) /\ TopOp = "("
       \/ Reads({"other"})
       \/ Reads({"0"}) /\ dice_cs = 1
    /\ DiceThrows

-----------------------------------------------------------------------------
(***************************************************************************)
(* evaluate() of the sequence: one turn of its loop.                       *)
(***************************************************************************)
Evaluating == dice_pc = "evaluating" /\ dice_i <= Len(dice_rpn)
Item(i) == dice_rpn[i]
IsOp(item) == item[1] = "op"
Removed(from, to) == SubSeq(dice_rpn, 1, from - 1) \o SubSeq(dice_rpn, to + 1, Len(dice_rpn))
notEvaluating == <<dice_input, dice_p, dice_cs, dice_intVal, dice_numPut, dice_bang, dice_ops>>

SkipNumber ==
    /\ Evaluating /\ ~IsOp(Item(dice_i))
    /\ dice_i' = dice_i + 1
    /\ UNCHANGED <<notEvaluating, dice_pc, dice_rpn, dice_mod, castVars>>

TakeModifier ==
    /\ Evaluating
    /\ \/ /\ Item(dice_i) = Op("!")
          /\ dice_mod' = <<"!">> /\ dice_rpn' = Removed(dice_i, dice_i) /\ UNCHANGED dice_i
       \/ /\ Item(dice_i) \in {Op("M"), Op("m")} /\ dice_i > 1 /\ ~IsOp(Item(dice_i - 1))
          /\ dice_mod' = <<Item(dice_i)[2], Item(dice_i - 1)[2]>>
          /\ dice_rpn' = Removed(dice_i - 1, dice_i) /\ dice_i' = dice_i - 1
    /\ UNCHANGED <<notEvaluating, dice_pc, castVars>>

IsOperation(item) == IsOp(item) /\ item[2] \notin {"!", "M", "m"}

\* The operation of this turn, its operands, and its end: it is replaced, with
\* them, by a number.
Operation == Item(dice_i)[2]
Left == Item(dice_i - 2)[2]
Right == Item(dice_i - 1)[2]
HasOperands ==
    /\ Evaluating /\ IsOperation(Item(dice_i))
    /\ Len(dice_rpn) >= 3 /\ dice_i > 2 /\ ~IsOp(Item(dice_i - 1))
Becomes(n) ==
    /\ dice_rpn' = [Removed(dice_i - 1, dice_i) EXCEPT ![dice_i - 2] = Num(n)]
    /\ dice_i' = dice_i - 1

\* Division rounds towards zero.
Magnitude(n) == IF n < 0 THEN -n ELSE n
Quotient(l, r) == LET q == Magnitude(l) \div Magnitude(r) IN IF (l < 0) = (r < 0) THEN q ELSE -q
Arithmetic(c, l, r) ==
    CASE c = "*" -> l * r [] c = "/" -> Quotient(l, r) [] c = "%" -> l - r * Quotient(l, r)
      [] c = "+" -> l + r [] c = "-" -> l - r

\* A division by zero ends the process.
Calculate ==
    /\ HasOperands /\ Operation # "d"
    /\ IF Operation \in {"/", "%"} /\ Right = 0
       THEN dice_pc' = "undefined" /\ UNCHANGED <<dice_rpn, dice_i>>
       ELSE Becomes(Arithmetic(Operation, Left, Right)) /\ UNCHANGED dice_pc
    /\ UNCHANGED <<notEvaluating, dice_mod, castVars>>

\* The distribution is a static variable: it keeps the sides of the first cast.
\* Of less than one side the standard says nothing.
BeginCast ==
    /\ HasOperands /\ Operation = "d"
    /\ IF dice_gen = 0 /\ Right < 1
       THEN dice_pc' = "undefined" /\ UNCHANGED castVars
       ELSE /\ dice_pc' = "casting"
            /\ dice_gen' = IF dice_gen = 0 THEN Right ELSE dice_gen
            /\ dice_left' = Left /\ UNCHANGED <<dice_rolls, dice_last>>
    /\ UNCHANGED <<notEvaluating, dice_rpn, dice_i, dice_mod>>

\* One throw.  A negative count is a huge one to the loop, whose index has no
\* sign, and a recast of a die that always shows the same side never ends.
ThrowDie ==
    /\ dice_pc = "casting" /\ dice_left # 0 /\ Len(dice_rolls) < MaxThrows
    /\ \E n \in 1 .. dice_gen :
          /\ dice_last' = n
          /\ dice_left' = IF dice_mod = <<"!">> /\ n = Right THEN dice_left ELSE dice_left - 1
          /\ dice_rolls' = SelectSeq(dice_rolls, LAMBDA m : m < n) \o <<n>>
                           \o SelectSeq(dice_rolls, LAMBDA m : m >= n)
    /\ UNCHANGED <<notEvaluating, dice_pc, dice_rpn, dice_i, dice_mod, dice_gen>>

\* The throws that count, by their place in the order: the lowest is never among
\* the highest, however many are asked for.
Counted ==
    CASE dice_mod[1] = "m" -> {k \in DOMAIN dice_rolls : k <= dice_mod[2]}
      [] dice_mod[1] = "M" -> {k \in 2 .. Len(dice_rolls) : Len(dice_rolls) - k < dice_mod[2]}
      [] OTHER -> DOMAIN dice_rolls

CastIsOver ==
    /\ dice_pc = "casting" /\ dice_left = 0
    /\ IF dice_rolls = <<>>
       THEN dice_pc' = "undefined" /\ UNCHANGED <<dice_rpn, dice_i>>
       ELSE dice_pc' = "evaluating" /\ Becomes(dice_last + SumFunctionOnSet(dice_rolls, Counted))
    /\ dice_left' = 0 /\ dice_rolls' = <<>> /\ dice_last' = 0
    /\ UNCHANGED <<notEvaluating, dice_gen>>


\* The sum starts from the last throw, which is not reset, and is not defined
\* without a throw.  A cast uses the modifier up.
CastEnds == CastIsOver /\ dice_mod' = NoModifier

DiceResult ==
    /\ dice_pc = "evaluating" /\ dice_i > Len(dice_rpn)
    /\ dice_pc' = CASE Len(dice_rpn) = 1 -> "answered" [] Len(dice_rpn) = 0 -> "undefined"
                    [] OTHER -> "threw"
    /\ UNCHANGED <<notEvaluating, dice_rpn, dice_i, dice_mod, castVars>>

\* The sizes that are checked are those of the whole sequence: an operator that
\* stands too far in front reads before its beginning.
EvaluationFails ==
    /\ Evaluating /\ IsOp(Item(dice_i)) /\ Item(dice_i) # Op("!")
    /\ LET need == IF IsOperation(Item(dice_i)) THEN 3 ELSE 2 IN
         \/ Len(dice_rpn) < need /\ dice_pc' = "threw"
         \/ Len(dice_rpn) >= need /\ dice_i < need /\ dice_pc' = "undefined"
    /\ UNCHANGED <<notEvaluating, dice_rpn, dice_i, dice_mod, castVars>>

DiceRead == \/ DiceBlank \/ DiceOpen \/ DiceClose \/ DiceDigit \/ DiceTimes \/ DicePlus
            \/ DiceCast \/ DiceModifier \/ DiceRecast \/ DiceEnd \/ DiceRefuses
DiceEvaluate == \/ SkipNumber \/ TakeModifier \/ Calculate \/ BeginCast \/ ThrowDie \/ CastEnds
                \/ DiceResult \/ EvaluationFails

DiceNext == DiceRead \/ DiceEvaluate

DiceSpec == DiceInit /\ [][DiceNext]_diceVars

-----------------------------------------------------------------------------
(***************************************************************************)
(* Properties.                                                             *)
(***************************************************************************)
\* Type invariant of the dice roller.
DiceTypeOK ==
    /\ dice_pc \in {"reading", "evaluating", "casting", "answered", "threw", "undefined"}
    /\ dice_p \in 1 .. Len(dice_input.text) + 1
    /\ dice_cs \in {1, 2} /\ dice_intVal \in Nat /\ (dice_cs = 2) = (dice_intVal > 0)
    /\ {dice_numPut, dice_bang} \subseteq BOOLEAN
    /\ dice_ops \in Seq(DiceChars)
    /\ dice_i \in 1 .. Len(dice_rpn) + 1

\* A text with one of these gets no answer, although it means something: a
\* parenthesis counts as the number on the left of a cast, and the mark of a
\* recast stays until the next sum or product.
Unlucky(text) ==
    \/ \E i \in 1 .. Len(text) - 1 : text[i] = "(" /\ text[i + 1] = "d"
    \/ \E i, j \in DOMAIN text :
          /\ i < j /\ text[i] = "!" /\ text[j] \in {"M", "m"}
          /\ \A k \in i .. j : text[k] \notin {"+", "-", "*", "/", "%"}

\* A formula gets one of the values that its text may have: by precedence, from
\* left to right, with each modifier on the cast it stands behind and on no other,
\* where casts are what the code makes of them (see ThrowDie, Counted and CastEnds).
\* What does not mean anything gets no value, except that what is well formed but
\* unlucky gets none either; a formula in order is never refused, and its value is
\* only undefined where it divides by zero, or throws no dice or dice without sides.
DiceAnswers ==
    /\ dice_pc = "answered" => dice_rpn[1] \in dice_input.values
    /\ dice_pc = "threw" => dice_input.tree = <<>> \/ Unlucky(dice_input.text)
    /\ dice_pc = "undefined" =>
          \/ dice_input.tree = <<>> \/ Unlucky(dice_input.text)
          \/ Undefined \in dice_input.values

=============================================================================
