----------------------------- MODULE InspectSheet -----------------------------
(***************************************************************************)
(* The spreadsheet of examples/parsers/inspect: Sheet (sheet.cpp), the     *)
(* evaluation of a formula (ast.cpp) and the console that edits a cell,    *)
(* recalculates, and takes the edit back when that throws (console.rl).    *)
(*                                                                         *)
(* A pass recalculates the cells depth first.  A cell is known to be done  *)
(* in this pass when its phase equals the sheet's, which changes sign with *)
(* every pass; an exception leaves a pass half way.                        *)
(***************************************************************************)
EXTENDS Integers, Sequences

CONSTANTS
    Columns,   \* bound: the cells of the sheet are 1..Columns, in map order
    Formulas,  \* what may be typed into a cell, see FormulaAssumption
    MaxEdits,  \* bound: the inputs of one session
    Letter     \* a character that starts no number

Addresses == 1 .. Columns
Characters == Int \cup {Letter}

\* A leaf of a formula is a literal or a reference.  "call" is a call of a
\* function, "invalid" does not parse, "range" holds an address whose row does
\* not fit, for which Address() throws.
Leaf == [kind : {"literal"}, text : Seq(Characters)] \cup [kind : {"cell"}, at : Addresses]
Operators == {"leaf", "add", "subtract", "call", "invalid", "range"}
Arity == [leaf |-> 1, add |-> 2, subtract |-> 2, call |-> 1, invalid |-> 0, range |-> 0]

ASSUME FormulaAssumption ==
    /\ Letter \notin Int /\ Columns \in Nat \ {0} /\ MaxEdits \in Nat
    /\ \A f \in Formulas :
          /\ f.op \in Operators
          /\ f.args \in Seq(Leaf)
          /\ Len(f.args) = Arity[f.op]

NoFormula == [op |-> "none", args |-> <<>>]

VARIABLES
    formula,   \* Cell::formula; NoFormula when the map has no such cell
    value,     \* Cell::value: text, a number in it counting as one character
    phase,     \* Cell::phase
    processed, \* Cell::processed
    m_phase,   \* Sheet::m_phase
    sheet_pc,  \* idle, first, second (the passes of eval), terminated
    next,      \* the iterator of recalculate(): the next cell of the map
    stack,     \* the calls of recalculateDepthFirst: [cell, vals]
    edit,      \* the cell being edited and its formula before
    edits,     \* (bound) inputs so far
    recalculated \* (ghost) the last recalculate() returned, no edit since

cellVars == <<formula, value, phase, processed>>
sheetVars == <<cellVars, m_phase, sheet_pc, next, stack, edit, edits, recalculated>>

IsSet(a) == formula[a] # NoFormula

SheetInit ==
    /\ formula = [a \in Addresses |-> NoFormula]
    /\ value = [a \in Addresses |-> <<>>]
    /\ phase = [a \in Addresses |-> 0]
    /\ processed = [a \in Addresses |-> FALSE]
    /\ m_phase = 1
    /\ sheet_pc = "idle" /\ next = 1 /\ stack = <<>>
    /\ edit = [at |-> 1, old |-> NoFormula]
    /\ edits = 0
    /\ recalculated = TRUE

-----------------------------------------------------------------------------
(***************************************************************************)
(* Evaluation.  operator>> reads a number from the start of a text and     *)
(* ignores the rest; text that does not start with one fails.              *)
(***************************************************************************)
IsNumber(text) == text # <<>> /\ text[1] # Letter
Number(text) == text[1]

BinaryOp(op, left, right) ==
    IF IsNumber(left) /\ IsNumber(right)
    THEN IF op = "add" THEN <<Number(left) + Number(right)>>
                       ELSE <<Number(left) - Number(right)>>
    ELSE IF op = "add" THEN left \o right
                       ELSE <<Letter>> \* "ERROR"

Evaluate(op, vals) == IF op = "leaf" THEN vals[1] ELSE BinaryOp(op, vals[1], vals[2])

-----------------------------------------------------------------------------
(***************************************************************************)
(* Sheet::recalculate().                                                   *)
(***************************************************************************)
InPass == sheet_pc \in {"first", "second"}
Top == stack[Len(stack)]
Pop == SubSeq(stack, 1, Len(stack) - 1)

\* The start of a pass, by eval or by a caller.
BeginPass(pass) ==
    /\ sheet_pc' = pass
    /\ m_phase' = -m_phase
    /\ next' = 1
    /\ stack' = <<>>

Discovered(a) == phase[a] = m_phase

Push(a) ==
    /\ stack' = Append(stack, [cell |-> a, vals |-> <<>>])
    /\ phase' = [phase EXCEPT ![a] = m_phase]
    /\ processed' = [processed EXCEPT ![a] = FALSE]

\* The loop over the map reaches a cell that this pass has not discovered.
VisitRoot ==
    /\ InPass /\ stack = <<>> /\ next \in Addresses
    /\ IsSet(next) /\ ~Discovered(next)
    /\ Push(next)
    /\ next' = next + 1
    /\ UNCHANGED <<formula, value, m_phase, sheet_pc, edit, edits, recalculated>>

\* A forward edge, or an address without a cell.
SkipRoot ==
    /\ InPass /\ stack = <<>> /\ next \in Addresses
    /\ IsSet(next) => Discovered(next) /\ processed[next]
    /\ next' = next + 1
    /\ UNCHANGED <<cellVars, m_phase, sheet_pc, stack, edit, edits, recalculated>>

\* The formula parses and the argument after Top.vals is to be evaluated.
AtArgument ==
    /\ InPass /\ stack # <<>>
    /\ formula[Top.cell].op \notin {"invalid", "range"}
    /\ Len(Top.vals) < Len(formula[Top.cell].args)
Argument == formula[Top.cell].args[Len(Top.vals) + 1]
Returned(v) == stack' = Append(Pop, [Top EXCEPT !.vals = Append(@, v)])

EvaluateLiteral ==
    /\ AtArgument /\ Argument.kind = "literal"
    /\ Returned(Argument.text)
    /\ UNCHANGED <<cellVars, m_phase, sheet_pc, next, edit, edits, recalculated>>

\* evalAddressCallback for an address without a cell, or a cell that is done.
EvaluateAddress ==
    /\ AtArgument /\ Argument.kind = "cell"
    /\ IF IsSet(Argument.at)
       THEN Discovered(Argument.at) /\ processed[Argument.at] /\ Returned(value[Argument.at])
       ELSE Returned(<<>>)
    /\ UNCHANGED <<cellVars, m_phase, sheet_pc, next, edit, edits, recalculated>>

\* evalAddressCallback recalculates the cell first.
Descend ==
    /\ AtArgument /\ Argument.kind = "cell"
    /\ IsSet(Argument.at) /\ ~Discovered(Argument.at)
    /\ Push(Argument.at)
    /\ UNCHANGED <<formula, value, m_phase, sheet_pc, next, edit, edits, recalculated>>

Evaluated ==
    /\ InPass /\ stack # <<>>
    /\ formula[Top.cell].op \in {"leaf", "add", "subtract"}
    /\ Len(Top.vals) = Len(formula[Top.cell].args)

\* Mutant: the cell is marked although its value is only stored at the end.
FinishUnstored ==
    /\ Evaluated
    /\ processed' = [processed EXCEPT ![Top.cell] = TRUE]
    /\ stack' = Pop
    /\ UNCHANGED <<formula, value, phase, m_phase, sheet_pc, next, edit, edits, recalculated>>

Finish ==
    /\ Evaluated
    /\ value' = [value EXCEPT ![Top.cell] = Evaluate(formula[Top.cell].op, Top.vals)]
    /\ processed' = [processed EXCEPT ![Top.cell] = TRUE]
    /\ stack' = Pop
    /\ UNCHANGED <<formula, phase, m_phase, sheet_pc, next, edit, edits, recalculated>>

\* A formula that does not parse, a function call after its arguments, a cycle.
Throws ==
    /\ InPass /\ stack # <<>>
    /\ \/ formula[Top.cell].op = "invalid"
       \/ formula[Top.cell].op = "call" /\ Len(Top.vals) = 1
       \/ /\ AtArgument /\ Argument.kind = "cell" /\ IsSet(Argument.at)
          /\ Discovered(Argument.at) /\ ~processed[Argument.at]

-----------------------------------------------------------------------------
(***************************************************************************)
(* The console: eval() for an input with an address and a formula.         *)
(***************************************************************************)
\* setFormula: a new cell, or another formula for an old one.
SetFormula(a, f) ==
    /\ formula' = [formula EXCEPT ![a] = f]
    /\ IF IsSet(a) THEN UNCHANGED <<value, phase, processed>>
       ELSE /\ value' = [value EXCEPT ![a] = <<>>]
            /\ phase' = [phase EXCEPT ![a] = 0]
            /\ processed' = [processed EXCEPT ![a] = FALSE]

Input ==
    /\ sheet_pc = "idle" /\ edits < MaxEdits
    /\ edits' = edits + 1
    /\ \E a \in Addresses, f \in Formulas :
          /\ edit' = [at |-> a, old |-> formula[a]]
          /\ SetFormula(a, f)
    /\ BeginPass("first")
    /\ recalculated' = FALSE

\* recalculate() has returned; eval calls it once more, whatever happened.
FirstPassEnds ==
    /\ sheet_pc = "first" /\ stack = <<>> /\ next \notin Addresses
    /\ BeginPass("second")
    /\ UNCHANGED <<cellVars, edit, edits, recalculated>>

PassEnds ==
    /\ sheet_pc = "second" /\ stack = <<>> /\ next \notin Addresses
    /\ sheet_pc' = "idle"
    /\ recalculated' = TRUE
    /\ UNCHANGED <<cellVars, m_phase, next, stack, edit, edits>>

\* Mutant: the new formula is kept.
KeepEdit ==
    /\ sheet_pc = "first" /\ Throws
    /\ BeginPass("second")
    /\ UNCHANGED <<cellVars, edit, edits, recalculated>>

\* catch: the previous formula is restored, or the new cell erased.
TakeBack ==
    /\ sheet_pc = "first" /\ Throws
    /\ formula' = [formula EXCEPT ![edit.at] = edit.old]
    /\ BeginPass("second")
    /\ UNCHANGED <<value, phase, processed, edit, edits, recalculated>>

\* Address() throws std::invalid_argument, which eval does not catch; and
\* nothing is caught in the second pass.
Uncaught ==
    /\ InPass
    /\ \/ stack # <<>> /\ formula[Top.cell].op = "range"
       \/ sheet_pc = "second" /\ Throws
    /\ sheet_pc' = "terminated"
    /\ UNCHANGED <<cellVars, m_phase, next, stack, edit, edits, recalculated>>

-----------------------------------------------------------------------------
PassStep ==
    \/ VisitRoot \/ SkipRoot \/ EvaluateLiteral \/ EvaluateAddress \/ Descend \/ Finish

SheetNext ==
    \/ Input \/ PassStep \/ FirstPassEnds \/ PassEnds \/ TakeBack \/ Uncaught

SheetSpec == SheetInit /\ [][SheetNext]_sheetVars

(***************************************************************************)
(* Properties.                                                             *)
(***************************************************************************)
\* Type invariant of the sheet.
SheetTypeOK ==
    /\ formula \in [Addresses -> Formulas \cup {NoFormula}]
    /\ value \in [Addresses -> Seq(Characters)]
    /\ phase \in [Addresses -> {-1, 0, 1}]
    /\ processed \in [Addresses -> BOOLEAN]
    /\ m_phase \in {-1, 1}
    /\ sheet_pc \in {"idle", "first", "second", "terminated"}
    /\ next \in 1 .. Columns + 1
    /\ stack \in Seq([cell : Addresses, vals : Seq(Seq(Characters))])
    /\ edit \in [at : Addresses, old : Formulas \cup {NoFormula}]
    /\ edits \in 0 .. MaxEdits
    /\ recalculated \in BOOLEAN

LeafValue(leaf) ==
    IF leaf.kind = "literal" THEN leaf.text
    ELSE IF IsSet(leaf.at) THEN value[leaf.at] ELSE <<>>

\* The cell shows what its formula says of the values the other cells show.
Consistent(a) ==
    /\ formula[a].op \in {"leaf", "add", "subtract"}
    /\ value[a] = Evaluate(formula[a].op,
                           [i \in DOMAIN formula[a].args |-> LeafValue(formula[a].args[i])])

\* sheet.hpp: recalculate() is there to "force a recalculation of all values in
\* the sheet": when it has returned, no cell shows a stale value.  A session of
\* the console keeps this through every edit that fails half way.
RecalculatedIsFresh ==
    sheet_pc = "idle" /\ recalculated => \A a \in Addresses : IsSet(a) => Consistent(a)

\* The second pass of eval runs outside the try block.  It never throws: the
\* edit that made the first one throw has been taken back, and no cell is left
\* half processed under the sign that the second pass uses.
SecondPassNeverThrows == ~(sheet_pc = "second" /\ Throws)

=============================================================================
