----------------------------- MODULE ExampleProofs -----------------------------
(***************************************************************************)
(* Proofs about two of the example programs: the sheet of inspect, and the *)
(* paths and the percent-encoding of uri, for texts of any length.         *)
(***************************************************************************)
EXTENDS InspectSheet, UriPath, ResponseReaderProofs

-----------------------------------------------------------------------------
(***************************************************************************)
(* The sheet, of any size and with any formulas.                           *)
(*                                                                         *)
(* Between the inputs the values are a solution of the formulas, and the   *)
(* references descend in some rank (Model).  The invariant of a pass says  *)
(* what the stack of calls knows (StackInv).  In the first pass the        *)
(* solution of the formulas before the edit is still there for the cells   *)
(* that the pass has not reached (OldKept), and the cells that it has      *)
(* finished form a solution of the new formulas so far (FreshUpTo): one of *)
(* the two is what the second pass starts from.                            *)
(***************************************************************************)
Frames == [cell : Addresses, vals : Seq(Seq(Characters))]
Values == [Addresses -> Seq(Characters)]
Ranks == [Addresses -> Nat]

GoodOps == {"leaf", "add", "subtract"}

\* The value of a leaf, and what a formula says, when f are the formulas and v the
\* values of all cells.
ValueIn(f, v, leaf) ==
    IF leaf.kind = "literal" THEN leaf.text
    ELSE IF f[leaf.at] # NoFormula THEN v[leaf.at] ELSE <<>>

Says(f, v, a) ==
    Evaluate(f[a].op, [i \in DOMAIN f[a].args |-> ValueIn(f, v, f[a].args[i])])

Refers(f, a, b) ==
    /\ f[b] # NoFormula
    /\ \E i \in DOMAIN f[a].args : f[a].args[i].kind = "cell" /\ f[a].args[i].at = b

\* The values v solve the formulas f, whose references descend in the rank r.
Model(f, v, r) ==
    \A a \in Addresses : f[a] # NoFormula =>
        /\ f[a].op \in GoodOps
        /\ v[a] = Says(f, v, a)
        /\ \A b \in Addresses : Refers(f, a, b) => r[b] < r[a]

\* A cell that this pass has finished, and one that it has only begun.
Done(a) == phase[a] = m_phase /\ processed[a]
Begun(a) == phase[a] = m_phase /\ ~processed[a]

\* What a call on the stack has read so far is still what it would read.
FrameOK(frame) ==
    /\ IsSet(frame.cell) /\ Begun(frame.cell)
    /\ Len(frame.vals) <= Len(formula[frame.cell].args)
    /\ \A j \in 1 .. Len(frame.vals) :
          LET leaf == formula[frame.cell].args[j] IN
          /\ leaf.kind = "cell" /\ IsSet(leaf.at) => Done(leaf.at)
          /\ frame.vals[j] = LeafValue(leaf)

StackInv ==
    /\ \A i \in 1 .. Len(stack) : FrameOK(stack[i])
    /\ \A i, j \in 1 .. Len(stack) : stack[i].cell = stack[j].cell => i = j
    /\ \A a \in Addresses : IsSet(a) /\ Begun(a) =>
          \E i \in 1 .. Len(stack) : stack[i].cell = a
    /\ \A a \in Addresses : a < next /\ IsSet(a) => phase[a] = m_phase

OldFormula == [formula EXCEPT ![edit.at] = edit.old]

OldKept(v) ==
    \A a \in Addresses : OldFormula[a] # NoFormula /\ phase[a] = -m_phase =>
        processed[a] /\ value[a] = v[a]

FreshUpTo(r) ==
    \A a \in Addresses : IsSet(a) /\ Done(a) =>
        /\ formula[a].op \in GoodOps
        /\ value[a] = Says(formula, value, a)
        /\ \A b \in Addresses : Refers(formula, a, b) => Done(b) /\ r[b] < r[a]

\* The second pass comes to the solution v, down the rank r.
Reached(v) == \A a \in Addresses : IsSet(a) /\ Done(a) => value[a] = v[a]
Descending(r) ==
    \A i, j \in 1 .. Len(stack) : i < j => r[stack[j].cell] < r[stack[i].cell]

FirstInv ==
    sheet_pc = "first" =>
        /\ StackInv
        /\ \E v \in Values, r \in Ranks : Model(OldFormula, v, r) /\ OldKept(v)
        /\ \E r \in Ranks : FreshUpTo(r)

SecondInv ==
    sheet_pc = "second" =>
        /\ StackInv
        /\ \E v \in Values, r \in Ranks :
              Model(formula, v, r) /\ Reached(v) /\ Descending(r)

RestInv ==
    sheet_pc = "idle" =>
        \E v \in Values, r \in Ranks :
            /\ Model(formula, v, r)
            /\ \A a \in Addresses : IsSet(a) => Done(a) /\ value[a] = v[a]

SheetInv == SheetTypeOK /\ FirstInv /\ SecondInv /\ RestInv

-----------------------------------------------------------------------------
(***************************************************************************)
(* Lemmas about the data.                                                  *)
(***************************************************************************)
\* A cell that is set has a formula with leaves, as many as its operator takes.
LEMMA SetFormulas ==
    ASSUME SheetTypeOK, NEW a \in Addresses, IsSet(a)
    PROVE  /\ formula[a] \in Formulas
           /\ formula[a].op \in Operators
           /\ formula[a].args \in Seq(Leaf)
           /\ Len(formula[a].args) = Arity[formula[a].op]
           /\ \A i \in 1 .. Len(formula[a].args) :
                 /\ formula[a].args[i] \in Leaf
                 /\ formula[a].args[i].kind \in {"literal", "cell"}
                 /\ formula[a].args[i].kind = "literal" => formula[a].args[i].text \in Seq(Characters)
                 /\ formula[a].args[i].kind = "cell" => formula[a].args[i].at \in Addresses
<1>1. formula[a] \in Formulas
  BY DEF SheetTypeOK, IsSet
<1>2. /\ formula[a].op \in Operators /\ formula[a].args \in Seq(Leaf)
      /\ Len(formula[a].args) = Arity[formula[a].op]
  BY <1>1, FormulaAssumption
<1>3. ASSUME NEW leaf \in Leaf
      PROVE  /\ leaf.kind \in {"literal", "cell"}
             /\ leaf.kind = "literal" => leaf.text \in Seq(Characters)
             /\ leaf.kind = "cell" => leaf.at \in Addresses
  BY DEF Leaf
<1>4. \A i \in 1 .. Len(formula[a].args) : formula[a].args[i] \in Leaf
  BY <1>2
<1>5. QED
  BY <1>1, <1>2, <1>3, <1>4

\* No formula that may be typed is the absence of one.
LEMMA FormulaIsSet == NoFormula \notin Formulas
  BY FormulaAssumption DEF NoFormula, Operators

\* The value of a formula is a text.
LEMMA EvaluateType ==
    ASSUME NEW op \in GoodOps, NEW vals \in Seq(Seq(Characters)), Len(vals) = Arity[op]
    PROVE  Evaluate(op, vals) \in Seq(Characters)
<1>1. CASE op = "leaf"
  BY <1>1 DEF Evaluate, Arity
<1>2. CASE op \in {"add", "subtract"}
  <2>1. vals[1] \in Seq(Characters) /\ vals[2] \in Seq(Characters)
    BY <1>2 DEF Arity
  <2>2. ASSUME NEW text \in Seq(Characters), IsNumber(text) PROVE Number(text) \in Int
    BY <2>2 DEF IsNumber, Number, Characters
  <2>3. Evaluate(op, vals) = BinaryOp(op, vals[1], vals[2])
    BY <1>2 DEF Evaluate
  <2>4. ASSUME IsNumber(vals[1]), IsNumber(vals[2])
        PROVE  BinaryOp(op, vals[1], vals[2]) \in Seq(Characters)
    <3>1. Number(vals[1]) \in Int /\ Number(vals[2]) \in Int
      BY <2>1, <2>2, <2>4
    <3> DEFINE m == Number(vals[1])
               n == Number(vals[2])
    <3>2. m + n \in Int /\ m - n \in Int
      BY <3>1
    <3>3. <<m + n>> \in Seq(Characters) /\ <<m - n>> \in Seq(Characters)
      <4> HIDE DEF m, n
      <4> QED
        BY <3>2 DEF Characters
    <3>4. QED
      BY <2>4, <3>3 DEF BinaryOp
  <2>5. ASSUME ~(IsNumber(vals[1]) /\ IsNumber(vals[2]))
        PROVE  BinaryOp(op, vals[1], vals[2]) \in Seq(Characters)
    <3>1. vals[1] \o vals[2] \in Seq(Characters) /\ <<Letter>> \in Seq(Characters)
      BY <2>1 DEF Characters
    <3>2. QED
      BY <2>5, <3>1 DEF BinaryOp
  <2>6. QED
    BY <2>3, <2>4, <2>5
<1>3. QED
  BY <1>1, <1>2 DEF GoodOps

\* The top of a stack that is not empty, and the rest.
LEMMA TopFacts ==
    ASSUME SheetTypeOK, stack # <<>>
    PROVE  /\ Len(stack) \in Nat /\ Len(stack) >= 1
           /\ stack \in Seq(Frames)
           /\ Top = stack[Len(stack)] /\ Top \in Frames
           /\ Top.cell \in Addresses /\ Top.vals \in Seq(Seq(Characters))
           /\ Pop \in Seq(Frames) /\ Len(Pop) = Len(stack) - 1
           /\ \A i \in 1 .. Len(stack) - 1 : Pop[i] = stack[i]
<1>1. stack \in Seq(Frames)
  BY DEF SheetTypeOK, Frames
<1>2. Len(stack) \in Nat /\ Len(stack) >= 1
  BY <1>1
<1>3. Top = stack[Len(stack)] /\ Top \in Frames
  BY <1>1, <1>2 DEF Top
<1>4. Top.cell \in Addresses /\ Top.vals \in Seq(Seq(Characters))
  BY <1>3 DEF Frames
<1>5. /\ Pop \in Seq(Frames) /\ Len(Pop) = Len(stack) - 1
      /\ \A i \in 1 .. Len(stack) - 1 : Pop[i] = stack[i]
  BY <1>1, <1>2 DEF Pop
<1>6. QED
  BY <1>1, <1>2, <1>3, <1>4, <1>5

\* The argument that the top is at.
LEMMA ArgumentFacts ==
    ASSUME SheetTypeOK, AtArgument
    PROVE  /\ stack # <<>> /\ Top.cell \in Addresses /\ IsSet(Top.cell)
           /\ Len(Top.vals) \in Nat
           /\ Len(Top.vals) + 1 \in 1 .. Len(formula[Top.cell].args)
           /\ Argument = formula[Top.cell].args[Len(Top.vals) + 1]
           /\ Argument.kind \in {"literal", "cell"}
           /\ Argument.kind = "literal" => Argument.text \in Seq(Characters)
           /\ Argument.kind = "cell" => Argument.at \in Addresses
<1>1. stack # <<>> /\ Top.cell \in Addresses /\ Top.vals \in Seq(Seq(Characters))
  BY TopFacts DEF AtArgument
<1>2. Len(Top.vals) \in Nat /\ Len(Top.vals) < Len(formula[Top.cell].args)
  BY <1>1 DEF AtArgument
<1>3. IsSet(Top.cell)
  <2>1. CASE formula[Top.cell] = NoFormula
    <3>1. Len(formula[Top.cell].args) = 0
      BY <2>1 DEF NoFormula
    <3>2. QED
      BY <1>2, <3>1
  <2>2. QED
    BY <2>1 DEF IsSet
<1>4. /\ formula[Top.cell].args \in Seq(Leaf)
      /\ \A i \in 1 .. Len(formula[Top.cell].args) :
            /\ formula[Top.cell].args[i].kind \in {"literal", "cell"}
            /\ formula[Top.cell].args[i].kind = "literal" =>
                  formula[Top.cell].args[i].text \in Seq(Characters)
            /\ formula[Top.cell].args[i].kind = "cell" =>
                  formula[Top.cell].args[i].at \in Addresses
  BY <1>1, <1>3, SetFormulas
<1>5. Len(Top.vals) + 1 \in 1 .. Len(formula[Top.cell].args)
  BY <1>2, <1>4
<1>6. QED
  BY <1>1, <1>2, <1>3, <1>4, <1>5 DEF Argument

\* The top of a stack whose arguments are all there.
LEMMA EvaluatedFacts ==
    ASSUME SheetTypeOK, Evaluated
    PROVE  /\ stack # <<>> /\ Top.cell \in Addresses /\ IsSet(Top.cell)
           /\ formula[Top.cell].op \in GoodOps
           /\ Top.vals \in Seq(Seq(Characters))
           /\ Len(Top.vals) = Len(formula[Top.cell].args)
           /\ Len(Top.vals) = Arity[formula[Top.cell].op]
           /\ Evaluate(formula[Top.cell].op, Top.vals) \in Seq(Characters)
<1>1. stack # <<>> /\ Top.cell \in Addresses /\ Top.vals \in Seq(Seq(Characters))
  BY TopFacts DEF Evaluated
<1>2. formula[Top.cell].op \in GoodOps /\ IsSet(Top.cell)
  BY DEF Evaluated, GoodOps, IsSet, NoFormula
<1>3. Len(Top.vals) = Len(formula[Top.cell].args)
  BY DEF Evaluated
<1>4. Len(formula[Top.cell].args) = Arity[formula[Top.cell].op]
  BY <1>1, <1>2, SetFormulas
<1>5. Evaluate(formula[Top.cell].op, Top.vals) \in Seq(Characters)
  BY <1>1, <1>2, <1>3, <1>4, EvaluateType
<1>6. QED
  BY <1>1, <1>2, <1>3, <1>4, <1>5

\* Returned() adds a value to the top, and changes nothing else.
LEMMA ReturnedFacts ==
    ASSUME SheetTypeOK, stack # <<>>, NEW v \in Seq(Characters), Returned(v)
    PROVE  /\ stack' \in Seq(Frames) /\ Len(stack') = Len(stack)
           /\ \A i \in 1 .. Len(stack) : stack'[i].cell = stack[i].cell
           /\ \A i \in 1 .. Len(stack) - 1 : stack'[i] = stack[i]
           /\ stack'[Len(stack)].vals = Append(Top.vals, v)
           /\ stack'[Len(stack)].cell = Top.cell
<1> DEFINE new == [Top EXCEPT !.vals = Append(@, v)]
<1>0. /\ Append(Top.vals, v) \in Seq(Seq(Characters))
      /\ Top \in [cell : Addresses, vals : Seq(Seq(Characters))]
  BY TopFacts DEF Frames
<1>1. new \in Frames /\ new.cell = Top.cell /\ new.vals = Append(Top.vals, v)
  BY <1>0 DEF Frames
<1>2. stack' = Append(Pop, new)
  BY DEF Returned
<1> HIDE DEF new
<1>3. /\ stack' \in Seq(Frames) /\ Len(stack') = Len(stack)
      /\ \A i \in 1 .. Len(stack) - 1 : stack'[i] = stack[i]
      /\ stack'[Len(stack)] = new
  BY <1>1, <1>2, TopFacts
<1>4. ASSUME NEW i \in 1 .. Len(stack) PROVE stack'[i].cell = stack[i].cell
  <2>1. CASE i = Len(stack)
    BY <1>1, <1>3, <2>1, TopFacts
  <2>2. CASE i # Len(stack)
    <3>1. i \in 1 .. Len(stack) - 1
      BY <2>2, TopFacts
    <3>2. QED
      BY <1>3, <3>1
  <2>3. QED
    BY <2>1, <2>2
<1>5. QED
  BY <1>1, <1>3, <1>4

\* Push() begins a cell.
LEMMA PushFacts ==
    ASSUME SheetTypeOK, NEW a \in Addresses, Push(a)
    PROVE  /\ stack' \in Seq(Frames) /\ Len(stack') = Len(stack) + 1
           /\ Len(stack) \in Nat
           /\ \A i \in 1 .. Len(stack) : stack'[i] = stack[i]
           /\ stack'[Len(stack) + 1].cell = a /\ stack'[Len(stack) + 1].vals = <<>>
           /\ \A b \in Addresses : phase'[b] = IF b = a THEN m_phase ELSE phase[b]
           /\ \A b \in Addresses : processed'[b] = IF b = a THEN FALSE ELSE processed[b]
<1> DEFINE new == [cell |-> a, vals |-> <<>>]
<1>1. new \in Frames /\ new.cell = a /\ new.vals = <<>>
  BY DEF Frames
<1>2. stack' = Append(stack, new) /\ stack \in Seq(Frames)
  BY DEF Push, SheetTypeOK, Frames
<1> HIDE DEF new
<1>3. /\ stack' \in Seq(Frames) /\ Len(stack') = Len(stack) + 1 /\ Len(stack) \in Nat
      /\ \A i \in 1 .. Len(stack) : stack'[i] = stack[i]
      /\ stack'[Len(stack) + 1] = new
  BY <1>1, <1>2
<1>4. QED
  BY <1>1, <1>3 DEF Push, SheetTypeOK

-----------------------------------------------------------------------------
(***************************************************************************)
(* Types.                                                                  *)
(***************************************************************************)
\* Every step keeps the types.
LEMMA StepSheetTypeOK == SheetTypeOK /\ [SheetNext]_sheetVars => SheetTypeOK'
<1> SUFFICES ASSUME SheetTypeOK, [SheetNext]_sheetVars PROVE SheetTypeOK'
  OBVIOUS
<1>t. m_phase \in {-1, 1} /\ -m_phase \in {-1, 1}
  BY DEF SheetTypeOK
<1>e. <<>> \in Seq(Frames)
  OBVIOUS
<1>1. CASE VisitRoot
  BY <1>1, PushFacts, FormulaAssumption DEF VisitRoot, Push, SheetTypeOK, Frames, Addresses
<1>2. CASE SkipRoot
  BY <1>2, FormulaAssumption DEF SkipRoot, SheetTypeOK, cellVars, Addresses
<1>3. CASE EvaluateLiteral
  <2>1. stack # <<>> /\ Argument.text \in Seq(Characters)
    BY <1>3, ArgumentFacts DEF EvaluateLiteral
  <2>2. stack' \in Seq(Frames)
    BY <1>3, <2>1, ReturnedFacts DEF EvaluateLiteral
  <2>3. QED
    BY <1>3, <2>2 DEF EvaluateLiteral, SheetTypeOK, cellVars, Frames
<1>4. CASE EvaluateAddress
  <2>1. stack # <<>> /\ Argument.at \in Addresses
    BY <1>4, ArgumentFacts DEF EvaluateAddress
  <2>2. value[Argument.at] \in Seq(Characters) /\ <<>> \in Seq(Characters)
    BY <2>1 DEF SheetTypeOK
  <2>3. stack' \in Seq(Frames)
    BY <1>4, <2>1, <2>2, ReturnedFacts DEF EvaluateAddress
  <2>4. QED
    BY <1>4, <2>3 DEF EvaluateAddress, SheetTypeOK, cellVars, Frames
<1>5. CASE Descend
  <2>1. stack # <<>> /\ Argument.at \in Addresses
    BY <1>5, ArgumentFacts DEF Descend
  <2>2. QED
    BY <1>5, <2>1, PushFacts DEF Descend, Push, SheetTypeOK, Frames
<1>6. CASE Finish
  <2>1. Top.cell \in Addresses /\ Evaluate(formula[Top.cell].op, Top.vals) \in Seq(Characters)
    BY <1>6, EvaluatedFacts DEF Finish
  <2>2. stack' \in Seq(Frames)
    BY <1>6, TopFacts DEF Finish, Evaluated
  <2>3. /\ value' \in [Addresses -> Seq(Characters)]
        /\ processed' \in [Addresses -> BOOLEAN]
    BY <1>6, <2>1 DEF Finish, SheetTypeOK
  <2>4. QED
    BY <1>6, <2>2, <2>3 DEF Finish, SheetTypeOK, Frames
<1>7. CASE Input
  <2>1. PICK a \in Addresses, f \in Formulas :
           edit' = [at |-> a, old |-> formula[a]] /\ SetFormula(a, f)
    BY <1>7 DEF Input
  <2>2. /\ formula' \in [Addresses -> Formulas \cup {NoFormula}]
        /\ value' \in [Addresses -> Seq(Characters)]
        /\ phase' \in [Addresses -> {-1, 0, 1}]
        /\ processed' \in [Addresses -> BOOLEAN]
    <3>1. formula' \in [Addresses -> Formulas \cup {NoFormula}]
      BY <2>1 DEF SetFormula, SheetTypeOK
    <3>2. CASE IsSet(a)
      BY <2>1, <3>1, <3>2 DEF SetFormula, SheetTypeOK
    <3>3. CASE ~IsSet(a)
      <4>1. <<>> \in Seq(Characters)
        BY SMT
      <4>2. /\ value' = [value EXCEPT ![a] = <<>>]
            /\ phase' = [phase EXCEPT ![a] = 0]
            /\ processed' = [processed EXCEPT ![a] = FALSE]
        BY <2>1, <3>3 DEF SetFormula
      <4>3. value' \in [Addresses -> Seq(Characters)]
        BY <4>1, <4>2 DEF SheetTypeOK
      <4>4. QED
        BY <3>1, <4>2, <4>3 DEF SheetTypeOK
    <3>4. QED
      BY <3>2, <3>3
  <2>3. edit' \in [at : Addresses, old : Formulas \cup {NoFormula}]
    BY <2>1 DEF SheetTypeOK
  <2>4. /\ m_phase' \in {-1, 1} /\ next' = 1 /\ stack' = <<>> /\ sheet_pc' = "first"
        /\ edits' \in 0 .. MaxEdits /\ recalculated' = FALSE
    BY <1>7, <1>t, FormulaAssumption DEF Input, BeginPass, SheetTypeOK
  <2>5. 1 \in 1 .. Columns + 1
    BY FormulaAssumption
  <2>6. QED
    BY <1>e, <2>2, <2>3, <2>4, <2>5 DEF SheetTypeOK, Frames
<1>8. CASE FirstPassEnds \/ PassEnds \/ Uncaught
  <2>1. CASE FirstPassEnds
    <3>1. m_phase' \in {-1, 1} /\ next' \in 1 .. Columns + 1 /\ stack' = <<>>
      BY <1>t, <2>1, FormulaAssumption DEF FirstPassEnds, BeginPass
    <3>2. QED
      BY <1>e, <2>1, <3>1 DEF FirstPassEnds, BeginPass, SheetTypeOK, cellVars, Frames
  <2>2. CASE PassEnds
    BY <2>2 DEF PassEnds, SheetTypeOK, cellVars
  <2>3. CASE Uncaught
    BY <2>3 DEF Uncaught, SheetTypeOK, cellVars
  <2>4. QED
    BY <1>8, <2>1, <2>2, <2>3
<1>9. CASE TakeBack
  <2>1. edit.at \in Addresses /\ edit.old \in Formulas \cup {NoFormula}
    BY DEF SheetTypeOK
  <2>2. 1 \in 1 .. Columns + 1
    BY FormulaAssumption
  <2>3. QED
    BY <1>9, <1>t, <2>1, <2>2 DEF TakeBack, BeginPass, SheetTypeOK
<1>10. CASE UNCHANGED sheetVars
  BY <1>10 DEF sheetVars, cellVars, SheetTypeOK
<1>11. QED
  BY <1>1, <1>2, <1>3, <1>4, <1>5, <1>6, <1>7, <1>8, <1>9, <1>10 DEF SheetNext, PassStep

-----------------------------------------------------------------------------
(***************************************************************************)
(* The stack of a pass.                                                    *)
(***************************************************************************)
\* A frame stays right when its cell and what it has read stay as they were.
LEMMA FrameKept ==
    ASSUME SheetTypeOK, NEW frame \in Frames, FrameOK(frame), UNCHANGED <<formula, m_phase>>,
           phase'[frame.cell] = phase[frame.cell],
           processed'[frame.cell] = processed[frame.cell],
           \A a \in Addresses : Done(a) => Done(a)' /\ value'[a] = value[a]
    PROVE  \A f : f = frame => FrameOK(f)'
<1> SUFFICES ASSUME NEW f, f = frame PROVE FrameOK(f)'
  OBVIOUS
<1>1. frame.cell \in Addresses /\ frame.vals \in Seq(Seq(Characters))
  BY DEF Frames
<1>2. IsSet(frame.cell)
  BY DEF FrameOK
<1>3. ASSUME NEW j \in 1 .. Len(frame.vals)
      PROVE  LET leaf == formula[frame.cell].args[j] IN
             /\ leaf.kind \in {"literal", "cell"}
             /\ leaf.kind = "cell" => leaf.at \in Addresses
  <2>1. j \in 1 .. Len(formula[frame.cell].args)
    BY <1>1, <1>2, SetFormulas DEF FrameOK
  <2>2. QED
    BY <1>1, <1>2, <2>1, SetFormulas
<1>4. ASSUME NEW j \in 1 .. Len(frame.vals)
      PROVE  LET leaf == formula[frame.cell].args[j] IN
             /\ leaf.kind = "cell" /\ IsSet(leaf.at)' => Done(leaf.at)'
             /\ frame.vals[j] = LeafValue(leaf)'
  <2> DEFINE leaf == formula[frame.cell].args[j]
  <2>1. /\ leaf.kind \in {"literal", "cell"}
        /\ leaf.kind = "cell" => leaf.at \in Addresses
    BY <1>3
  <2>2. /\ leaf.kind = "cell" /\ IsSet(leaf.at) => Done(leaf.at)
        /\ frame.vals[j] = LeafValue(leaf)
    BY DEF FrameOK
  <2>3. leaf' = leaf
    BY DEF leaf
  <2> HIDE DEF leaf
  <2>4. leaf.kind = "cell" => (IsSet(leaf.at)' <=> IsSet(leaf.at))
    BY <2>3 DEF IsSet
  <2>5. leaf.kind = "cell" /\ IsSet(leaf.at) => Done(leaf.at)' /\ value'[leaf.at] = value[leaf.at]
    BY <2>1, <2>2, <2>3 DEF Done
  <2>6. LeafValue(leaf)' = LeafValue(leaf)
    BY <2>1, <2>3, <2>4, <2>5 DEF LeafValue
  <2>7. QED
    BY <2>2, <2>3, <2>4, <2>5, <2>6 DEF leaf
<1>5. QED
  BY <1>1, <1>4 DEF FrameOK, IsSet, Begun

\* Beginning a cell that this pass has not discovered keeps the stack right.
LEMMA PushStackInv ==
    ASSUME SheetTypeOK, StackInv, NEW a \in Addresses, IsSet(a), ~Discovered(a), Push(a),
           UNCHANGED <<formula, value, m_phase>>,
           next' = next \/ (next' = next + 1 /\ next = a)
    PROVE  StackInv'
<1>p. /\ stack \in Seq(Frames) /\ Len(stack) \in Nat
      /\ stack' \in Seq(Frames) /\ Len(stack') = Len(stack) + 1
      /\ \A i \in 1 .. Len(stack) : stack'[i] = stack[i]
      /\ stack'[Len(stack) + 1].cell = a /\ stack'[Len(stack) + 1].vals = <<>>
      /\ \A b \in Addresses : phase'[b] = IF b = a THEN m_phase ELSE phase[b]
      /\ \A b \in Addresses : processed'[b] = IF b = a THEN FALSE ELSE processed[b]
  BY PushFacts DEF SheetTypeOK, Frames
<1> USE <1>p
<1>0. \A i \in 1 .. Len(stack) : stack[i] \in Frames /\ stack'[i] \in Frames
  OBVIOUS
<1>1. \A b \in Addresses : Done(b) => b # a /\ Done(b)' /\ value'[b] = value[b]
  BY DEF Done, Discovered
<1>2. ASSUME NEW i \in 1 .. Len(stack')
      PROVE  FrameOK(stack[i])'
  <2>1. CASE i \in 1 .. Len(stack)
    <3>1. PICK f \in Frames : f = stack[i]
      BY <1>0, <2>1
    <3>2. FrameOK(f)
      BY <2>1, <3>1 DEF StackInv
    <3>3. f.cell \in Addresses /\ f.cell # a
      BY <3>2 DEF FrameOK, Begun, Discovered, Frames
    <3>4. FrameOK(f)'
      BY <1>1, <3>2, <3>3, FrameKept
    <3>5. f = stack'[i]
      BY <2>1, <3>1
    <3>6. QED
      BY <3>4, <3>5
  <2>2. CASE i = Len(stack) + 1
    <3>0. stack'[Len(stack) + 1] \in Frames
      OBVIOUS
    <3>1. PICK f \in Frames : f = stack'[i]
      BY <2>2, <3>0
    <3>2. f.cell = a /\ f.vals = <<>>
      BY <2>2, <3>1
    <3>3. Len(formula[a].args) \in Nat
      BY SetFormulas
    <3>4. IsSet(a)' /\ Begun(a)'
      BY DEF IsSet, Begun
    <3>5. FrameOK(f)'
      BY <3>2, <3>3, <3>4 DEF FrameOK
    <3>6. QED
      BY <3>1, <3>5
  <2>3. QED
    BY <2>1, <2>2
<1>3. ASSUME NEW i \in 1 .. Len(stack)
      PROVE  stack[i].cell \in Addresses /\ stack[i].cell # a
  <2>1. stack[i].cell \in Addresses
    BY <1>0 DEF Frames
  <2>2. Begun(stack[i].cell)
    BY DEF StackInv, FrameOK
  <2>3. QED
    BY <2>1, <2>2 DEF Begun, Discovered
<1>4. ASSUME NEW i \in 1 .. Len(stack'), NEW j \in 1 .. Len(stack'),
             stack'[i].cell = stack'[j].cell
      PROVE  i = j
  <2>1. CASE i \in 1 .. Len(stack) /\ j \in 1 .. Len(stack)
    BY <1>4, <2>1 DEF StackInv
  <2>2. CASE i = Len(stack) + 1 /\ j \in 1 .. Len(stack)
    BY <1>3, <1>4, <2>2
  <2>3. CASE j = Len(stack) + 1 /\ i \in 1 .. Len(stack)
    BY <1>3, <1>4, <2>3
  <2>4. QED
    BY <2>1, <2>2, <2>3
<1>5. ASSUME NEW b \in Addresses, IsSet(b)', Begun(b)'
      PROVE  \E i \in 1 .. Len(stack') : stack'[i].cell = b
  <2>1. CASE b = a
    <3>1. Len(stack) + 1 \in 1 .. Len(stack')
      OBVIOUS
    <3>2. QED
      BY <2>1, <3>1
  <2>2. CASE b # a
    <3>1. IsSet(b) /\ Begun(b)
      BY <1>5, <2>2 DEF Begun, IsSet
    <3>2. PICK i \in 1 .. Len(stack) : stack[i].cell = b
      BY <3>1 DEF StackInv
    <3>3. i \in 1 .. Len(stack') /\ stack'[i].cell = b
      BY <3>2
    <3>4. QED
      BY <3>3
  <2>3. QED
    BY <2>1, <2>2
<1>6. ASSUME NEW b \in Addresses, b < next', IsSet(b)' PROVE phase'[b] = m_phase'
  <2>1. b = a \/ b < next
    BY <1>6 DEF Addresses, SheetTypeOK
  <2>2. QED
    BY <1>6, <2>1 DEF StackInv, IsSet
<1>7. QED
  BY <1>2, <1>4, <1>5, <1>6 DEF StackInv

\* Returning the value that the argument has now keeps it right.
LEMMA ReturnedStackInv ==
    ASSUME SheetTypeOK, StackInv, AtArgument, NEW v \in Seq(Characters), Returned(v),
           v = LeafValue(Argument),
           Argument.kind = "cell" /\ IsSet(Argument.at) => Done(Argument.at),
           UNCHANGED <<cellVars, m_phase, next>>
    PROVE  StackInv'
<1>a. stack # <<>>
  BY ArgumentFacts
<1>t. /\ Len(stack) \in Nat /\ Len(stack) >= 1 /\ stack \in Seq(Frames)
      /\ Top = stack[Len(stack)] /\ Top \in Frames
      /\ Top.cell \in Addresses /\ Top.vals \in Seq(Seq(Characters))
  BY <1>a, TopFacts
<1>r. /\ stack' \in Seq(Frames) /\ Len(stack') = Len(stack)
      /\ \A i \in 1 .. Len(stack) : stack'[i].cell = stack[i].cell
      /\ \A i \in 1 .. Len(stack) - 1 : stack'[i] = stack[i]
      /\ stack'[Len(stack)].vals = Append(Top.vals, v)
      /\ stack'[Len(stack)].cell = Top.cell
  BY <1>a, ReturnedFacts
<1> USE <1>t, <1>r DEF cellVars
<1>1. ASSUME NEW i \in 1 .. Len(stack') PROVE FrameOK(stack[i])'
  <2>1. CASE i \in 1 .. Len(stack) - 1
    <3>1. PICK f \in Frames : f = stack[i]
      BY <2>1
    <3>2. FrameOK(f)
      BY <2>1, <3>1 DEF StackInv
    <3>3. FrameOK(f)'
      BY <3>2, FrameKept DEF Done
    <3>4. f = stack'[i]
      BY <2>1, <3>1
    <3>5. QED
      BY <3>3, <3>4
  <2>2. CASE i = Len(stack)
    <3> DEFINE n == Len(Top.vals)
    <3>1. PICK f \in Frames : f = stack'[i]
      BY <2>2
    <3>2. PICK g \in Frames : g = Top
      OBVIOUS
    <3>3. FrameOK(g)
      BY <3>2 DEF StackInv
    <3>4. f.cell = g.cell /\ f.vals = Append(g.vals, v) /\ g.vals \in Seq(Seq(Characters))
      BY <2>2, <3>1, <3>2
    <3>5. /\ Len(f.vals) = Len(g.vals) + 1 /\ f.vals[Len(g.vals) + 1] = v
          /\ \A j \in 1 .. Len(g.vals) : f.vals[j] = g.vals[j]
          /\ Len(g.vals) \in Nat
      BY <3>4
    <3>6. /\ Len(g.vals) + 1 \in 1 .. Len(formula[g.cell].args)
          /\ Len(formula[g.cell].args) \in Nat
          /\ Argument = formula[g.cell].args[Len(g.vals) + 1]
      BY <3>2, ArgumentFacts, SetFormulas
    <3>7. ASSUME NEW j \in 1 .. Len(f.vals)
          PROVE  LET leaf == formula[f.cell].args[j] IN
                 /\ leaf.kind = "cell" /\ IsSet(leaf.at) => Done(leaf.at)
                 /\ f.vals[j] = LeafValue(leaf)
      <4>1. CASE j = Len(g.vals) + 1
        BY <3>4, <3>5, <3>6, <4>1
      <4>2. CASE j \in 1 .. Len(g.vals)
        BY <3>3, <3>4, <3>5, <4>2 DEF FrameOK
      <4>3. QED
        BY <3>5, <4>1, <4>2, SMTT(30)
    <3>8. FrameOK(f)
      <4>1. IsSet(f.cell) /\ Begun(f.cell)
        BY <3>3, <3>4 DEF FrameOK
      <4>2. Len(f.vals) <= Len(formula[f.cell].args)
        BY <3>4, <3>5, <3>6
      <4>3. QED
        BY <3>7, <4>1, <4>2 DEF FrameOK
    <3>9. FrameOK(f)'
      BY <3>8, FrameKept DEF Done
    <3>10. QED
      BY <3>1, <3>9
  <2>3. QED
    BY <2>1, <2>2
<1>2. \A i, j \in 1 .. Len(stack') : stack'[i].cell = stack'[j].cell => i = j
  BY DEF StackInv
<1>3. ASSUME NEW b \in Addresses, IsSet(b)', Begun(b)'
      PROVE  \E i \in 1 .. Len(stack') : stack'[i].cell = b
  <2>1. IsSet(b) /\ Begun(b)
    BY <1>3 DEF Begun, IsSet
  <2>2. PICK i \in 1 .. Len(stack) : stack[i].cell = b
    BY <2>1 DEF StackInv
  <2>3. QED
    BY <2>2
<1>4. ASSUME NEW b \in Addresses, b < next', IsSet(b)' PROVE phase'[b] = m_phase'
  BY <1>4 DEF StackInv, IsSet
<1>5. QED
  BY <1>1, <1>2, <1>3, <1>4 DEF StackInv

\* A cell that is finished leaves the stack, and nobody else has read it.
LEMMA FinishStackInv ==
    ASSUME SheetTypeOK, StackInv, Finish
    PROVE  StackInv'
<1> DEFINE c == Top.cell
<1>1. /\ stack # <<>> /\ c \in Addresses /\ c = stack[Len(stack)].cell
      /\ Len(stack) \in Nat /\ Len(stack) >= 1
      /\ stack' \in Seq(Frames) /\ Len(stack') = Len(stack) - 1
      /\ \A i \in 1 .. Len(stack) - 1 : stack'[i] = stack[i]
      /\ stack \in Seq(Frames)
  BY EvaluatedFacts, TopFacts DEF Finish
<1>2. /\ UNCHANGED <<formula, phase, m_phase, next>>
      /\ \A b \in Addresses : b # c => value'[b] = value[b] /\ processed'[b] = processed[b]
      /\ processed'[c] = TRUE
  BY <1>1 DEF Finish, SheetTypeOK
<1> HIDE DEF c
<1>3. Begun(c)
  BY <1>1 DEF StackInv, FrameOK
<1>4. \A b \in Addresses : Done(b) => b # c /\ Done(b)' /\ value'[b] = value[b]
  BY <1>2, <1>3 DEF Done, Begun
<1>5. ASSUME NEW i \in 1 .. Len(stack') PROVE FrameOK(stack[i])'
  <2>1. i \in 1 .. Len(stack) - 1 /\ i # Len(stack) /\ i \in 1 .. Len(stack)
    BY <1>1
  <2>2. PICK f \in Frames : f = stack[i]
    BY <1>1, <2>1
  <2>3. FrameOK(f) /\ f.cell # c /\ f.cell \in Addresses
    BY <1>1, <2>1, <2>2 DEF StackInv, Frames
  <2>4. FrameOK(f)'
    BY <1>2, <1>4, <2>3, FrameKept
  <2>5. f = stack'[i]
    BY <1>1, <2>1, <2>2
  <2>6. QED
    BY <2>4, <2>5
<1>6. \A i, j \in 1 .. Len(stack') : stack'[i].cell = stack'[j].cell => i = j
  BY <1>1 DEF StackInv
<1>7. ASSUME NEW b \in Addresses, IsSet(b)', Begun(b)'
      PROVE  \E i \in 1 .. Len(stack') : stack'[i].cell = b
  <2>1. b # c /\ IsSet(b) /\ Begun(b)
    BY <1>2, <1>7 DEF Begun, IsSet
  <2>2. PICK i \in 1 .. Len(stack) : stack[i].cell = b
    BY <2>1 DEF StackInv
  <2>3. i \in 1 .. Len(stack')
    BY <1>1, <2>1, <2>2
  <2>4. QED
    BY <1>1, <2>2, <2>3
<1>8. ASSUME NEW b \in Addresses, b < next', IsSet(b)' PROVE phase'[b] = m_phase'
  BY <1>2, <1>8 DEF StackInv, IsSet
<1>9. QED
  BY <1>5, <1>6, <1>7, <1>8 DEF StackInv

\* Every step of a pass keeps the stack right.
LEMMA PassStackInv == SheetTypeOK /\ StackInv /\ PassStep => StackInv'
<1> SUFFICES ASSUME SheetTypeOK, StackInv, PassStep PROVE StackInv'
  OBVIOUS
<1>1. CASE VisitRoot
  BY <1>1, PushStackInv DEF VisitRoot
<1>2. CASE SkipRoot
  <2>1. /\ UNCHANGED <<cellVars, m_phase, stack>> /\ next' = next + 1
        /\ IsSet(next) => phase[next] = m_phase
    BY <1>2 DEF SkipRoot, Discovered
  <2>2. ASSUME NEW b \in Addresses, b < next', IsSet(b)' PROVE phase'[b] = m_phase'
    <3>1. b = next \/ b < next
      BY <2>1, <2>2, SMTT(30) DEF Addresses, SheetTypeOK
    <3>2. QED
      BY <2>1, <2>2, <3>1 DEF StackInv, IsSet, cellVars
  <2>3. \A i \in 1 .. Len(stack) : FrameOK(stack[i])'
    BY <2>1, ZenonT(60) DEF StackInv, FrameOK, IsSet, Begun, Done, LeafValue, cellVars
  <2>4. QED
    BY <2>1, <2>2, <2>3 DEF StackInv, IsSet, Begun, cellVars
<1>3. CASE EvaluateLiteral
  BY <1>3, ReturnedStackInv, ArgumentFacts DEF EvaluateLiteral, LeafValue
<1>4. CASE EvaluateAddress
  <2>1. AtArgument /\ Argument.kind = "cell" /\ Argument.at \in Addresses
        /\ UNCHANGED <<cellVars, m_phase, next>>
    BY <1>4, ArgumentFacts DEF EvaluateAddress
  <2>2. value[Argument.at] \in Seq(Characters) /\ <<>> \in Seq(Characters)
    BY <2>1 DEF SheetTypeOK
  <2>3. CASE IsSet(Argument.at)
    <3>1. Returned(value[Argument.at]) /\ Done(Argument.at)
      BY <1>4, <2>3 DEF EvaluateAddress, Done, Discovered
    <3>2. LeafValue(Argument) = value[Argument.at]
      BY <2>1, <2>3 DEF LeafValue
    <3>3. QED
      BY <2>1, <2>2, <3>1, <3>2, ReturnedStackInv
  <2>4. CASE ~IsSet(Argument.at)
    <3>1. Returned(<<>>) /\ LeafValue(Argument) = <<>>
      BY <1>4, <2>1, <2>4 DEF EvaluateAddress, LeafValue
    <3>2. QED
      BY <2>1, <2>2, <2>4, <3>1, ReturnedStackInv
  <2>5. QED
    BY <2>3, <2>4
<1>5. CASE Descend
  BY <1>5, PushStackInv, ArgumentFacts DEF Descend
<1>6. CASE Finish
  BY <1>6, FinishStackInv
<1>7. QED
  BY <1>1, <1>2, <1>3, <1>4, <1>5, <1>6 DEF PassStep

-----------------------------------------------------------------------------
(***************************************************************************)
(* What a step of a pass does to the cells.                                *)
(***************************************************************************)
\* A step begins a cell that was not discovered, finishes the one on the top, or
\* changes no cell at all.
LEMMA PassCells ==
    ASSUME SheetTypeOK, StackInv, PassStep
    PROVE  /\ UNCHANGED <<formula, m_phase, sheet_pc, edit>>
           /\ \A a \in Addresses : Done(a) => Done(a)' /\ value'[a] = value[a]
           /\ \A a \in Addresses : phase[a] # m_phase /\ phase'[a] # m_phase =>
                 /\ phase'[a] = phase[a] /\ processed'[a] = processed[a]
                 /\ value'[a] = value[a]
           /\ \A a \in Addresses : phase'[a] # m_phase => phase[a] # m_phase
           /\ \A a \in Addresses : Done(a)' => Done(a) \/ (Finish /\ a = Top.cell)
           /\ Finish \/ UNCHANGED value
<1>1. ASSUME NEW c \in Addresses, ~Discovered(c), Push(c),
             UNCHANGED <<formula, value, m_phase, sheet_pc, edit>>
      PROVE  /\ \A a \in Addresses : Done(a) => Done(a)' /\ value'[a] = value[a]
             /\ \A a \in Addresses : phase[a] # m_phase /\ phase'[a] # m_phase =>
                   phase'[a] = phase[a] /\ processed'[a] = processed[a]
             /\ \A a \in Addresses : phase'[a] # m_phase => phase[a] # m_phase
             /\ \A a \in Addresses : Done(a)' => Done(a)
  <2>1. \A b \in Addresses : /\ phase'[b] = IF b = c THEN m_phase ELSE phase[b]
                             /\ processed'[b] = IF b = c THEN FALSE ELSE processed[b]
    BY <1>1, PushFacts
  <2>2. QED
    BY <1>1, <2>1 DEF Done, Discovered
<1>2. CASE VisitRoot
  BY <1>1, <1>2 DEF VisitRoot
<1>3. CASE Descend
  BY <1>1, <1>3, ArgumentFacts DEF Descend
<1>4. CASE SkipRoot \/ EvaluateLiteral \/ EvaluateAddress
  <2>1. UNCHANGED <<formula, value, phase, processed, m_phase, sheet_pc, edit>>
    BY <1>4 DEF SkipRoot, EvaluateLiteral, EvaluateAddress, cellVars
  <2>2. QED
    BY <2>1 DEF Done
<1>5. CASE Finish
  <2> DEFINE c == Top.cell
  <2>1. stack # <<>> /\ c \in Addresses
    BY <1>5, EvaluatedFacts DEF Finish
  <2>2. Begun(c)
    BY <2>1, TopFacts DEF StackInv, FrameOK
  <2>3. /\ UNCHANGED <<formula, phase, m_phase, sheet_pc, edit>>
        /\ \A b \in Addresses : b # c => value'[b] = value[b] /\ processed'[b] = processed[b]
        /\ processed'[c] = TRUE
    BY <1>5, <2>1 DEF Finish, SheetTypeOK
  <2>4. QED
    BY <1>5, <2>2, <2>3 DEF Done, Begun
<1>6. QED
  BY <1>2, <1>3, <1>4, <1>5 DEF PassStep

\* What the formula of a cell says depends on the cells it refers to.
LEMMA SaysKept ==
    ASSUME NEW f, NEW v, NEW w, NEW a,
           \A i \in DOMAIN f[a].args :
              /\ f[a].args[i].kind \in {"literal", "cell"}
              /\ f[a].args[i].kind = "cell" => f[a].args[i].at \in Addresses,
           \A b \in Addresses : Refers(f, a, b) => w[b] = v[b]
    PROVE  Says(f, w, a) = Says(f, v, a)
<1>1. ASSUME NEW i \in DOMAIN f[a].args
      PROVE  ValueIn(f, w, f[a].args[i]) = ValueIn(f, v, f[a].args[i])
  BY DEF ValueIn, Refers
<1>2. [i \in DOMAIN f[a].args |-> ValueIn(f, w, f[a].args[i])]
        = [i \in DOMAIN f[a].args |-> ValueIn(f, v, f[a].args[i])]
  BY <1>1
<1>3. QED
  BY <1>2 DEF Says

\* The leaves of a cell that is set, in the form that SaysKept takes them.
LEMMA SetLeaves ==
    ASSUME SheetTypeOK, NEW a \in Addresses, IsSet(a)
    PROVE  /\ DOMAIN formula[a].args = 1 .. Len(formula[a].args)
           /\ \A i \in DOMAIN formula[a].args :
                 /\ formula[a].args[i].kind \in {"literal", "cell"}
                 /\ formula[a].args[i].kind = "cell" => formula[a].args[i].at \in Addresses
<1>1. DOMAIN formula[a].args = 1 .. Len(formula[a].args)
  BY SetFormulas
<1>2. QED
  BY <1>1, SetFormulas

\* A cell whose arguments are all there has read only finished cells, and what it
\* stores is what its formula says of them.
LEMMA TopSays ==
    ASSUME SheetTypeOK, StackInv, Evaluated
    PROVE  /\ Evaluate(formula[Top.cell].op, Top.vals) = Says(formula, value, Top.cell)
           /\ \A b \in Addresses : Refers(formula, Top.cell, b) => Done(b)
<1> DEFINE c == Top.cell
           args == formula[c].args
<1>1. /\ stack # <<>> /\ c \in Addresses /\ IsSet(c)
      /\ Top.vals \in Seq(Seq(Characters)) /\ Len(Top.vals) = Len(args)
  BY EvaluatedFacts
<1>2. PICK frame \in Frames : frame = Top
  BY <1>1, TopFacts
<1>3. FrameOK(frame)
  BY <1>1, <1>2, TopFacts DEF StackInv
<1>4. /\ DOMAIN args = 1 .. Len(args)
      /\ \A i \in DOMAIN args : /\ args[i].kind \in {"literal", "cell"}
                                /\ args[i].kind = "cell" => args[i].at \in Addresses
  BY <1>1, SetLeaves
<1>5. ASSUME NEW i \in DOMAIN args
      PROVE  /\ args[i].kind = "cell" /\ IsSet(args[i].at) => Done(args[i].at)
             /\ Top.vals[i] = ValueIn(formula, value, args[i])
  <2>1. /\ args[i].kind = "cell" /\ IsSet(args[i].at) => Done(args[i].at)
        /\ Top.vals[i] = LeafValue(args[i])
    BY <1>1, <1>2, <1>3, <1>4 DEF FrameOK
  <2>2. QED
    BY <2>1 DEF LeafValue, ValueIn, IsSet
<1>6. Top.vals = [i \in DOMAIN args |-> ValueIn(formula, value, args[i])]
  <2>1. Top.vals = [i \in 1 .. Len(Top.vals) |-> Top.vals[i]]
    BY <1>1, LenProperties
  <2>2. Top.vals = [i \in DOMAIN args |-> Top.vals[i]]
    BY <1>1, <1>4, <2>1
  <2>3. [i \in DOMAIN args |-> Top.vals[i]]
          = [i \in DOMAIN args |-> ValueIn(formula, value, args[i])]
    BY <1>5
  <2>4. QED
    BY <2>2, <2>3
<1>7. \A b \in Addresses : Refers(formula, c, b) => Done(b)
  BY <1>5 DEF Refers, IsSet
<1>8. QED
  BY <1>6, <1>7 DEF Says

-----------------------------------------------------------------------------
(***************************************************************************)
(* The first pass.                                                         *)
(***************************************************************************)
\* The cells that the pass has not reached keep the values from before the edit.
LEMMA OldIsKept ==
    ASSUME SheetTypeOK, StackInv, PassStep, NEW v \in Values, OldKept(v)
    PROVE  OldKept(v)'
<1>1. OldFormula' = OldFormula /\ m_phase' = m_phase
  BY PassCells DEF OldFormula
<1>2. SUFFICES ASSUME NEW a \in Addresses, OldFormula[a] # NoFormula, phase'[a] = -m_phase
               PROVE  processed'[a] /\ value'[a] = v[a]
  BY <1>1 DEF OldKept
<1>3. phase'[a] # m_phase
  BY <1>2 DEF SheetTypeOK
<1>4. phase[a] = -m_phase /\ processed'[a] = processed[a] /\ value'[a] = value[a]
  BY <1>2, <1>3, PassCells
<1>5. QED
  BY <1>2, <1>4 DEF OldKept

\* Some number exceeds the ranks of the cells that a cell refers to.
LEMMA RankAbove ==
    ASSUME SheetTypeOK, NEW a \in Addresses, IsSet(a), formula[a].op \in GoodOps,
           NEW r \in Ranks
    PROVE  \E n \in Nat : \A b \in Addresses : Refers(formula, a, b) => r[b] < n
<1> DEFINE args == formula[a].args
           rank == [i \in DOMAIN args |-> IF args[i].kind = "cell" THEN r[args[i].at] ELSE 0]
<1>1. \A i \in DOMAIN args : rank[i] \in Nat
  BY SetLeaves DEF Ranks
<1>2. \A b \in Addresses : Refers(formula, a, b) => \E i \in DOMAIN args : rank[i] = r[b]
  BY DEF Refers
<1>3. DOMAIN args = 1 .. Arity[formula[a].op]
  BY SetLeaves, SetFormulas
<1> HIDE DEF rank, args
<1>4. CASE formula[a].op = "leaf"
  <2>1. DOMAIN args = {1}
    BY <1>3, <1>4 DEF Arity
  <2>2. rank[1] \in Nat
    BY <1>1, <2>1
  <2>3. \A b \in Addresses : Refers(formula, a, b) => r[b] < rank[1] + 1
    BY <1>2, <2>1, <2>2
  <2>4. QED
    BY <2>2, <2>3
<1>5. CASE formula[a].op \in {"add", "subtract"}
  <2>1. DOMAIN args = {1, 2}
    BY <1>3, <1>5 DEF Arity
  <2>2. rank[1] \in Nat /\ rank[2] \in Nat
    BY <1>1, <2>1
  <2>3. \A b \in Addresses : Refers(formula, a, b) => r[b] = rank[1] \/ r[b] = rank[2]
    BY <1>2, <2>1
  <2>4. \A b \in Addresses : Refers(formula, a, b) => r[b] < rank[1] + rank[2] + 1
    BY <2>2, <2>3
  <2>5. rank[1] + rank[2] + 1 \in Nat
    BY <2>2
  <2>6. QED
    BY <2>4, <2>5
<1>6. QED
  BY <1>4, <1>5 DEF GoodOps

\* The finished cells remain a solution of the formulas so far.
LEMMA FreshIsKept ==
    ASSUME SheetTypeOK, StackInv, PassStep, NEW r \in Ranks, FreshUpTo(r)
    PROVE  \E r2 \in Ranks : FreshUpTo(r2)'
<1>1. /\ formula' = formula
      /\ \A a \in Addresses : Done(a) => Done(a)' /\ value'[a] = value[a]
      /\ \A a \in Addresses : Done(a)' => Done(a) \/ (Finish /\ a = Top.cell)
  BY PassCells
<1>2. ASSUME NEW a \in Addresses, IsSet(a), Done(a)
      PROVE  /\ formula[a].op \in GoodOps
             /\ value'[a] = Says(formula, value', a)
             /\ \A b \in Addresses : Refers(formula, a, b) => Done(b)' /\ Done(b) /\ r[b] < r[a]
  <2>1. /\ formula[a].op \in GoodOps
        /\ value[a] = Says(formula, value, a)
        /\ \A b \in Addresses : Refers(formula, a, b) => Done(b) /\ r[b] < r[a]
    BY <1>2 DEF FreshUpTo
  <2>2. Says(formula, value', a) = Says(formula, value, a)
    BY <1>1, <1>2, <2>1, SetLeaves, SaysKept
  <2>3. QED
    BY <1>1, <1>2, <2>1, <2>2
<1>3. CASE ~Finish
  <2>1. FreshUpTo(r)'
    BY <1>1, <1>2, <1>3 DEF FreshUpTo, IsSet
  <2>2. QED
    BY <2>1
<1>4. CASE Finish
  <2> DEFINE c == Top.cell
  <2>1. /\ Evaluated /\ stack # <<>> /\ c \in Addresses /\ IsSet(c)
        /\ formula[c].op \in GoodOps
    BY <1>4, EvaluatedFacts DEF Finish
  <2>2. PICK n \in Nat : \A b \in Addresses : Refers(formula, c, b) => r[b] < n
    BY <2>1, RankAbove
  <2>3. ~Done(c)
    BY <2>1, TopFacts DEF StackInv, FrameOK, Begun, Done
  <2>4. /\ value'[c] = Says(formula, value, c)
        /\ \A b \in Addresses : Refers(formula, c, b) => Done(b)
    BY <1>4, <2>1, TopSays DEF Finish, SheetTypeOK
  <2>5. PICK r2 \in Ranks : r2[c] = n /\ \A b \in Addresses : b # c => r2[b] = r[b]
    <3>1. [r EXCEPT ![c] = n] \in Ranks
      BY <2>1 DEF Ranks
    <3>2. QED
      BY <2>1, <3>1 DEF Ranks
  <2> HIDE DEF c
  <2>6. ASSUME NEW a \in Addresses, IsSet(a)', Done(a)'
        PROVE  /\ formula[a].op \in GoodOps
               /\ value'[a] = Says(formula, value', a)
               /\ \A b \in Addresses : Refers(formula, a, b) => Done(b)' /\ r2[b] < r2[a]
    <3>1. CASE a = c
      <4>1. \A b \in Addresses : Refers(formula, c, b) =>
               Done(b) /\ Done(b)' /\ value'[b] = value[b] /\ b # c
        BY <1>1, <2>3, <2>4
      <4>2. Says(formula, value', c) = Says(formula, value, c)
        BY <2>1, <4>1, SetLeaves, SaysKept
      <4>3. QED
        BY <2>1, <2>2, <2>4, <2>5, <3>1, <4>1, <4>2
    <3>2. CASE a # c
      <4>1. IsSet(a) /\ Done(a)
        BY <1>1, <2>6, <3>2 DEF IsSet, c
      <4>2. /\ formula[a].op \in GoodOps /\ value'[a] = Says(formula, value', a)
            /\ \A b \in Addresses : Refers(formula, a, b) =>
                  Done(b)' /\ Done(b) /\ r[b] < r[a]
        BY <1>2, <4>1
      <4>3. QED
        BY <2>3, <2>5, <3>2, <4>2
    <3>3. QED
      BY <3>1, <3>2
  <2>7. FreshUpTo(r2)'
    BY <1>1, <2>6 DEF FreshUpTo
  <2>8. QED
    BY <2>5, <2>7
<1>5. QED
  BY <1>3, <1>4

-----------------------------------------------------------------------------
(***************************************************************************)
(* The second pass.                                                        *)
(***************************************************************************)
\* A call reads only what it refers to, and no call on the stack is in vain: the
\* ranks descend from the root to the top.
LEMMA PushDescends ==
    ASSUME SheetTypeOK, NEW a \in Addresses, Push(a), NEW r \in Ranks, Descending(r),
           \A i \in 1 .. Len(stack) : r[a] < r[stack[i].cell]
    PROVE  Descending(r)'
<1>1. /\ Len(stack) \in Nat /\ Len(stack') = Len(stack) + 1
      /\ \A i \in 1 .. Len(stack) : stack'[i] = stack[i]
      /\ stack'[Len(stack) + 1].cell = a
  BY PushFacts
<1>2. ASSUME NEW i \in 1 .. Len(stack'), NEW j \in 1 .. Len(stack'), i < j
      PROVE  r[stack'[j].cell] < r[stack'[i].cell]
  <2>1. CASE j \in 1 .. Len(stack)
    <3>1. i \in 1 .. Len(stack)
      BY <1>1, <1>2, <2>1
    <3>2. QED
      BY <1>1, <1>2, <2>1, <3>1 DEF Descending
  <2>2. CASE j = Len(stack) + 1
    <3>1. i \in 1 .. Len(stack)
      BY <1>1, <1>2, <2>2
    <3>2. QED
      BY <1>1, <2>2, <3>1
  <2>3. QED
    BY <1>1, <2>1, <2>2
<1>3. QED
  BY <1>2 DEF Descending

\* The argument that the top is at is a reference of its cell: its rank is below
\* that of every cell on the stack.
LEMMA ArgumentBelow ==
    ASSUME SheetTypeOK, AtArgument, Argument.kind = "cell", IsSet(Argument.at),
           NEW v \in Values, NEW r \in Ranks, Model(formula, v, r), Descending(r)
    PROVE  \A i \in 1 .. Len(stack) : r[Argument.at] < r[stack[i].cell]
<1>1. /\ stack # <<>> /\ Top.cell \in Addresses /\ IsSet(Top.cell)
      /\ Argument = formula[Top.cell].args[Len(Top.vals) + 1]
      /\ Len(Top.vals) + 1 \in 1 .. Len(formula[Top.cell].args)
      /\ Argument.at \in Addresses
  BY ArgumentFacts
<1>2. DOMAIN formula[Top.cell].args = 1 .. Len(formula[Top.cell].args)
  BY <1>1, SetLeaves
<1>3. Refers(formula, Top.cell, Argument.at)
  BY <1>1, <1>2 DEF Refers, IsSet
<1>4. r[Argument.at] < r[Top.cell]
  BY <1>1, <1>3 DEF Model, IsSet
<1>5. /\ Len(stack) \in Nat /\ Len(stack) >= 1 /\ Top = stack[Len(stack)]
      /\ stack \in Seq(Frames)
  BY <1>1, TopFacts
<1>6. ASSUME NEW i \in 1 .. Len(stack) PROVE r[Argument.at] < r[stack[i].cell]
  <2>1. CASE i = Len(stack)
    BY <1>4, <1>5, <2>1
  <2>2. CASE i < Len(stack)
    <3>1. r[Top.cell] < r[stack[i].cell]
      BY <1>5, <2>2 DEF Descending
    <3>2. stack[i].cell \in Addresses
      <4>1. stack[i] \in Frames
        BY <1>5
      <4>2. QED
        BY <4>1 DEF Frames
    <3>3. r[Argument.at] \in Nat /\ r[Top.cell] \in Nat /\ r[stack[i].cell] \in Nat
      BY <1>1, <3>2 DEF Ranks
    <3>4. QED
      BY <1>4, <3>1, <3>3
  <2>3. QED
    BY <1>5, <2>1, <2>2
<1>7. QED
  BY <1>6

\* A step of the second pass comes closer to the solution.
LEMMA SecondIsReached ==
    ASSUME SheetTypeOK, StackInv, PassStep, NEW v \in Values, NEW r \in Ranks,
           Model(formula, v, r), Reached(v), Descending(r)
    PROVE  Reached(v)' /\ Descending(r)'
<1>1. /\ formula' = formula
      /\ \A a \in Addresses : Done(a) => Done(a)' /\ value'[a] = value[a]
      /\ \A a \in Addresses : Done(a)' => Done(a) \/ (Finish /\ a = Top.cell)
  BY PassCells
<1>2. Reached(v)'
  <2>1. SUFFICES ASSUME NEW a \in Addresses, IsSet(a), Done(a)' PROVE value'[a] = v[a]
    BY <1>1 DEF Reached, IsSet
  <2>2. CASE Done(a)
    BY <1>1, <2>1, <2>2 DEF Reached
  <2>3. CASE Finish /\ a = Top.cell
    <3>1. Evaluated /\ formula[a].op \in GoodOps
      BY <2>1, <2>3, EvaluatedFacts DEF Finish
    <3>2. /\ value'[a] = Says(formula, value, a)
          /\ \A b \in Addresses : Refers(formula, a, b) => Done(b)
      BY <2>1, <2>3, <3>1, TopSays DEF Finish, SheetTypeOK
    <3>3. \A b \in Addresses : Refers(formula, a, b) => value[b] = v[b]
      BY <3>2 DEF Reached, Refers, IsSet
    <3>4. Says(formula, value, a) = Says(formula, v, a)
      BY <2>1, <3>3, SetLeaves, SaysKept
    <3>5. v[a] = Says(formula, v, a)
      BY <2>1 DEF Model, IsSet
    <3>6. QED
      BY <3>2, <3>4, <3>5
  <2>4. QED
    BY <1>1, <2>1, <2>2, <2>3
<1>3. Descending(r)'
  <2>1. CASE VisitRoot
    <3>1. \A i \in 1 .. Len(stack) : r[next] < r[stack[i].cell]
      BY <2>1 DEF VisitRoot
    <3>2. QED
      BY <2>1, <3>1, PushDescends DEF VisitRoot
  <2>2. CASE Descend
    <3>1. AtArgument /\ Argument.kind = "cell" /\ IsSet(Argument.at) /\ Push(Argument.at)
      BY <2>2 DEF Descend
    <3>2. PICK b \in Addresses : b = Argument.at
      BY <3>1, ArgumentFacts
    <3>3. \A i \in 1 .. Len(stack) : r[b] < r[stack[i].cell]
      BY <3>1, <3>2, ArgumentBelow
    <3>4. QED
      BY <3>1, <3>2, <3>3, PushDescends
  <2>3. CASE SkipRoot
    BY <2>3 DEF SkipRoot, Descending
  <2>4. CASE EvaluateLiteral
    <3>1. stack # <<>> /\ Argument.text \in Seq(Characters) /\ Returned(Argument.text)
      BY <2>4, ArgumentFacts DEF EvaluateLiteral
    <3>2. Len(stack') = Len(stack) /\ \A i \in 1 .. Len(stack) : stack'[i].cell = stack[i].cell
      BY <3>1, ReturnedFacts
    <3>3. QED
      BY <3>2 DEF Descending
  <2>5. CASE EvaluateAddress
    <3>1. stack # <<>> /\ Argument.at \in Addresses
      BY <2>5, ArgumentFacts DEF EvaluateAddress
    <3>2. value[Argument.at] \in Seq(Characters) /\ <<>> \in Seq(Characters)
      BY <3>1 DEF SheetTypeOK
    <3>3. Len(stack') = Len(stack) /\ \A i \in 1 .. Len(stack) : stack'[i].cell = stack[i].cell
      BY <2>5, <3>1, <3>2, ReturnedFacts DEF EvaluateAddress
    <3>4. QED
      BY <3>3 DEF Descending
  <2>6. CASE Finish
    <3>1. /\ Len(stack) \in Nat /\ Len(stack') = Len(stack) - 1
          /\ \A i \in 1 .. Len(stack) - 1 : stack'[i] = stack[i]
      BY <2>6, EvaluatedFacts, TopFacts DEF Finish
    <3>2. QED
      BY <3>1 DEF Descending
  <2>7. QED
    BY <2>1, <2>2, <2>3, <2>4, <2>5, <2>6 DEF PassStep
<1>4. QED
  BY <1>2, <1>3

\* Nothing is thrown in the second pass: every formula is one that can be
\* evaluated, and a cell that is on the stack has a higher rank than the argument.
LEMMA SecondNeverThrows == SheetTypeOK /\ SecondInv => SecondPassNeverThrows
<1> SUFFICES ASSUME SheetTypeOK, SecondInv, sheet_pc = "second", Throws PROVE FALSE
  BY DEF SecondPassNeverThrows
<1>1. PICK v \in Values, r \in Ranks : Model(formula, v, r) /\ Descending(r)
  BY DEF SecondInv
<1>2. StackInv
  BY DEF SecondInv
<1>3. stack # <<>> /\ Top.cell \in Addresses
  BY TopFacts DEF Throws
<1>4. IsSet(Top.cell)
  BY <1>2, <1>3, TopFacts DEF StackInv, FrameOK
<1>5. formula[Top.cell].op \in GoodOps
  BY <1>1, <1>3, <1>4 DEF Model, IsSet
<1>6. AtArgument /\ Argument.kind = "cell" /\ IsSet(Argument.at) /\ Begun(Argument.at)
  BY <1>5 DEF Throws, GoodOps, Begun, Discovered
<1>7. Argument.at \in Addresses
  BY <1>6, ArgumentFacts
<1>8. PICK i \in 1 .. Len(stack) : stack[i].cell = Argument.at
  BY <1>2, <1>6, <1>7 DEF StackInv
<1>9. r[Argument.at] < r[Argument.at]
  BY <1>1, <1>6, <1>8, ArgumentBelow
<1>10. r[Argument.at] \in Nat
  BY <1>7 DEF Ranks
<1>11. QED
  BY <1>9, <1>10

-----------------------------------------------------------------------------
(***************************************************************************)
(* From one pass to the next.                                              *)
(***************************************************************************)
\* A pass begins right when no cell is begun.
LEMMA BeginStackInv ==
    ASSUME stack' = <<>>, next' = 1, \A a \in Addresses : IsSet(a)' => ~Begun(a)'
    PROVE  StackInv'
<1>1. Len(stack') = 0
  OBVIOUS
<1>2. \A a \in Addresses : ~(a < next')
  BY DEF Addresses
<1>3. QED
  BY <1>1, <1>2 DEF StackInv

\* When a pass is over, every cell is finished.
LEMMA OverIsDone ==
    ASSUME SheetTypeOK, StackInv, stack = <<>>, next \notin Addresses
    PROVE  \A a \in Addresses : IsSet(a) => Done(a)
<1>1. \A a \in Addresses : a < next
  BY FormulaAssumption DEF SheetTypeOK, Addresses
<1>2. \A a \in Addresses : IsSet(a) => ~Begun(a)
  <2>1. Len(stack) = 0
    OBVIOUS
  <2>2. QED
    BY <2>1 DEF StackInv
<1>3. QED
  BY <1>1, <1>2 DEF StackInv, Begun, Done

\* An input keeps the solution before it for the cells that it leaves alone.
LEMMA InputKeeps == SheetInv /\ Input => FirstInv'
<1> SUFFICES ASSUME SheetTypeOK, RestInv, Input PROVE FirstInv'
  BY DEF SheetInv
<1>1. PICK v \in Values, r \in Ranks :
         /\ Model(formula, v, r)
         /\ \A a \in Addresses : IsSet(a) => Done(a) /\ value[a] = v[a]
  BY DEF RestInv, Input
<1>2. PICK a \in Addresses, f \in Formulas :
         edit' = [at |-> a, old |-> formula[a]] /\ SetFormula(a, f)
  BY DEF Input
<1>3. stack' = <<>> /\ next' = 1 /\ m_phase' = -m_phase
  BY DEF Input, BeginPass
<1>4. m_phase # -m_phase /\ 0 # m_phase /\ 0 # -m_phase /\ -m_phase' = m_phase
  BY <1>3 DEF SheetTypeOK
<1>5. formula' = [formula EXCEPT ![a] = f]
  BY <1>2 DEF SetFormula
<1>6. OldFormula' = formula
  <2>1. OldFormula' = [formula' EXCEPT ![a] = formula[a]]
    BY <1>2 DEF OldFormula
  <2>2. QED
    BY <1>2, <1>5, <2>1 DEF SheetTypeOK
<1>7. ASSUME NEW b \in Addresses
      PROVE  /\ IsSet(b) => /\ phase'[b] = m_phase /\ processed'[b]
                            /\ value'[b] = v[b]
             /\ IsSet(b)' => phase'[b] = m_phase \/ phase'[b] = 0
  <2>1. IsSet(b) => phase[b] = m_phase /\ processed[b] /\ value[b] = v[b]
    BY <1>1 DEF Done
  <2>2. CASE IsSet(a)
    <3>1. UNCHANGED <<value, phase, processed>>
      BY <1>2, <2>2 DEF SetFormula
    <3>2. IsSet(b)' => IsSet(b)
      BY <1>5, <2>2 DEF IsSet, SheetTypeOK
    <3>3. QED
      BY <2>1, <3>1, <3>2
  <2>3. CASE ~IsSet(a)
    <3>1. /\ value' = [value EXCEPT ![a] = <<>>]
          /\ phase' = [phase EXCEPT ![a] = 0]
          /\ processed' = [processed EXCEPT ![a] = FALSE]
      BY <1>2, <2>3 DEF SetFormula
    <3>2. CASE b = a
      BY <2>3, <3>1, <3>2 DEF SheetTypeOK
    <3>3. CASE b # a
      <4>1. IsSet(b)' => IsSet(b)
        BY <1>5, <3>3 DEF IsSet, SheetTypeOK
      <4>2. value'[b] = value[b] /\ phase'[b] = phase[b] /\ processed'[b] = processed[b]
        BY <3>1, <3>3 DEF SheetTypeOK
      <4>3. QED
        BY <2>1, <4>1, <4>2
    <3>4. QED
      BY <3>2, <3>3
  <2>4. QED
    BY <2>2, <2>3
<1>8. \A b \in Addresses : IsSet(b)' => phase'[b] # m_phase'
  BY <1>3, <1>4, <1>7
<1>9. StackInv'
  BY <1>3, <1>8, BeginStackInv DEF Begun
<1>10. Model(OldFormula, v, r)'
  BY <1>1, <1>6
<1>11. OldKept(v)'
  BY <1>6, <1>7 DEF OldKept, IsSet
<1>12. FreshUpTo(r)'
  BY <1>8 DEF FreshUpTo, Done
<1>13. QED
  BY <1>9, <1>10, <1>11, <1>12 DEF FirstInv

\* The first pass has come to a solution of the formulas.
LEMMA FirstEnds == SheetInv /\ FirstPassEnds => SecondInv'
<1> SUFFICES ASSUME SheetTypeOK, FirstInv, FirstPassEnds PROVE SecondInv'
  BY DEF SheetInv
<1>1. StackInv /\ \E r \in Ranks : FreshUpTo(r)
  BY DEF FirstInv, FirstPassEnds
<1>2. PICK r \in Ranks : FreshUpTo(r)
  BY <1>1
<1>3. \A a \in Addresses : IsSet(a) => Done(a)
  BY <1>1, OverIsDone DEF FirstPassEnds
<1>4. /\ UNCHANGED <<formula, value, phase, processed>>
      /\ stack' = <<>> /\ next' = 1 /\ m_phase' = -m_phase
  BY DEF FirstPassEnds, BeginPass, cellVars
<1>5. \A a \in Addresses : IsSet(a)' => phase'[a] # m_phase'
  BY <1>3, <1>4 DEF Done, IsSet, SheetTypeOK
<1>6. StackInv'
  BY <1>4, <1>5, BeginStackInv DEF Begun
<1>7. PICK v \in Values : v = value
  BY DEF Values, SheetTypeOK
<1>8. Model(formula, v, r)
  <2>1. SUFFICES ASSUME NEW a \in Addresses, IsSet(a)
                 PROVE  /\ formula[a].op \in GoodOps /\ v[a] = Says(formula, v, a)
                        /\ \A b \in Addresses : Refers(formula, a, b) => r[b] < r[a]
    BY DEF Model, IsSet
  <2>2. /\ formula[a].op \in GoodOps /\ value[a] = Says(formula, value, a)
        /\ \A b \in Addresses : Refers(formula, a, b) => r[b] < r[a]
    BY <1>2, <1>3, <2>1 DEF FreshUpTo
  <2>3. QED
    BY <1>7, <2>2
<1>9. Model(formula, v, r)'
  BY <1>4, <1>8
<1>10. Reached(v)'
  BY <1>4, <1>7 DEF Reached
<1>11. Descending(r)'
  <2>1. Len(stack') = 0
    BY <1>4
  <2>2. QED
    BY <2>1 DEF Descending
<1>12. QED
  BY <1>6, <1>9, <1>10, <1>11 DEF SecondInv

\* The edit is taken back to formulas of which the cells that the first pass has
\* not reached still show the solution, under the sign of the second pass.
LEMMA TakenBack == SheetInv /\ TakeBack => SecondInv'
<1> SUFFICES ASSUME SheetTypeOK, FirstInv, TakeBack PROVE SecondInv'
  BY DEF SheetInv
<1>1. PICK v \in Values, r \in Ranks : Model(OldFormula, v, r) /\ OldKept(v)
  BY DEF FirstInv, TakeBack
<1>2. /\ UNCHANGED <<value, phase, processed>> /\ formula' = OldFormula
      /\ stack' = <<>> /\ next' = 1 /\ m_phase' = -m_phase
  BY DEF TakeBack, BeginPass, OldFormula
<1>3. \A a \in Addresses : IsSet(a)' /\ phase'[a] = m_phase' =>
         processed'[a] /\ value'[a] = v[a]
  BY <1>1, <1>2 DEF OldKept, IsSet
<1>4. StackInv'
  BY <1>2, <1>3, BeginStackInv DEF Begun
<1>5. Model(formula, v, r)'
  BY <1>1, <1>2
<1>6. Reached(v)'
  BY <1>3 DEF Reached, Done
<1>7. Descending(r)'
  <2>1. Len(stack') = 0
    BY <1>2
  <2>2. QED
    BY <2>1 DEF Descending
<1>8. QED
  BY <1>4, <1>5, <1>6, <1>7 DEF SecondInv

\* The second pass ends with the solution in every cell.
LEMMA SecondEnds == SheetInv /\ PassEnds => RestInv'
<1> SUFFICES ASSUME SheetTypeOK, SecondInv, PassEnds PROVE RestInv'
  BY DEF SheetInv
<1>1. StackInv
  BY DEF SecondInv, PassEnds
<1>2. PICK v \in Values, r \in Ranks : Model(formula, v, r) /\ Reached(v)
  BY DEF SecondInv, PassEnds
<1>3. \A a \in Addresses : IsSet(a) => Done(a)
  BY <1>1, OverIsDone DEF PassEnds
<1>4. UNCHANGED <<formula, value, phase, processed, m_phase>>
  BY DEF PassEnds, cellVars
<1>5. Model(formula, v, r)'
  BY <1>2, <1>4
<1>6. \A a \in Addresses : IsSet(a)' => Done(a)' /\ value'[a] = v[a]
  BY <1>2, <1>3, <1>4 DEF Reached, IsSet, Done
<1>7. QED
  BY <1>5, <1>6 DEF RestInv

\* The invariant holds at first: no cell has a formula.
LEMMA InitSheetInv == SheetInit => SheetInv
<1> SUFFICES ASSUME SheetInit PROVE SheetInv
  OBVIOUS
<1>1. SheetTypeOK
  <2>1. <<>> \in Seq(Characters) /\ <<>> \in Seq(Frames)
    BY SMT
  <2>2. 1 \in 1 .. Columns + 1 /\ 0 \in 0 .. MaxEdits
    BY FormulaAssumption
  <2>3. /\ formula \in [Addresses -> Formulas \cup {NoFormula}]
        /\ value \in [Addresses -> Seq(Characters)]
        /\ phase \in [Addresses -> {-1, 0, 1}]
        /\ processed \in [Addresses -> BOOLEAN]
    BY <2>1 DEF SheetInit
  <2>4. edit \in [at : Addresses, old : Formulas \cup {NoFormula}]
    BY FormulaAssumption DEF SheetInit, Addresses
  <2>5. QED
    BY <2>1, <2>2, <2>3, <2>4 DEF SheetInit, SheetTypeOK, Frames
<1>2. RestInv
  <2>1. PICK v \in Values : v = value
    BY <1>1 DEF Values, SheetTypeOK
  <2>2. PICK r \in Ranks : r = [a \in Addresses |-> 0]
    BY DEF Ranks
  <2>3. \A a \in Addresses : formula[a] = NoFormula
    BY DEF SheetInit
  <2>4. Model(formula, v, r)
    BY <2>3 DEF Model
  <2>5. QED
    BY <2>3, <2>4 DEF RestInv, IsSet
<1>3. FirstInv /\ SecondInv
  BY DEF SheetInit, FirstInv, SecondInv
<1>4. QED
  BY <1>1, <1>2, <1>3 DEF SheetInv

\* Every step keeps the invariant.
LEMMA NextSheetInv == SheetInv /\ [SheetNext]_sheetVars => SheetInv'
<1> SUFFICES ASSUME SheetInv, [SheetNext]_sheetVars PROVE SheetInv'
  OBVIOUS
<1>0. SheetTypeOK /\ FirstInv /\ SecondInv /\ RestInv
  BY DEF SheetInv
<1>t. SheetTypeOK'
  BY <1>0, StepSheetTypeOK
<1>1. CASE PassStep
  <2>0. InPass /\ sheet_pc' = sheet_pc
    BY <1>1 DEF PassStep, VisitRoot, SkipRoot, EvaluateLiteral, EvaluateAddress, Descend,
                Finish, AtArgument, Evaluated
  <2>1. StackInv
    BY <1>0, <2>0 DEF InPass, FirstInv, SecondInv
  <2>2. StackInv'
    BY <1>0, <1>1, <2>1, PassStackInv
  <2>3. CASE sheet_pc = "first"
    <3>1. PICK v \in Values, r \in Ranks : Model(OldFormula, v, r) /\ OldKept(v)
      BY <1>0, <2>3 DEF FirstInv
    <3>2. PICK s \in Ranks : FreshUpTo(s)
      BY <1>0, <2>3 DEF FirstInv
    <3>3. OldKept(v)'
      BY <1>0, <1>1, <2>1, <3>1, OldIsKept
    <3>4. Model(OldFormula, v, r)'
      <4>1. OldFormula' = OldFormula
        BY <1>0, <1>1, <2>1, PassCells DEF OldFormula
      <4>2. QED
        BY <3>1, <4>1
    <3>5. \E s2 \in Ranks : FreshUpTo(s2)'
      BY <1>0, <1>1, <2>1, <3>2, FreshIsKept
    <3>6. FirstInv'
      BY <2>2, <3>3, <3>4, <3>5 DEF FirstInv
    <3>7. SecondInv' /\ RestInv'
      BY <2>0, <2>3 DEF SecondInv, RestInv
    <3>8. QED
      BY <1>t, <3>6, <3>7 DEF SheetInv
  <2>4. CASE sheet_pc = "second"
    <3>1. PICK v \in Values, r \in Ranks : Model(formula, v, r) /\ Reached(v) /\ Descending(r)
      BY <1>0, <2>4 DEF SecondInv
    <3>2. Reached(v)' /\ Descending(r)'
      BY <1>0, <1>1, <2>1, <3>1, SecondIsReached
    <3>3. Model(formula, v, r)'
      <4>1. formula' = formula
        BY <1>0, <1>1, <2>1, PassCells
      <4>2. QED
        BY <3>1, <4>1
    <3>4. SecondInv'
      BY <2>2, <3>2, <3>3 DEF SecondInv
    <3>5. FirstInv' /\ RestInv'
      BY <2>0, <2>4 DEF FirstInv, RestInv
    <3>6. QED
      BY <1>t, <3>4, <3>5 DEF SheetInv
  <2>5. QED
    BY <2>0, <2>3, <2>4 DEF InPass
<1>2. CASE Input
  <2>1. sheet_pc' = "first"
    BY <1>2 DEF Input, BeginPass
  <2>2. FirstInv'
    BY <1>2, InputKeeps
  <2>3. QED
    BY <1>t, <2>1, <2>2 DEF SheetInv, SecondInv, RestInv
<1>3. CASE FirstPassEnds \/ TakeBack
  <2>1. sheet_pc' = "second"
    BY <1>3 DEF FirstPassEnds, TakeBack, BeginPass
  <2>2. SecondInv'
    BY <1>3, FirstEnds, TakenBack
  <2>3. QED
    BY <1>t, <2>1, <2>2 DEF SheetInv, FirstInv, RestInv
<1>4. CASE PassEnds
  <2>1. sheet_pc' = "idle"
    BY <1>4 DEF PassEnds
  <2>2. RestInv'
    BY <1>4, SecondEnds
  <2>3. QED
    BY <1>t, <2>1, <2>2 DEF SheetInv, FirstInv, SecondInv
<1>5. CASE Uncaught
  BY <1>5, <1>t DEF Uncaught, SheetInv, FirstInv, SecondInv, RestInv
<1>6. CASE UNCHANGED sheetVars
  <2>1. UNCHANGED <<formula, value, phase, processed, m_phase, sheet_pc, next, stack, edit>>
    BY <1>6 DEF sheetVars, cellVars
  <2>2. StackInv' <=> StackInv
    BY <2>1 DEF StackInv, FrameOK, IsSet, Begun, Done, LeafValue
  <2>3. FirstInv'
    BY <1>0, <2>1, <2>2, ZenonT(60) DEF FirstInv, OldKept, FreshUpTo, IsSet, Done, OldFormula
  <2>4. SecondInv'
    BY <1>0, <2>1, <2>2 DEF SecondInv, Reached, Descending, IsSet, Done
  <2>5. RestInv'
    BY <1>0, <2>1 DEF RestInv, IsSet, Done
  <2>6. QED
    BY <1>t, <2>3, <2>4, <2>5 DEF SheetInv
<1>7. QED
  BY <1>1, <1>2, <1>3, <1>4, <1>5, <1>6 DEF SheetNext

-----------------------------------------------------------------------------
(***************************************************************************)
(* The theorems of the sheet.                                              *)
(***************************************************************************)
\* The sheet keeps its types: Sheet::recalculate, Evaluator and the console.
THEOREM SheetTypesHold == SheetSpec => []SheetTypeOK
<1>1. SheetInit => SheetTypeOK
  BY InitSheetInv DEF SheetInv
<1>2. QED
  BY <1>1, StepSheetTypeOK, PTL DEF SheetSpec

\* Whatever is typed, the second recalculation of eval, which stands outside the
\* try block of console.rl, throws nothing.
THEOREM SecondPassIsSafe == SheetSpec => []SecondPassNeverThrows
<1>1. SheetInv => SecondPassNeverThrows
  BY SecondNeverThrows DEF SheetInv
<1>2. QED
  BY <1>1, InitSheetInv, NextSheetInv, PTL DEF SheetSpec

\* When the console is ready for the next input, every cell shows what its
\* formula says, however many inputs before have failed half way.
THEOREM SheetIsFresh == SheetSpec => []RecalculatedIsFresh
<1>1. SheetInv => RecalculatedIsFresh
  <2>1. SUFFICES ASSUME SheetTypeOK, RestInv, sheet_pc = "idle",
                        NEW a \in Addresses, IsSet(a)
                 PROVE  Consistent(a)
    BY DEF SheetInv, RecalculatedIsFresh
  <2>2. PICK v \in Values, r \in Ranks :
           /\ Model(formula, v, r)
           /\ \A b \in Addresses : IsSet(b) => value[b] = v[b]
    BY <2>1 DEF RestInv
  <2>3. formula[a].op \in GoodOps /\ v[a] = Says(formula, v, a)
    BY <2>1, <2>2 DEF Model, IsSet
  <2>4. \A b \in Addresses : Refers(formula, a, b) => value[b] = v[b]
    BY <2>2 DEF Refers, IsSet
  <2>5. Says(formula, value, a) = Says(formula, v, a)
    BY <2>1, <2>4, SetLeaves, SaysKept
  <2>6. [i \in DOMAIN formula[a].args |-> LeafValue(formula[a].args[i])]
          = [i \in DOMAIN formula[a].args |-> ValueIn(formula, value, formula[a].args[i])]
    BY DEF LeafValue, ValueIn, IsSet
  <2>7. value[a] = Evaluate(formula[a].op,
                       [i \in DOMAIN formula[a].args |-> LeafValue(formula[a].args[i])])
    BY <2>1, <2>2, <2>3, <2>5, <2>6 DEF Says
  <2>8. QED
    BY <2>3, <2>7 DEF Consistent, GoodOps
<1>2. QED
  BY <1>1, InitSheetInv, NextSheetInv, PTL DEF SheetSpec

-----------------------------------------------------------------------------
(***************************************************************************)
(* Paths.  simplify() is a fold over the components of a path; what it has *)
(* built so far are names below the steps up that no name could take back, *)
(* and they lead where the components read so far lead (Led).              *)
(*                                                                         *)
(* FoldLeft is taken apart first, for a step that is a function: the value *)
(* at the set of the first k indices comes from the one before.            *)
(***************************************************************************)
\* What is true of no element, and of one more when it is true of a sequence, is
\* true of all sequences: induction, for a set.
LEMMA SequencesUpTo ==
    ASSUME NEW S, NEW T, <<>> \in T, \A s \in Seq(S), e \in S : s \in T => Append(s, e) \in T
    PROVE  Seq(S) \subseteq T
<1> SUFFICES ASSUME NEW s \in Seq(S) PROVE s \in T
  OBVIOUS
<1> DEFINE N == Len(s)
           K == {k \in 0 .. N : SubSeq(s, 1, k) \in T}
<1>1. N \in Nat /\ SubSeq(s, 1, N) = s
  BY LenProperties, SubSeqFull
<1>2. 0 \in K
  <2>1. SubSeq(s, 1, 0) = <<>>
    BY SubSeqEmpty
  <2>2. SubSeq(s, 1, 0) \in T
    BY <2>1, Zenon
  <2>3. 0 \in 0 .. N
    BY <1>1
  <2> HIDE DEF N
  <2> QED
    BY <2>2, <2>3, Zenon
<1>3. ASSUME NEW k \in 0 .. (N - 1), k \in K PROVE k + 1 \in K
  <2>1. k + 1 \in 1 .. Len(s) /\ k \in 0 .. Len(s) /\ 1 \in 1 .. Len(s) /\ k + 1 \in 0 .. N
    BY <1>1
  <2>2. s[k + 1] \in S /\ SubSeq(s, 1, k) \in Seq(S)
    <3>1. s[k + 1] \in S
      BY <2>1, ElementOfSeq
    <3>2. \A i \in 1 .. k : s[i] \in S
      BY <2>1, ElementOfSeq
    <3>3. k \in Int /\ 1 \in Int
      BY <2>1
    <3> HIDE DEF N, K
    <3> QED
      BY <3>1, <3>2, <3>3, SubSeqProperties
  <2>3. SubSeq(s, 1, k + 1) = Append(SubSeq(s, 1, k), s[k + 1])
    <3>1. k + 1 \in 1 .. Len(s) /\ (k + 1) - 1 = k
      BY <2>1
    <3>2. SubSeq(s, 1, k + 1) = SubSeq(s, 1, (k + 1) - 1) \o <<s[k + 1]>>
      BY <2>1, SubSeqRecursiveSecond
    <3>3. Append(SubSeq(s, 1, k), s[k + 1]) = SubSeq(s, 1, k) \o <<s[k + 1]>>
      BY <2>2, AppendIsConcat
    <3> QED
      BY <3>1, <3>2, <3>3
  <2>4. SubSeq(s, 1, k) \in T
    BY <1>3
  <2>5. SubSeq(s, 1, k + 1) \in T
    BY <2>2, <2>3, <2>4
  <2> QED
    BY <2>1, <2>5
<1>4. 0 .. N \subseteq K
  <2> HIDE DEF K, N
  <2> QED
    BY <1>1, <1>2, <1>3, UpTo
<1>5. N \in K
  BY <1>1, <1>4
<1> QED
  BY <1>1, <1>5

\* The function that a fold over the first N indices is taken from.
IsFold(f, base, h, N) ==
    f = [t \in SUBSET (1 .. N) |-> IF t = {} THEN base ELSE h[Max(t)][f[t \ {Max(t)}]]]

\* There is such a function: it is built for the sets of the first k indices, one
\* index at a time.
LEMMA FoldExists ==
    ASSUME NEW V, NEW base \in V, NEW N \in Nat, NEW h \in [1 .. N -> [V -> V]]
    PROVE  \E f \in [SUBSET (1 .. N) -> V] : IsFold(f, base, h, N)
<1> DEFINE T == {k \in 0 .. N : \E f \in [SUBSET (1 .. k) -> V] : IsFold(f, base, h, k)}
<1>1. 0 \in T
  <2>1. SUBSET (1 .. 0) = {{}} /\ 0 \in 0 .. N
    OBVIOUS
  <2> DEFINE f == [t \in SUBSET (1 .. 0) |-> base]
  <2>2. IsFold(f, base, h, 0)
    BY <2>1, Zenon DEF IsFold
  <2>3. f \in [SUBSET (1 .. 0) -> V]
    OBVIOUS
  <2> QED
    BY <2>1, <2>2, <2>3
<1>2. ASSUME NEW k \in 0 .. N - 1, k \in T PROVE k + 1 \in T
  <2>1. PICK f \in [SUBSET (1 .. k) -> V] : IsFold(f, base, h, k)
    BY <1>2
  <2>0. k \in Nat /\ k + 1 \in 1 .. N /\ k + 1 \in 0 .. N
    OBVIOUS
  <2> DEFINE g == [t \in SUBSET (1 .. k + 1) |->
                     IF k + 1 \in t THEN h[k + 1][f[t \ {k + 1}]] ELSE f[t]]
  <2>2. ASSUME NEW t \in SUBSET (1 .. k + 1)
        PROVE  g[t] = IF t = {} THEN base ELSE h[Max(t)][g[t \ {Max(t)}]]
    <3>1. CASE k + 1 \in t
      <4>1. Max(t) = k + 1
        BY <2>0, <3>1, MaxOfUpTo
      <4>2. t \ {k + 1} \in SUBSET (1 .. k) /\ t \ {k + 1} \in SUBSET (1 .. k + 1) /\ t # {}
            /\ k + 1 \notin t \ {k + 1}
        BY <2>0, <3>1
      <4>3. g[t \ {k + 1}] = f[t \ {k + 1}]
        BY <4>2, Zenon
      <4>4. g[t] = h[k + 1][f[t \ {k + 1}]]
        BY <3>1, Zenon
      <4> QED
        BY <4>1, <4>2, <4>3, <4>4, Zenon
    <3>2. CASE k + 1 \notin t
      <4>1. t \in SUBSET (1 .. k)
        BY <2>0, <3>2
      <4>2. g[t] = f[t]
        BY <3>2, Zenon
      <4>3. f[t] = IF t = {} THEN base ELSE h[Max(t)][f[t \ {Max(t)}]]
        BY <2>1, <4>1, Zenon DEF IsFold
      <4>4. t \ {Max(t)} \in SUBSET (1 .. k + 1) /\ k + 1 \notin t \ {Max(t)}
        BY <3>2, Zenon
      <4>5. g[t \ {Max(t)}] = f[t \ {Max(t)}]
        BY <4>4, Zenon
      <4> QED
        BY <4>2, <4>3, <4>5, Zenon
    <3> QED
      BY <3>1, <3>2, Zenon
  <2>3. IsFold(g, base, h, k + 1)
    BY <2>2, Zenon DEF IsFold
  <2>4. g \in [SUBSET (1 .. k + 1) -> V]
    <3> SUFFICES ASSUME NEW t \in SUBSET (1 .. k + 1)
                 PROVE  (IF k + 1 \in t THEN h[k + 1][f[t \ {k + 1}]] ELSE f[t]) \in V
      BY Zenon
    <3>1. CASE k + 1 \in t
      <4>1. t \ {k + 1} \in SUBSET (1 .. k)
        BY <2>0, <3>1
      <4> QED
        BY <2>0, <2>1, <3>1, <4>1
    <3>2. CASE k + 1 \notin t
      <4>1. t \in SUBSET (1 .. k)
        BY <2>0, <3>2
      <4> QED
        BY <2>1, <3>2, <4>1
    <3> QED
      BY <3>1, <3>2
  <2> HIDE DEF g
  <2> QED
    BY <2>0, <2>3, <2>4
<1> HIDE DEF T
<1>3. N \in T
  <2>1. \A k \in 0 .. (N - 1) : k \in T => k + 1 \in T
    BY <1>2
  <2>2. 0 .. N \subseteq T
    BY <1>1, <2>1, UpTo
  <2> QED
    BY <2>2
<1> QED
  BY <1>3 DEF T

\* The values of such a function at the sets of the first k indices.
FoldsTo(g, base, h, N, V) ==
    /\ g[{}] = base
    /\ \A t \in SUBSET (1 .. N) : t # {} /\ g[t \ {Max(t)}] \in V =>
          g[t] = h[Max(t)][g[t \ {Max(t)}]]
FoldSteps(f, base, h, N) ==
    /\ f[0] = base
    /\ \A k \in 0 .. N - 1 : f[k + 1] = h[k + 1][f[k]]
HasSteps(g, base, h, N, V) ==
    \E f \in [0 .. N -> V] : FoldSteps(f, base, h, N) /\ f[N] = g[1 .. N]
LEMMA FoldValues ==
    ASSUME NEW V, NEW base \in V, NEW N \in Nat, NEW h \in [1 .. N -> [V -> V]],
           NEW g, FoldsTo(g, base, h, N, V)
    PROVE  HasSteps(g, base, h, N, V)
<1>0. /\ g[{}] = base
      /\ \A t \in SUBSET (1 .. N) : t # {} /\ g[t \ {Max(t)}] \in V =>
            g[t] = h[Max(t)][g[t \ {Max(t)}]]
  BY DEF FoldsTo
<1> DEFINE f == [k \in 0 .. N |-> g[1 .. k]]
           T == {k \in 0 .. N : f[k] \in V}
<1>1. f[0] = base
  <2>1. 1 .. 0 = {} /\ 0 \in 0 .. N
    OBVIOUS
  <2>2. f[0] = g[1 .. 0]
    BY <2>1, Zenon
  <2> QED
    BY <1>0, <2>1, <2>2, Zenon
<1>2. ASSUME NEW k \in 0 .. N - 1, f[k] \in V
      PROVE  f[k + 1] = h[k + 1][f[k]] /\ f[k + 1] \in V
  <2>1. k + 1 \in 1 .. k + 1 /\ 1 .. k + 1 \in SUBSET (1 .. k + 1) /\ k \in Nat
    OBVIOUS
  <2>2. Max(1 .. k + 1) = k + 1
    BY <2>1, MaxOfUpTo
  <2>3. 1 .. k + 1 \in SUBSET (1 .. N) /\ 1 .. k + 1 # {}
    <3>1. k + 1 <= N
      OBVIOUS
    <3>2. 1 .. k + 1 \subseteq 1 .. N
      BY <2>1, <3>1
    <3> QED
      BY <2>1, <3>2, Zenon
  <2>4. (1 .. k + 1) \ {k + 1} = 1 .. k
    OBVIOUS
  <2>5. k \in 0 .. N /\ k + 1 \in 0 .. N /\ k + 1 \in 1 .. N
    OBVIOUS
  <2>6. f[k] = g[1 .. k] /\ f[k + 1] = g[1 .. k + 1]
    BY <2>5, Zenon
  <2>7. g[1 .. k + 1] = h[k + 1][g[1 .. k]]
    BY <1>0, <1>2, <2>2, <2>3, <2>4, <2>6, Zenon
  <2>8. f[k + 1] = h[k + 1][f[k]]
    BY <2>6, <2>7, Zenon
  <2> HIDE DEF f
  <2>9. h[k + 1] \in [V -> V]
    BY <2>5
  <2> QED
    BY <1>2, <2>8, <2>9
<1>3. f[N] = g[1 .. N]
  OBVIOUS
<1>4. f = [k \in 0 .. N |-> f[k]]
  BY Zenon
<1> HIDE DEF f
<1>5. 0 .. N \subseteq T
  <2>1. 0 \in T
    <3>1. f[0] \in V
      BY <1>1, Zenon
    <3>2. 0 \in 0 .. N
      OBVIOUS
    <3> QED
      BY <3>1, <3>2, Zenon
  <2>2. ASSUME NEW k \in 0 .. (N - 1), k \in T PROVE k + 1 \in T
    <3>1. k + 1 \in 0 .. N /\ f[k] \in V
      BY <2>2
    <3>2. f[k + 1] \in V
      BY <1>2, <3>1, Zenon
    <3> QED
      BY <3>1, <3>2, Zenon
  <2> HIDE DEF T
  <2> QED
    BY <2>1, <2>2, UpTo
<1>6. \A k \in 0 .. N : f[k] \in V
  BY <1>5
<1>7. f \in [0 .. N -> V]
  BY <1>4, <1>6, Zenon
<1>8. ASSUME NEW k \in 0 .. N - 1 PROVE f[k + 1] = h[k + 1][f[k]]
  <2>1. k \in 0 .. N
    OBVIOUS
  <2> QED
    BY <1>2, <1>6, <2>1, Zenon
<1> QED
  BY <1>1, <1>3, <1>7, <1>8, Zenon DEF HasSteps, FoldSteps

\* The greatest of a set of places is one of them.
LEMMA GreatestIn ==
    ASSUME NEW N \in Nat, NEW t \in SUBSET (1 .. N), t # {}
    PROVE  Max(t) \in t /\ Max(t) \in 1 .. N /\ \A i \in t : i <= Max(t)
<1> DEFINE out == {d \in 0 .. N : N - d \in t}
<1>1. out \in SUBSET Nat /\ out # {}
  <2>1. PICK i \in t : i \in 1 .. N
    OBVIOUS
  <2>2. N - i \in 0 .. N /\ N - (N - i) = i
    BY <2>1
  <2>3. N - i \in out
    BY <2>1, <2>2
  <2>4. out \in SUBSET Nat
    OBVIOUS
  <2> HIDE DEF out
  <2> QED
    BY <2>3, <2>4, Zenon
<1>2. PICK d \in out : \A e \in out : d <= e
  BY <1>1, LeastExists, Zenon
<1>3. N - d \in t /\ \A i \in t : N - d >= i
  <2>1. N - d \in t /\ d \in 0 .. N
    BY <1>2
  <2>2. ASSUME NEW i \in t PROVE N - d >= i
    <3>1. i \in 1 .. N
      OBVIOUS
    <3>2. N - i \in 0 .. N /\ N - (N - i) = i
      BY <3>1
    <3>3. N - i \in out
      BY <3>2
    <3>4. d <= N - i
      BY <1>2, <3>3
    <3> QED
      BY <2>1, <3>1, <3>4
  <2> QED
    BY <2>1, <2>2
<1>4. \E x \in t : \A y \in t : x >= y
  BY <1>3, Zenon
<1>5. Max(t) = CHOOSE x \in t : \A y \in t : x >= y
  BY Zenon DEF Max
<1>6. Max(t) \in t /\ \A y \in t : Max(t) >= y
  <2> HIDE DEF out
  <2> QED
    BY <1>4, <1>5, Zenon
<1>7. Max(t) \in 1 .. N
  BY <1>6
<1> QED
  BY <1>6, <1>7

\* What the components of a path are made of.
PathNames(S) == Seq(S \ {SEPARATOR})
Parts(S) == Seq(PathNames(S)) \ {<<>>}

\* One more character of a path.
LEMMA FoundParts ==
    ASSUME NEW S, NEW found \in Parts(S), NEW c \in S
    PROVE  Found(found, c) \in Parts(S)
<1>1. found \in Seq(PathNames(S)) /\ Len(found) \in 1 .. Len(found)
  <2>1. found \in Seq(PathNames(S)) /\ found # <<>>
    BY Zenon DEF Parts
  <2>2. Len(found) \in Nat \ {0}
    BY <2>1, EmptySeq
  <2> QED
    BY <2>1, <2>2
<1>2. CASE c = SEPARATOR
  <2>1. <<>> \in PathNames(S)
    BY EmptySeq DEF PathNames
  <2>2. Append(found, <<>>) \in Seq(PathNames(S)) /\ Append(found, <<>>) # <<>>
    BY <1>1, <2>1, AppendProperties, Zenon
  <2> QED
    BY <1>2, <2>2, Zenon DEF Found, Parts
<1>3. CASE c # SEPARATOR
  <2>1. found[Len(found)] \in PathNames(S)
    BY <1>1, ElementOfSeq, Zenon
  <2>2. Append(found[Len(found)], c) \in PathNames(S)
    <3>1. c \in S \ {SEPARATOR}
      BY <1>3
    <3> QED
      BY <2>1, <3>1, AppendProperties, Zenon DEF PathNames
  <2>3. /\ [found EXCEPT ![Len(found)] = Append(found[Len(found)], c)] \in Seq(PathNames(S))
        /\ Len([found EXCEPT ![Len(found)] = Append(found[Len(found)], c)]) = Len(found)
    BY <1>1, <2>2, ExceptSeq
  <2>4. Found(found, c) = [found EXCEPT ![Len(found)] = Append(found[Len(found)], c)]
    BY <1>3, Zenon DEF Found
  <2>5. Found(found, c) # <<>>
    <3>1. Len(Found(found, c)) = Len(found) /\ Len(<<>>) = 0 /\ Len(found) # 0
      BY <1>1, <2>3, <2>4
    <3> QED
      BY <3>1, Zenon
  <2> QED
    BY <2>3, <2>4, <2>5, Zenon DEF Parts
<1> QED
  BY <1>2, <1>3, Zenon

\* What Components folds with.
IsFoundFold(f, path) ==
    f = [t \in SUBSET DOMAIN path |->
           IF t = {} THEN <<<<>>>> ELSE Found(f[t \ {Max(t)}], path[Max(t)])]

\* The components are the last of those found so far.
LEMMA ComponentsFold ==
    ASSUME NEW S, NEW path \in Seq(S)
    PROVE  \E f \in [0 .. Len(path) -> Parts(S)] :
              /\ f[0] = <<<<>>>> /\ f[Len(path)] = Components(path)
              /\ \A k \in 0 .. Len(path) - 1 : f[k + 1] = Found(f[k], path[k + 1])
<1> DEFINE N == Len(path)
           V == Parts(S)
           h == [i \in 1 .. N |-> [v \in V |-> Found(v, path[i])]]
           g == CHOOSE f : IsFoundFold(f, path)
<1>1. N \in Nat /\ DOMAIN path = 1 .. N /\ \A i \in 1 .. N : path[i] \in S
  BY LenProperties, ElementOfSeq
<1>2. <<<<>>>> \in V
  <2>1. <<>> \in PathNames(S)
    BY EmptySeq DEF PathNames
  <2>2. <<<<>>>> \in Seq(PathNames(S)) /\ <<<<>>>> # <<>>
    BY <2>1
  <2> QED
    BY <2>2, Zenon DEF Parts
<1>3. h \in [1 .. N -> [V -> V]]
  <2>1. \A i \in 1 .. N : \A v \in V : Found(v, path[i]) \in V
    BY <1>1, FoundParts, Zenon
  <2> HIDE DEF N, V
  <2> QED
    BY <2>1
<1>4. Components(path) = g[DOMAIN path]
  BY DEF Components, FoldLeft, MapThenFoldSet, IsFoundFold
<1> HIDE DEF N, V
<1>5. IsFoundFold(g, path)
  <2>1. PICK f \in [SUBSET (1 .. N) -> V] : IsFold(f, <<<<>>>>, h, N)
    BY <1>1, <1>2, <1>3, FoldExists, Zenon
  <2>2. f = [t \in SUBSET (1 .. N) |-> IF t = {} THEN <<<<>>>> ELSE h[Max(t)][f[t \ {Max(t)}]]]
    BY <2>1, Zenon DEF IsFold
  <2>3. ASSUME NEW t \in SUBSET (1 .. N), t # {}
        PROVE  h[Max(t)][f[t \ {Max(t)}]] = Found(f[t \ {Max(t)}], path[Max(t)])
    <3>1. Max(t) \in 1 .. N
      BY <1>1, <2>3, GreatestIn
    <3>2. f[t \ {Max(t)}] \in V
      BY <2>1
    <3> QED
      BY <3>1, <3>2, Zenon
  <2>4. f = [t \in SUBSET (1 .. N) |-> IF t = {} THEN <<<<>>>> ELSE Found(f[t \ {Max(t)}], path[Max(t)])]
    <3> HIDE DEF h
    <3>1. \A t \in SUBSET (1 .. N) :
             (IF t = {} THEN <<<<>>>> ELSE h[Max(t)][f[t \ {Max(t)}]])
                = IF t = {} THEN <<<<>>>> ELSE Found(f[t \ {Max(t)}], path[Max(t)])
      BY <2>3, Zenon
    <3> QED
      BY <2>2, <3>1, Zenon
  <2>5. IsFoundFold(f, path)
    BY <1>1, <2>4, Zenon DEF IsFoundFold
  <2> QED
    BY <2>5, Zenon
<1> HIDE DEF g
<1>6. \A t \in SUBSET (1 .. N) :
         g[t] = IF t = {} THEN <<<<>>>> ELSE Found(g[t \ {Max(t)}], path[Max(t)])
  BY <1>1, <1>5, Zenon DEF IsFoundFold
<1>7. g[{}] = <<<<>>>>
  <2>1. {} \in SUBSET (1 .. N)
    OBVIOUS
  <2> QED
    BY <1>6, <2>1, Zenon
<1>8. ASSUME NEW t \in SUBSET (1 .. N), t # {}, g[t \ {Max(t)}] \in V
      PROVE  g[t] = h[Max(t)][g[t \ {Max(t)}]]
  <2>1. Max(t) \in 1 .. N
    BY <1>1, <1>8, GreatestIn
  <2>2. h[Max(t)][g[t \ {Max(t)}]] = Found(g[t \ {Max(t)}], path[Max(t)])
    BY <1>8, <2>1, Zenon
  <2>3. g[t] = Found(g[t \ {Max(t)}], path[Max(t)])
    BY <1>6, <1>8, Zenon
  <2> QED
    BY <2>2, <2>3, Zenon
<1>9. PICK f \in [0 .. N -> V] : FoldSteps(f, <<<<>>>>, h, N) /\ f[N] = g[1 .. N]
  <2>1. FoldsTo(g, <<<<>>>>, h, N, V)
    BY <1>7, <1>8, Zenon DEF FoldsTo
  <2> HIDE DEF h
  <2>2. HasSteps(g, <<<<>>>>, h, N, V)
    BY <1>1, <1>2, <1>3, <2>1, FoldValues, Zenon
  <2> QED
    BY <2>2, Zenon DEF HasSteps
<1>10. ASSUME NEW k \in 0 .. N - 1 PROVE f[k + 1] = Found(f[k], path[k + 1])
  <2>1. k \in 0 .. N /\ k + 1 \in 1 .. N
    BY <1>1
  <2>2. f[k] \in V
    BY <2>1
  <2>3. h[k + 1][f[k]] = Found(f[k], path[k + 1])
    BY <2>1, <2>2, Zenon
  <2> QED
    BY <1>9, <2>3, Zenon DEF FoldSteps
<1>11. f[N] = Components(path)
  BY <1>1, <1>4, <1>9, Zenon
<1> QED
  BY <1>9, <1>10, <1>11, Zenon DEF N, V, FoldSteps

\* The components of a path are names.
LEMMA ComponentsType ==
    ASSUME NEW S, NEW path \in Seq(S)
    PROVE  Components(path) \in Parts(S) /\ Len(Components(path)) \in Nat \ {0}
<1>1. Len(path) \in 0 .. Len(path)
  <2>1. Len(path) \in Nat
    BY LenProperties
  <2> QED
    BY <2>1
<1>2. Components(path) \in Parts(S)
  BY <1>1, ComponentsFold
<1>3. Components(path) \in Seq(PathNames(S)) /\ Components(path) # <<>>
  BY <1>2, Zenon DEF Parts
<1> QED
  BY <1>2, <1>3, EmptySeq

\* The empty path has one component, which is empty.
LEMMA ComponentsNil == Components(<<>>) = <<<<>>>>
<1> DEFINE path == <<>>
<1>1. PICK S : path \in Seq(S) /\ Len(path) = 0
  <2>1. path \in Seq({0}) /\ Len(path) = 0
    OBVIOUS
  <2> QED
    BY <2>1, Zenon
<1> HIDE DEF path
<1>2. PICK f \in [0 .. Len(path) -> Parts(S)] : f[0] = <<<<>>>> /\ f[Len(path)] = Components(path)
  BY <1>1, ComponentsFold
<1>3. Components(path) = <<<<>>>>
  BY <1>1, <1>2, Zenon
<1> QED
  BY <1>3 DEF path

\* One more character finds one more component, or makes the last one longer.
LEMMA ComponentsAppend ==
    ASSUME NEW S, NEW path \in Seq(S), NEW c \in S
    PROVE  Components(Append(path, c)) = Found(Components(path), c)
<1> DEFINE N == Len(path)
           more == Append(path, c)
<1>1. /\ N \in Nat /\ more \in Seq(S) /\ Len(more) = N + 1 /\ more[N + 1] = c
      /\ \A i \in 1 .. N : more[i] = path[i]
  BY LenProperties, AppendProperties
<1> HIDE DEF N, more
<1>2. PICK f \in [0 .. Len(path) -> Parts(S)] :
         /\ f[0] = <<<<>>>> /\ f[Len(path)] = Components(path)
         /\ \A k \in 0 .. Len(path) - 1 : f[k + 1] = Found(f[k], path[k + 1])
  BY ComponentsFold
<1>3. PICK g \in [0 .. Len(more) -> Parts(S)] :
         /\ g[0] = <<<<>>>> /\ g[Len(more)] = Components(more)
         /\ \A k \in 0 .. Len(more) - 1 : g[k + 1] = Found(g[k], more[k + 1])
  BY <1>1, ComponentsFold
<1> DEFINE T == {k \in 0 .. N : f[k] = g[k]}
<1>4. 0 \in T
  <2>1. 0 \in 0 .. N
    BY <1>1
  <2> QED
    BY <1>2, <1>3, <2>1, Zenon
<1>5. ASSUME NEW k \in 0 .. (N - 1), k \in T PROVE k + 1 \in T
  <2>1. k + 1 \in 0 .. N /\ k + 1 \in 1 .. N /\ k \in 0 .. Len(path) - 1 /\ k \in 0 .. Len(more) - 1
    BY <1>1 DEF N
  <2>2. f[k + 1] = Found(f[k], path[k + 1]) /\ g[k + 1] = Found(g[k], more[k + 1])
    BY <1>2, <1>3, <2>1, Zenon
  <2>3. f[k] = g[k] /\ more[k + 1] = path[k + 1]
    BY <1>1, <1>5, <2>1
  <2>4. f[k + 1] = g[k + 1]
    BY <2>2, <2>3, Zenon
  <2> QED
    BY <2>1, <2>4, Zenon
<1> HIDE DEF T
<1>6. 0 .. N \subseteq T
  BY <1>1, <1>4, <1>5, UpTo
<1>7. f[N] = g[N]
  BY <1>1, <1>6 DEF T
<1>8. g[N + 1] = Found(g[N], more[N + 1])
  <2>1. N \in 0 .. Len(more) - 1
    BY <1>1
  <2> QED
    BY <1>3, <2>1, Zenon
<1>9. f[N] = Components(path) /\ g[N + 1] = Components(more)
  BY <1>1, <1>2, <1>3, Zenon DEF N
<1> QED
  BY <1>1, <1>7, <1>8, <1>9, Zenon DEF more

\* What is in front of the last component, and the last one.
LEMMA LastPart ==
    ASSUME NEW N, NEW parts \in Seq(N), parts # <<>>
    PROVE  /\ Len(parts) \in Nat \ {0} /\ Last(parts) \in N /\ Last(parts) = parts[Len(parts)]
           /\ Front(parts) \in Seq(N) /\ Len(Front(parts)) = Len(parts) - 1
           /\ parts = Front(parts) \o <<Last(parts)>>
           /\ parts = Append(Front(parts), Last(parts))
<1> DEFINE n == Len(parts)
<1>1. n \in Nat \ {0}
  BY EmptySeq
<1>2. n \in 1 .. n /\ 1 \in 1 .. n /\ n - 1 \in 0 .. n
  BY <1>1
<1>3. Last(parts) = parts[n] /\ Last(parts) \in N
  <2>1. parts[n] \in N
    BY <1>2, ElementOfSeq
  <2> QED
    BY <2>1, Zenon DEF Last
<1>4. Front(parts) = SubSeq(parts, 1, n - 1)
  BY Zenon DEF Front
<1>5. Front(parts) \in Seq(N) /\ Len(Front(parts)) = n - 1
  <2>1. \A i \in 1 .. n - 1 : parts[i] \in N
    <3> SUFFICES ASSUME NEW i \in 1 .. n - 1 PROVE parts[i] \in N
      OBVIOUS
    <3>1. i \in 1 .. n
      BY <1>1
    <3> QED
      BY <3>1, ElementOfSeq
  <2>2. 1 \in Int /\ n - 1 \in Int
    BY <1>1
  <2> HIDE DEF n
  <2>3. /\ SubSeq(parts, 1, n - 1) \in Seq(N)
        /\ Len(SubSeq(parts, 1, n - 1)) = IF 1 <= n - 1 THEN (n - 1) - 1 + 1 ELSE 0
    BY <2>1, <2>2, SubSeqProperties
  <2> QED
    BY <1>1, <1>4, <2>3
<1>6. parts = Front(parts) \o <<Last(parts)>>
  <2>1. SubSeq(parts, 1, n) = SubSeq(parts, 1, n - 1) \o <<parts[n]>>
    BY <1>2, SubSeqRecursiveSecond
  <2>2. SubSeq(parts, 1, n) = parts
    BY SubSeqFull
  <2> QED
    BY <1>3, <1>4, <2>1, <2>2, Zenon
<1>7. Append(Front(parts), Last(parts)) = Front(parts) \o <<Last(parts)>>
  BY <1>3, <1>5, AppendIsConcat, Zenon
<1> QED
  BY <1>1, <1>3, <1>5, <1>6, <1>7

\* What is found behind components is found behind more of them.
LEMMA FoundBehind ==
    ASSUME NEW S, NEW before \in Seq(PathNames(S)), NEW found \in Parts(S), NEW c \in S
    PROVE  Found(before \o found, c) = before \o Found(found, c)
<1> DEFINE N == PathNames(S)
           n == Len(found)
           m == Len(before)
           more == Found(found, c)
<1>1. found \in Seq(N) /\ found # <<>> /\ n \in Nat \ {0} /\ m \in Nat
  <2>1. found \in Seq(N) /\ found # <<>>
    BY Zenon DEF Parts
  <2> QED
    BY <2>1, EmptySeq, LenProperties
<1>2. /\ before \o found \in Seq(N) /\ Len(before \o found) = m + n
      /\ \A i \in 1 .. m + n : (before \o found)[i] = IF i <= m THEN before[i] ELSE found[i - m]
  BY <1>1, ConcatProperties
<1>3. CASE c = SEPARATOR
  <2>1. <<>> \in N
    BY EmptySeq DEF PathNames
  <2>2. Append(before \o found, <<>>) = (before \o found) \o <<<<>>>>
    BY <1>2, <2>1, AppendIsConcat
  <2>3. Append(found, <<>>) = found \o <<<<>>>>
    BY <1>1, <2>1, AppendIsConcat
  <2>4. <<<<>>>> \in Seq(N)
    BY <2>1
  <2>5. (before \o found) \o <<<<>>>> = before \o (found \o <<<<>>>>)
    BY <1>1, <2>4, ConcatAssociative
  <2> QED
    BY <1>3, <2>2, <2>3, <2>5, Zenon DEF Found
<1>4. CASE c # SEPARATOR
  <2> DEFINE x == Append(found[n], c)
             joined == before \o found
             left == [joined EXCEPT ![Len(joined)] = Append(joined[Len(joined)], c)]
             right == [found EXCEPT ![n] = x]
  <2>1. x \in N /\ n \in 1 .. n
    <3>1. found[n] \in N /\ n \in 1 .. n
      BY <1>1, ElementOfSeq
    <3>2. c \in S \ {SEPARATOR}
      BY <1>4
    <3> QED
      BY <3>1, <3>2, AppendProperties DEF PathNames
  <2>2. Found(before \o found, c) = left /\ Found(found, c) = right
    BY <1>4, Zenon DEF Found
  <2>3. joined[Len(joined)] = found[n] /\ Len(joined) = m + n /\ m + n \in 1 .. m + n
    BY <1>1, <1>2
  <2>4. left = [joined EXCEPT ![m + n] = x]
    BY <2>3, Zenon
  <2>5. /\ right \in Seq(N) /\ Len(right) = n
        /\ \A j \in 1 .. n : right[j] = IF j = n THEN x ELSE found[j]
    BY <1>1, <2>1, ExceptSeq
  <2>6. /\ left \in Seq(N) /\ Len(left) = m + n
        /\ \A j \in 1 .. m + n : left[j] = IF j = m + n THEN x ELSE joined[j]
    <3> HIDE DEF joined, left, x
    <3>1. joined \in Seq(N) /\ Len(joined) = m + n /\ m + n \in 1 .. Len(joined)
      BY <1>2, <2>3 DEF joined
    <3> HIDE DEF m, n, N
    <3> QED
      BY <2>1, <2>4, <3>1, ExceptSeq
  <2>7. /\ before \o right \in Seq(N) /\ Len(before \o right) = m + n
        /\ \A i \in 1 .. m + n : (before \o right)[i] = IF i <= m THEN before[i] ELSE right[i - m]
    <3>1. before \in Seq(N)
      OBVIOUS
    <3>2. right \in Seq(N) /\ Len(right) = n /\ Len(before) = m
      BY <2>5
    <3> HIDE DEF right, N, m, n
    <3>3. /\ before \o right \in Seq(N) /\ Len(before \o right) = Len(before) + Len(right)
          /\ \A i \in 1 .. Len(before) + Len(right) :
                (before \o right)[i] = IF i <= Len(before) THEN before[i] ELSE right[i - Len(before)]
      BY <3>1, <3>2, ConcatProperties
    <3> QED
      BY <3>2, <3>3, Zenon
  <2>8. ASSUME NEW i \in 1 .. m + n PROVE left[i] = (before \o right)[i]
    <3>1. left[i] = IF i = m + n THEN x ELSE IF i <= m THEN before[i] ELSE found[i - m]
      BY <1>2, <2>6
    <3>2. i <= m \/ i - m \in 1 .. n
      BY <1>1
    <3>3. CASE i <= m
      BY <1>1, <2>7, <3>1, <3>3
    <3>4. CASE ~(i <= m)
      <4>1. (before \o right)[i] = IF i - m = n THEN x ELSE found[i - m]
        BY <2>5, <2>7, <3>2, <3>4
      <4> HIDE DEF left, right, x
      <4> QED
        BY <1>1, <3>1, <3>4, <4>1
    <3> QED
      BY <3>3, <3>4
  <2> HIDE DEF left, right, N, m, n
  <2>9. left = before \o right
    BY <2>6, <2>7, <2>8, SeqEqual
  <2> QED
    BY <2>2, <2>9, Zenon
<1> QED
  BY <1>3, <1>4, Zenon

\* Behind a path that ends with a separator, what follows has its own components.
LEMMA ComponentsBehind ==
    ASSUME NEW S, NEW path \in Seq(S), Last(Components(path)) = <<>>, NEW more \in Seq(S)
    PROVE  Components(path \o more) = Front(Components(path)) \o Components(more)
<1> DEFINE before == Front(Components(path))
           T == {s \in Seq(S) : Components(path \o s) = before \o Components(s)}
<1>1. /\ Components(path) \in Seq(PathNames(S)) /\ Components(path) # <<>>
  BY ComponentsType, Zenon DEF Parts
<1>2. before \in Seq(PathNames(S)) /\ Components(path) = before \o <<<<>>>>
  BY <1>1, LastPart, Zenon
<1>3. <<>> \in T
  <2>1. path \o <<>> = path /\ <<>> \in Seq(S)
    BY ConcatEmptySeq
  <2> HIDE DEF before
  <2>2. Components(path \o <<>>) = before \o Components(<<>>)
    BY <1>2, <2>1, ComponentsNil, Zenon
  <2> QED
    BY <2>1, <2>2, Zenon
<1> HIDE DEF before
<1>4. ASSUME NEW s \in Seq(S), NEW e \in S, s \in T PROVE Append(s, e) \in T
  <2>1. Components(path \o s) = before \o Components(s)
    BY <1>4, Zenon
  <2>2. path \o Append(s, e) = Append(path \o s, e) /\ path \o s \in Seq(S) /\ Append(s, e) \in Seq(S)
    <3>1. Append(s, e) = s \o <<e>> /\ <<e>> \in Seq(S) /\ Append(s, e) \in Seq(S)
      BY AppendIsConcat, AppendProperties
    <3>2. path \o s \in Seq(S)
      BY ConcatProperties
    <3>3. (path \o s) \o <<e>> = path \o (s \o <<e>>)
      BY <3>1, ConcatAssociative
    <3>4. Append(path \o s, e) = (path \o s) \o <<e>>
      BY <3>2, AppendIsConcat
    <3> QED
      BY <3>1, <3>2, <3>3, <3>4, Zenon
  <2>3. Components(Append(path \o s, e)) = Found(Components(path \o s), e)
    BY <2>2, ComponentsAppend
  <2>4. Components(Append(s, e)) = Found(Components(s), e) /\ Components(s) \in Parts(S)
    BY ComponentsAppend, ComponentsType
  <2>5. Found(before \o Components(s), e) = before \o Found(Components(s), e)
    <3>1. before \in Seq(PathNames(S)) /\ Components(s) \in Parts(S)
      BY <1>2, <2>4, Zenon
    <3> HIDE DEF T
    <3>2. ASSUME NEW b, NEW f, b \in Seq(PathNames(S)), f \in Parts(S)
          PROVE  Found(b \o f, e) = b \o Found(f, e)
      BY <3>2, FoundBehind
    <3> QED
      BY <3>1, <3>2, Zenon
  <2>6. Components(path \o Append(s, e)) = before \o Components(Append(s, e))
    BY <2>1, <2>2, <2>3, <2>4, <2>5, Zenon
  <2> QED
    BY <2>2, <2>6, Zenon
<1> HIDE DEF T
<1>5. Seq(S) \subseteq T
  BY <1>3, <1>4, SequencesUpTo
<1> QED
  BY <1>5 DEF T, before

\* A text without a separator is one component.
LEMMA ComponentsOfName ==
    ASSUME NEW S, NEW name \in PathNames(S)
    PROVE  Components(name) = <<name>>
<1> DEFINE T == {s \in PathNames(S) : Components(s) = <<s>>}
           M == S \ {SEPARATOR}
<1>1. <<>> \in T
  <2>1. <<>> \in PathNames(S)
    BY EmptySeq DEF PathNames
  <2> QED
    BY <2>1, ComponentsNil, Zenon
<1>2. ASSUME NEW s \in Seq(M), NEW e \in M, s \in T PROVE Append(s, e) \in T
  <2>1. s \in Seq(S) /\ e \in S /\ e # SEPARATOR /\ Append(s, e) \in PathNames(S)
    <3>1. M \subseteq S /\ e \in S /\ e # SEPARATOR
      OBVIOUS
    <3> HIDE DEF M
    <3>2. s \in Seq(S) /\ Append(s, e) \in Seq(M)
      BY <3>1, SeqMonotonic, AppendProperties
    <3> QED
      BY <3>1, <3>2, Zenon DEF PathNames, M
  <2>2. Components(Append(s, e)) = Found(Components(s), e)
    BY <2>1, ComponentsAppend
  <2>3. Components(s) = <<s>>
    BY <1>2, Zenon
  <2> DEFINE f == <<s>>
  <2>4. Len(f) = 1 /\ f[1] = s
    OBVIOUS
  <2>5. Found(f, e) = [f EXCEPT ![Len(f)] = Append(f[Len(f)], e)]
    BY <2>1, Zenon DEF Found
  <2>6. [f EXCEPT ![1] = Append(s, e)] = <<Append(s, e)>>
    OBVIOUS
  <2> HIDE DEF f
  <2>7. Found(f, e) = [f EXCEPT ![1] = Append(s, e)]
    BY <2>4, <2>5, Zenon
  <2>8. Components(Append(s, e)) = <<Append(s, e)>>
    BY <2>2, <2>3, <2>6, <2>7, Zenon DEF f
  <2> QED
    BY <2>1, <2>8, Zenon
<1> HIDE DEF T, M
<1>3. Seq(M) \subseteq T
  BY <1>1, <1>2, SequencesUpTo
<1>4. name \in Seq(M)
  BY Zenon DEF PathNames, M
<1>5. name \in T
  BY <1>3, <1>4, Zenon
<1> QED
  BY <1>5, Zenon DEF T

\* A name is a text.
LEMMA NameIsText ==
    ASSUME NEW S, NEW name \in PathNames(S)
    PROVE  name \in Seq(S)
<1>1. S \ {SEPARATOR} \subseteq S
  OBVIOUS
<1> QED
  BY <1>1, SeqMonotonic DEF PathNames

\* Taking the last part away from what it was put behind.
LEMMA FrontOfJoined ==
    ASSUME NEW N, NEW parts \in Seq(N), NEW x \in N
    PROVE  /\ Front(parts \o <<x>>) = parts /\ Last(parts \o <<x>>) = x
           /\ parts \o <<x>> \in Seq(N) /\ parts \o <<x>> # <<>>
           /\ Len(parts \o <<x>>) = Len(parts) + 1
<1> DEFINE more == Append(parts, x)
<1>1. more \in Seq(N) /\ more # <<>> /\ Len(more) = Len(parts) + 1 /\ more[Len(parts) + 1] = x
  BY AppendProperties
<1>2. more = parts \o <<x>>
  BY AppendIsConcat
<1> HIDE DEF more
<1>3. /\ Last(more) = more[Len(more)] /\ Front(more) \in Seq(N) /\ Last(more) \in N
      /\ more = Append(Front(more), Last(more))
  BY <1>1, LastPart
<1>4. Last(more) = x
  BY <1>1, <1>3, Zenon
<1>5. Append(Front(more), Last(more)) = Append(parts, x)
  BY <1>3, Zenon DEF more
<1>6. Front(more) = parts
  BY <1>3, <1>5, AppendInjective
<1> QED
  BY <1>1, <1>2, <1>4, <1>6

\* A separator ends a component, and begins the next.
LEMMA ComponentsCut ==
    ASSUME NEW S, SEPARATOR \in S, NEW path \in Seq(S)
    PROVE  /\ path \o <<SEPARATOR>> \in Seq(S)
           /\ Components(path \o <<SEPARATOR>>) = Components(path) \o <<<<>>>>
           /\ Front(Components(path \o <<SEPARATOR>>)) = Components(path)
           /\ Last(Components(path \o <<SEPARATOR>>)) = <<>>
           /\ \A more \in Seq(S) :
                 Components((path \o <<SEPARATOR>>) \o more) = Components(path) \o Components(more)
<1> DEFINE ended == path \o <<SEPARATOR>>
           parts == Components(path)
<1>1. parts \in Seq(PathNames(S)) /\ <<>> \in PathNames(S)
  <2>1. Components(path) \in Parts(S)
    BY ComponentsType
  <2> QED
    BY <2>1, EmptySeq DEF Parts, PathNames
<1>2. ended = Append(path, SEPARATOR) /\ ended \in Seq(S)
  BY AppendIsConcat, AppendProperties
<1>3. Components(ended) = Append(parts, <<>>)
  <2>1. Components(Append(path, SEPARATOR)) = Found(Components(path), SEPARATOR)
    BY ComponentsAppend
  <2> QED
    BY <1>2, <2>1, Zenon DEF Found
<1>4. Append(parts, <<>>) = parts \o <<<<>>>>
  BY <1>1, AppendIsConcat
<1>5. Front(parts \o <<<<>>>>) = parts /\ Last(parts \o <<<<>>>>) = <<>>
  BY <1>1, FrontOfJoined
<1>6. /\ Components(ended) = parts \o <<<<>>>>
      /\ Front(Components(ended)) = parts /\ Last(Components(ended)) = <<>>
  BY <1>3, <1>4, <1>5, Zenon
<1>7. ASSUME NEW more \in Seq(S) PROVE Components(ended \o more) = parts \o Components(more)
  <2> HIDE DEF ended, parts
  <2>1. Components(ended \o more) = Front(Components(ended)) \o Components(more)
    BY <1>2, <1>6, ComponentsBehind
  <2> QED
    BY <1>6, <2>1, Zenon
<1> QED
  BY <1>2, <1>6, <1>7, Zenon

\* The places of the separators, the last of which is the greatest.
LEMMA SeparatorPlaces ==
    ASSUME NEW S, NEW path \in Seq(S)
    PROVE  /\ Separators(path) \in SUBSET (1 .. Len(path)) /\ Len(path) \in Nat
           /\ \A i \in Separators(path) : path[i] = SEPARATOR /\ SEPARATOR \in S
           /\ \A i \in 1 .. Len(path) : i \notin Separators(path) => path[i] # SEPARATOR
           /\ Separators(path) # {} =>
                /\ Max(Separators(path)) \in Separators(path)
                /\ Max(Separators(path)) \in 1 .. Len(path)
                /\ \A i \in Separators(path) : i <= Max(Separators(path))
<1>1. Len(path) \in Nat /\ DOMAIN path = 1 .. Len(path) /\ \A i \in 1 .. Len(path) : path[i] \in S
  BY LenProperties, ElementOfSeq
<1>2. Separators(path) = {i \in 1 .. Len(path) : path[i] = SEPARATOR}
  BY <1>1, Zenon DEF Separators
<1>3. Separators(path) \in SUBSET (1 .. Len(path))
  BY <1>2
<1>4. \A i \in Separators(path) : path[i] = SEPARATOR /\ SEPARATOR \in S
  BY <1>1, <1>2
<1>5. \A i \in 1 .. Len(path) : i \notin Separators(path) => path[i] # SEPARATOR
  BY <1>2
<1>6. Separators(path) # {} =>
         /\ Max(Separators(path)) \in Separators(path)
         /\ Max(Separators(path)) \in 1 .. Len(path)
         /\ \A i \in Separators(path) : i <= Max(Separators(path))
  BY <1>1, <1>3, GreatestIn
<1> QED
  BY <1>1, <1>3, <1>4, <1>5, <1>6

\* A path without a separator is one component.
LEMMA NoSeparators ==
    ASSUME NEW S, NEW path \in Seq(S), Separators(path) = {}
    PROVE  path \in PathNames(S) /\ Components(path) = <<path>>
<1>1. \A i \in 1 .. Len(path) : path[i] \in S \ {SEPARATOR}
  <2>1. \A i \in 1 .. Len(path) : path[i] # SEPARATOR
    BY SeparatorPlaces
  <2>2. \A i \in 1 .. Len(path) : path[i] \in S
    BY ElementOfSeq
  <2> QED
    BY <2>1, <2>2
<1> DEFINE M == S \ {SEPARATOR}
<1>2. path \in Seq(M)
  <2>1. Len(path) \in Nat /\ SubSeq(path, 1, Len(path)) = path
    BY LenProperties, SubSeqFull
  <2>2. \A i \in 1 .. Len(path) : path[i] \in M
    BY <1>1
  <2>3. 1 \in Int /\ Len(path) \in Int
    BY <2>1
  <2> HIDE DEF M
  <2>4. SubSeq(path, 1, Len(path)) \in Seq(M)
    BY <2>2, <2>3, SubSeqProperties
  <2> QED
    BY <2>1, <2>4
<1>3. path \in PathNames(S)
  BY <1>2, Zenon DEF PathNames
<1> QED
  BY <1>3, ComponentsOfName

\* A path is cut at its last separator.
LEMMA LastCut ==
    ASSUME NEW S, NEW path \in Seq(S), Separators(path) # {}
    PROVE  LET m == Max(Separators(path))
               before == SubSeq(path, 1, m - 1)
               name == SubSeq(path, m + 1, Len(path)) IN
           /\ m \in 1 .. Len(path) /\ Len(path) \in Nat /\ SEPARATOR \in S
           /\ before \in Seq(S) /\ name \in PathNames(S)
           /\ SubSeq(path, 1, m) = before \o <<SEPARATOR>>
           /\ path = (before \o <<SEPARATOR>>) \o name
           /\ Components(path) = Components(before) \o <<name>>
           /\ Len(before) = m - 1 /\ Len(name) = Len(path) - m
<1> DEFINE m == Max(Separators(path))
           n == Len(path)
           before == SubSeq(path, 1, m - 1)
           name == SubSeq(path, m + 1, n)
           M == S \ {SEPARATOR}
<1>1. /\ m \in 1 .. n /\ n \in Nat /\ SEPARATOR \in S /\ path[m] = SEPARATOR
      /\ \A i \in m + 1 .. n : path[i] # SEPARATOR
  <2>1. m \in 1 .. n /\ n \in Nat /\ m \in Separators(path) /\ \A i \in Separators(path) : i <= m
    BY SeparatorPlaces
  <2>2. path[m] = SEPARATOR /\ SEPARATOR \in S
    BY <2>1, SeparatorPlaces, Zenon
  <2> HIDE DEF m
  <2>3. \A i \in m + 1 .. n : path[i] # SEPARATOR
    <3> SUFFICES ASSUME NEW i \in m + 1 .. n PROVE path[i] # SEPARATOR
      OBVIOUS
    <3>1. i \in 1 .. n /\ ~(i <= m)
      BY <2>1
    <3>2. i \notin Separators(path)
      BY <2>1, <3>1, Zenon
    <3> QED
      BY <3>1, <3>2, SeparatorPlaces, Zenon
  <2> QED
    BY <2>1, <2>2, <2>3
<1>2. \A i \in 1 .. n : path[i] \in S
  BY ElementOfSeq
<1> HIDE DEF m
<1>3. m \in Int /\ m - 1 \in Int /\ m + 1 \in Int /\ n \in Int /\ 1 \in Int
  BY <1>1
<1>4. before \in Seq(S) /\ Len(before) = m - 1
  <2>1. \A i \in 1 .. m - 1 : path[i] \in S
    BY <1>1, <1>2
  <2>2. /\ SubSeq(path, 1, m - 1) \in Seq(S)
        /\ Len(SubSeq(path, 1, m - 1)) = IF 1 <= m - 1 THEN (m - 1) - 1 + 1 ELSE 0
    BY <1>3, <2>1, SubSeqProperties
  <2> QED
    BY <1>1, <2>2
<1>5. name \in Seq(M) /\ Len(name) = n - m
  <2>1. \A i \in m + 1 .. n : path[i] \in M
    BY <1>1, <1>2
  <2> HIDE DEF M, n
  <2>2. /\ SubSeq(path, m + 1, n) \in Seq(M)
        /\ Len(SubSeq(path, m + 1, n)) = IF m + 1 <= n THEN n - (m + 1) + 1 ELSE 0
    BY <1>3, <2>1, SubSeqProperties
  <2> QED
    BY <1>1, <2>2
<1>6. name \in PathNames(S) /\ name \in Seq(S)
  <2>1. name \in PathNames(S)
    BY <1>5, Zenon DEF PathNames
  <2> QED
    BY <2>1, NameIsText
<1>7. SubSeq(path, 1, m) = before \o <<SEPARATOR>>
  <2>1. 1 \in 1 .. Len(path) /\ m \in 1 .. Len(path)
    BY <1>1
  <2>2. SubSeq(path, 1, m) = SubSeq(path, 1, m - 1) \o <<path[m]>>
    BY <2>1, SubSeqRecursiveSecond
  <2> QED
    BY <1>1, <2>2, Zenon
<1>8. path = (before \o <<SEPARATOR>>) \o name
  <2>1. 1 \in 1 .. Len(path) + 1 /\ m \in 1 - 1 .. Len(path) /\ Len(path) \in m .. Len(path)
    BY <1>1
  <2>2. SubSeq(path, 1, m) \o SubSeq(path, m + 1, Len(path)) = SubSeq(path, 1, Len(path))
    BY <2>1, ConcatAdjacentSubSeq
  <2>3. SubSeq(path, 1, Len(path)) = path
    BY SubSeqFull
  <2> QED
    BY <1>7, <2>2, <2>3, Zenon
<1> HIDE DEF before, name, M, n
<1>9. Components(path) = Components(before) \o <<name>>
  <2>1. Components((before \o <<SEPARATOR>>) \o name) = Components(before) \o Components(name)
    <3>1. SEPARATOR \in S /\ before \in Seq(S)
      BY <1>1, <1>4, Zenon
    <3>2. ASSUME NEW b \in Seq(S), NEW more \in Seq(S)
          PROVE  Components((b \o <<SEPARATOR>>) \o more) = Components(b) \o Components(more)
      BY <3>1, <3>2, ComponentsCut
    <3> QED
      BY <1>6, <3>1, <3>2, Zenon
  <2>2. Components(name) = <<name>>
    BY <1>6, ComponentsOfName
  <2> QED
    BY <1>8, <2>1, <2>2, Zenon
<1> QED
  BY <1>1, <1>4, <1>5, <1>6, <1>7, <1>8, <1>9, Zenon DEF m, n, before, name

\* A stretch of a stretch that begins where the text does.
LEMMA StretchOfStart ==
    ASSUME NEW S, NEW s \in Seq(S), NEW b \in 0 .. Len(s), NEW a \in 1 .. b + 1
    PROVE  SubSeq(SubSeq(s, 1, b), a, b) = SubSeq(s, a, b)
<1> DEFINE t == SubSeq(s, 1, b)
<1>1. Len(s) \in Nat /\ \A i \in 1 .. Len(s) : s[i] \in S
  BY LenProperties, ElementOfSeq
<1>2. /\ a \in Int /\ b \in Int /\ 1 \in Int
      /\ \A i \in 1 .. b : s[i] \in S
      /\ \A i \in a .. b : s[i] \in S
  BY <1>1
<1>3. /\ t \in Seq(S) /\ Len(t) = IF 1 <= b THEN b - 1 + 1 ELSE 0
      /\ \A i \in 1 .. b - 1 + 1 : t[i] = s[1 + i - 1]
  BY <1>2, SubSeqProperties
<1> HIDE DEF t
<1>4. \A i \in 1 .. b : t[i] = s[i]
  <2> SUFFICES ASSUME NEW i \in 1 .. b PROVE t[i] = s[i]
    OBVIOUS
  <2>1. i \in 1 .. b - 1 + 1 /\ 1 + i - 1 = i
    BY <1>2
  <2> QED
    BY <1>3, <2>1
<1>5. \A i \in a .. b : t[i] \in S /\ t[i] = s[i]
  <2> SUFFICES ASSUME NEW i \in a .. b PROVE t[i] \in S /\ t[i] = s[i]
    OBVIOUS
  <2>1. i \in 1 .. b
    BY <1>1
  <2> QED
    BY <1>2, <1>4, <2>1
<1> DEFINE u == SubSeq(t, a, b)
           v == SubSeq(s, a, b)
<1>6. /\ u \in Seq(S) /\ Len(u) = IF a <= b THEN b - a + 1 ELSE 0
      /\ \A i \in 1 .. b - a + 1 : u[i] = t[a + i - 1]
  BY <1>2, <1>5, SubSeqProperties
<1>7. /\ v \in Seq(S) /\ Len(v) = IF a <= b THEN b - a + 1 ELSE 0
      /\ \A i \in 1 .. b - a + 1 : v[i] = s[a + i - 1]
  BY <1>2, SubSeqProperties
<1> HIDE DEF u, v
<1>8. \A i \in 1 .. Len(u) : u[i] = v[i]
  <2> SUFFICES ASSUME NEW i \in 1 .. Len(u) PROVE u[i] = v[i]
    OBVIOUS
  <2>1. i \in 1 .. b - a + 1 /\ a + i - 1 \in a .. b
    BY <1>2, <1>6
  <2> QED
    BY <1>5, <1>6, <1>7, <2>1
<1>9. u = v
  BY <1>6, <1>7, <1>8, SeqEqual
<1> QED
  BY <1>9 DEF u, v, t

\* The last name of a path is its last component.
LEMMA BaseNameIsLast ==
    ASSUME NEW S, NEW path \in Seq(S)
    PROVE  base_name(path) = Last(Components(path))
<1>1. CASE Separators(path) = {}
  <2>1. Components(path) = <<path>>
    BY <1>1, NoSeparators
  <2>2. Last(<<path>>) = path
    BY DEF Last
  <2> QED
    BY <1>1, <2>1, <2>2, Zenon DEF base_name
<1>2. CASE Separators(path) # {}
  <2> DEFINE m == Max(Separators(path))
             before == SubSeq(path, 1, m - 1)
             name == SubSeq(path, m + 1, Len(path))
  <2>1. before \in Seq(S) /\ name \in PathNames(S) /\ Components(path) = Components(before) \o <<name>>
    BY <1>2, LastCut
  <2>2. base_name(path) = name
    BY <1>2, Zenon DEF base_name
  <2> HIDE DEF before, name
  <2>3. Components(before) \in Seq(PathNames(S))
    BY <2>1, ComponentsType DEF Parts
  <2>4. Last(Components(before) \o <<name>>) = name
    BY <2>1, <2>3, FrontOfJoined
  <2> QED
    BY <2>1, <2>2, <2>4, Zenon
<1> QED
  BY <1>1, <1>2

\* The name of the directory is the component before, unless the only separator is
\* at the front.
LEMMA DirectoryNameIsBefore ==
    ASSUME NEW S, NEW path \in Seq(S), Separators(path) # {1}
    PROVE  LET parts == Components(path) IN
           directory_name(path) = IF Len(parts) = 1 THEN <<>> ELSE parts[Len(parts) - 1]
<1>1. CASE Separators(path) = {}
  <2>1. Components(path) = <<path>>
    BY <1>1, NoSeparators
  <2>2. Len(<<path>>) = 1
    OBVIOUS
  <2>3. Len(Components(path)) = 1
    BY <2>1, <2>2, Zenon
  <2> QED
    BY <1>1, <2>3, Zenon DEF directory_name
<1>2. CASE Separators(path) # {}
  <2> DEFINE m == Max(Separators(path))
             n == Len(path)
             first == SubSeq(path, 1, m - 1)
             name == SubSeq(path, m + 1, n)
             before == {i \in Separators(path) : m > 1 => i < m}
             start == IF before = {} THEN 1 ELSE Max(before) + 1
  <2>1. /\ m \in 1 .. n /\ n \in Nat
        /\ first \in Seq(S) /\ Len(first) = m - 1
        /\ name \in PathNames(S) /\ Components(path) = Components(first) \o <<name>>
    BY <1>2, LastCut
  <2>2. /\ m \in Separators(path) /\ Separators(path) \in SUBSET (1 .. n)
        /\ \A i \in Separators(path) : i <= m
    BY <1>2, SeparatorPlaces
  <2>3. directory_name(path) = SubSeq(path, start, IF start > m THEN n ELSE m - 1)
    BY <1>2, Zenon DEF directory_name
  <2> HIDE DEF m, n
  <2>4. m > 1
    <3> SUFFICES ASSUME m = 1 PROVE FALSE
      BY <2>1
    <3>1. Separators(path) = {1}
      BY <2>2
    <3> QED
      BY <3>1
  <2>5. before = Separators(first)
    <3>1. DOMAIN first = 1 .. m - 1 /\ DOMAIN path = 1 .. n
      BY <2>1, LenProperties DEF n
    <3>2. \A i \in 1 .. m - 1 : first[i] = path[i]
      <4>1. \A i \in 1 .. m - 1 : path[i] \in S
        <5> SUFFICES ASSUME NEW i \in 1 .. m - 1 PROVE path[i] \in S
          OBVIOUS
        <5>1. i \in 1 .. Len(path)
          BY <2>1 DEF n
        <5> QED
          BY <5>1, ElementOfSeq
      <4>2. 1 \in Int /\ m - 1 \in Int
        BY <2>1
      <4>3. \A i \in 1 .. (m - 1) - 1 + 1 : first[i] = path[1 + i - 1]
        BY <4>1, <4>2, SubSeqProperties
      <4> HIDE DEF first
      <4> SUFFICES ASSUME NEW i \in 1 .. m - 1 PROVE first[i] = path[i]
        OBVIOUS
      <4>4. i \in 1 .. (m - 1) - 1 + 1 /\ 1 + i - 1 = i
        BY <2>1
      <4> QED
        BY <4>3, <4>4
    <3> HIDE DEF first
    <3>3. Separators(first) = {i \in 1 .. m - 1 : first[i] = SEPARATOR}
      BY <3>1, Zenon DEF Separators
    <3>4. Separators(path) = {i \in 1 .. n : path[i] = SEPARATOR}
      BY <3>1, Zenon DEF Separators
    <3> QED
      BY <2>1, <2>4, <3>2, <3>3, <3>4
  <2>6. start \in 1 .. m
    <3>1. CASE before = {}
      BY <2>1, <3>1
    <3>2. CASE before # {}
      <4>1. Max(before) \in 1 .. Len(first)
        BY <2>1, <2>5, <3>2, SeparatorPlaces
      <4> HIDE DEF before
      <4> QED
        BY <2>1, <3>2, <4>1
    <3> QED
      BY <3>1, <3>2
  <2>7. directory_name(path) = SubSeq(path, start, m - 1)
    <3> HIDE DEF start
    <3>1. ~(start > m)
      BY <2>1, <2>6
    <3> QED
      BY <2>3, <3>1, Zenon
  <2>8. SubSeq(first, start, m - 1) = SubSeq(path, start, m - 1)
    <3> HIDE DEF start
    <3>1. m - 1 \in 0 .. Len(path) /\ start \in 1 .. (m - 1) + 1
      BY <2>1, <2>6 DEF n
    <3> QED
      BY <3>1, StretchOfStart
  <2>9. base_name(first) = SubSeq(first, start, m - 1)
    <3>1. CASE before = {}
      <4>1. base_name(first) = first
        BY <2>5, <3>1, Zenon DEF base_name
      <4>2. SubSeq(first, 1, Len(first)) = first
        BY <2>1, SubSeqFull
      <4> HIDE DEF first, before
      <4> QED
        BY <2>1, <3>1, <4>1, <4>2, Zenon
    <3>2. CASE before # {}
      <4> HIDE DEF first
      <4>1. base_name(first) = SubSeq(first, Max(Separators(first)) + 1, Len(first))
        BY <2>5, <3>2, Zenon DEF base_name
      <4>2. start = Max(Separators(first)) + 1
        BY <2>5, <3>2, Zenon
      <4> QED
        BY <2>1, <4>1, <4>2, Zenon
    <3> QED
      BY <3>1, <3>2
  <2> HIDE DEF first, name, start, before
  <2>10. directory_name(path) = Last(Components(first))
    BY <2>1, <2>7, <2>8, <2>9, BaseNameIsLast
  <2> DEFINE parts == Components(path)
             front == Components(first)
  <2>11. /\ front \in Seq(PathNames(S)) /\ Len(front) \in Nat \ {0} /\ front # <<>>
    BY <2>1, ComponentsType DEF Parts
  <2>12. Len(parts) = Len(front) + 1 /\ parts[Len(front)] = front[Len(front)]
    <3> HIDE DEF front, parts
    <3>1. <<name>> \in Seq(PathNames(S)) /\ Len(<<name>>) = 1
      BY <2>1
    <3>2. parts = front \o <<name>>
      BY <2>1 DEF front, parts
    <3>3. /\ Len(front \o <<name>>) = Len(front) + Len(<<name>>)
          /\ \A i \in 1 .. Len(front) + Len(<<name>>) : (front \o <<name>>)[i] =
                IF i <= Len(front) THEN front[i] ELSE <<name>>[i - Len(front)]
      BY <2>11, <3>1, ConcatProperties
    <3> QED
      BY <2>11, <3>1, <3>2, <3>3
  <2>13. Last(front) = front[Len(front)]
    BY <2>11, LastPart
  <2> HIDE DEF parts, front
  <2>14. Len(parts) # 1 /\ Len(parts) - 1 = Len(front)
    BY <2>11, <2>12
  <2>15. directory_name(path) = IF Len(parts) = 1 THEN <<>> ELSE parts[Len(parts) - 1]
    BY <2>10, <2>12, <2>13, <2>14, Zenon DEF front
  <2> QED
    BY <2>15 DEF parts
<1> QED
  BY <1>1, <1>2, Zenon

\* The extension is what stands behind a dot within the last component.
IsDot(c) == c = "."
LEMMA ExtensionInName ==
    ASSUME NEW S, NEW path \in Seq(S), extension(path) # <<>>
    PROVE  LET name == Last(Components(path)) IN
           \E i \in 2 .. Len(name) - 1 :
              IsDot(name[i]) /\ extension(path) = SubSeq(name, i + 1, Len(name))
<1> DEFINE n == Len(path)
           m == IF Separators(path) = {} THEN 0 ELSE Max(Separators(path))
           dots == {i \in DOMAIN path : IsDot(path[i]) /\ i > m + 1}
           name == Last(Components(path))
<1>1. n \in Nat /\ DOMAIN path = 1 .. n
  BY LenProperties
<1>2. m \in 0 .. n
  <2>1. CASE Separators(path) = {}
    BY <1>1, <2>1
  <2>2. CASE Separators(path) # {}
    <3>1. Max(Separators(path)) \in 1 .. n
      BY <2>2, SeparatorPlaces
    <3> HIDE DEF n
    <3> QED
      BY <1>1, <2>2, <3>1
  <2> QED
    BY <2>1, <2>2
<1>3. name = SubSeq(path, m + 1, n)
  <2>1. name = base_name(path)
    BY BaseNameIsLast
  <2>2. base_name(path) = IF Separators(path) = {} THEN path ELSE SubSeq(path, m + 1, n)
    BY Zenon DEF base_name
  <2>3. CASE Separators(path) = {}
    <3>1. SubSeq(path, 1, n) = path
      BY SubSeqFull
    <3>2. m + 1 = 1
      BY <2>3
    <3> QED
      BY <2>1, <2>2, <2>3, <3>1, <3>2, Zenon
  <2>4. CASE Separators(path) # {}
    BY <2>1, <2>2, <2>4, Zenon
  <2> QED
    BY <2>3, <2>4
<1>4. extension(path) = IF dots = {} THEN <<>> ELSE SubSeq(path, Max(dots) + 1, n)
  BY Zenon DEF extension, IsDot
<1> HIDE DEF m, name
<1>5. dots # {} /\ dots \in SUBSET (1 .. n)
  BY <1>1, <1>4
<1> DEFINE d == Max(dots)
<1>6. d \in dots /\ d \in 1 .. n
  <2> HIDE DEF dots
  <2> QED
    BY <1>1, <1>5, GreatestIn
<1>7. IsDot(path[d]) /\ d > m + 1
  BY <1>6
<1>8. extension(path) = SubSeq(path, d + 1, n)
  BY <1>4, <1>5, Zenon
<1> HIDE DEF d, dots, n
<1>9. d < n
  <2>1. ~(n < d + 1)
    <3> SUFFICES ASSUME n < d + 1 PROVE FALSE
      OBVIOUS
    <3>1. d + 1 \in Int /\ n \in Int
      BY <1>1, <1>6
    <3>2. SubSeq(path, d + 1, n) = <<>>
      BY <3>1, SubSeqEmpty
    <3> QED
      BY <1>8, <3>2, Zenon
  <2> QED
    BY <1>1, <1>6, <2>1
<1>10. /\ \A i \in m + 1 .. n : path[i] \in S
       /\ \A i \in d + 1 .. n : path[i] \in S
  <2>1. \A i \in 1 .. n : path[i] \in S
    BY ElementOfSeq DEF n
  <2> QED
    BY <1>1, <1>2, <1>6, <2>1
<1>11. /\ name \in Seq(S) /\ Len(name) = n - m
       /\ \A i \in 1 .. n - m : name[i] = path[m + i]
  <2>1. m + 1 \in Int /\ n \in Int
    BY <1>1, <1>2
  <2>2. /\ SubSeq(path, m + 1, n) \in Seq(S)
        /\ Len(SubSeq(path, m + 1, n)) = IF m + 1 <= n THEN n - (m + 1) + 1 ELSE 0
        /\ \A i \in 1 .. n - (m + 1) + 1 : SubSeq(path, m + 1, n)[i] = path[m + 1 + i - 1]
    BY <1>10, <2>1, SubSeqProperties
  <2>3. \A i \in 1 .. n - m : i \in 1 .. n - (m + 1) + 1 /\ m + 1 + i - 1 = m + i
    BY <1>1, <1>2
  <2> QED
    BY <1>1, <1>2, <1>3, <2>2, <2>3
<1> DEFINE i == d - m
           u == SubSeq(path, d + 1, n)
           v == SubSeq(name, i + 1, n - m)
<1>12. i \in 2 .. (n - m) - 1 /\ i \in 1 .. n - m /\ m + i = d
  BY <1>1, <1>2, <1>6, <1>7, <1>9
<1>13. IsDot(name[i])
  <2> HIDE DEF i
  <2>1. name[i] = path[d]
    BY <1>11, <1>12
  <2> QED
    BY <1>7, <2>1, Zenon
<1>14. /\ u \in Seq(S) /\ Len(u) = n - d /\ \A j \in 1 .. n - d : u[j] = path[d + j]
  <2>1. d + 1 \in Int /\ n \in Int
    BY <1>1, <1>6
  <2>2. /\ SubSeq(path, d + 1, n) \in Seq(S)
        /\ Len(SubSeq(path, d + 1, n)) = IF d + 1 <= n THEN n - (d + 1) + 1 ELSE 0
        /\ \A j \in 1 .. n - (d + 1) + 1 : SubSeq(path, d + 1, n)[j] = path[d + 1 + j - 1]
    BY <1>10, <2>1, SubSeqProperties
  <2>3. \A j \in 1 .. n - d : j \in 1 .. n - (d + 1) + 1 /\ d + 1 + j - 1 = d + j
    BY <1>1, <1>6
  <2> QED
    BY <1>1, <1>6, <1>9, <2>2, <2>3
<1> HIDE DEF i
<1>15. /\ v \in Seq(S) /\ Len(v) = n - d /\ \A j \in 1 .. n - d : v[j] = path[d + j]
  <2>0. i \in Nat /\ n - m \in Int /\ i + 1 \in Int /\ i + 1 <= n - m /\ (n - m) - i = n - d
    BY <1>1, <1>2, <1>6, <1>12
  <2>1. \A j \in i + 1 .. n - m : name[j] \in S
    <3> SUFFICES ASSUME NEW j \in i + 1 .. n - m PROVE name[j] \in S
      OBVIOUS
    <3>1. j \in 1 .. n - m /\ m + j \in m + 1 .. n
      BY <1>1, <1>2, <2>0
    <3> QED
      BY <1>10, <1>11, <3>1
  <2>2. /\ SubSeq(name, i + 1, n - m) \in Seq(S)
        /\ Len(SubSeq(name, i + 1, n - m)) = IF i + 1 <= n - m THEN n - m - (i + 1) + 1 ELSE 0
        /\ \A j \in 1 .. n - m - (i + 1) + 1 : SubSeq(name, i + 1, n - m)[j] = name[i + 1 + j - 1]
    BY <2>0, <2>1, SubSeqProperties
  <2>3. \A j \in 1 .. n - d : v[j] = path[d + j]
    <3> SUFFICES ASSUME NEW j \in 1 .. n - d PROVE v[j] = path[d + j]
      OBVIOUS
    <3>1. /\ j \in 1 .. n - m - (i + 1) + 1 /\ i + 1 + j - 1 = i + j
          /\ i + j \in 1 .. n - m /\ m + (i + j) = d + j
      BY <1>1, <1>2, <1>6, <1>12, <2>0
    <3>2. v[j] = name[i + j]
      BY <2>2, <3>1
    <3>3. name[i + j] = path[m + (i + j)]
      BY <1>11, <3>1
    <3> QED
      BY <3>1, <3>2, <3>3
  <2> QED
    BY <1>1, <1>2, <1>6, <2>0, <2>2, <2>3
<1> HIDE DEF u, v
<1>16. u = v
  <2>1. \A j \in 1 .. Len(u) : u[j] = v[j]
    BY <1>14, <1>15
  <2> QED
    BY <1>14, <1>15, <2>1, SeqEqual
<1>17. extension(path) = SubSeq(name, i + 1, Len(name)) /\ i \in 2 .. Len(name) - 1
  BY <1>8, <1>11, <1>12, <1>16 DEF u, v
<1> QED
  BY <1>13, <1>17, Zenon DEF name

\* A path that is resolved against the directory of another one has the components
\* of that directory, and its own.
LEMMA JoinedComponents ==
    ASSUME NEW S, NEW base \in Seq(S), NEW other \in Seq(S), ~is_absolute(other)
    PROVE  Components(JoinPaths(base, other)) = Front(Components(base)) \o Components(other)
<1> DEFINE n == Len(base)
           dir == directory(base)
<1>0. JoinPaths(base, other) = dir \o other
  BY Zenon DEF JoinPaths
<1>1. n \in Nat /\ DOMAIN base = 1 .. n
  BY LenProperties
<1>2. CASE is_directory(base)
  <2>1. base # <<>> /\ Last(base) = SEPARATOR
    BY <1>2, Zenon DEF is_directory
  <2> DEFINE first == Front(base)
  <2>2. first \in Seq(S) /\ base = first \o <<SEPARATOR>> /\ SEPARATOR \in S
    BY <2>1, LastPart
  <2> HIDE DEF first
  <2>3. Last(Components(base)) = <<>>
    BY <2>2, ComponentsCut
  <2>4. Components(base \o other) = Front(Components(base)) \o Components(other)
    BY <2>3, ComponentsBehind
  <2> QED
    BY <1>0, <1>2, <2>4, Zenon DEF directory
<1>3. CASE ~is_directory(base)
  <2> DEFINE parents == {i \in Separators(base) : n >= 2 => i < n}
  <2>1. /\ Separators(base) \in SUBSET (1 .. n)
        /\ \A i \in Separators(base) : base[i] = SEPARATOR
    BY SeparatorPlaces
  <2>2. parents = Separators(base)
    <3> SUFFICES ASSUME NEW i \in Separators(base), n >= 2 PROVE i < n
      OBVIOUS
    <3>1. i \in 1 .. n /\ base[i] = SEPARATOR
      BY <2>1
    <3>2. i # n
      <4> SUFFICES ASSUME i = n PROVE FALSE
        OBVIOUS
      <4>1. base # <<>>
        <5>1. n # 0
          BY <1>1, <3>1
        <5> QED
          BY <5>1, EmptySeq
      <4>2. Last(base) = base[n]
        BY <4>1, LastPart
      <4>3. Last(base) = SEPARATOR
        BY <3>1, <4>2, Zenon
      <4> QED
        BY <1>3, <4>1, <4>3, Zenon DEF is_directory
    <3>3. n \in Nat /\ i \in 1 .. n /\ i # n
      BY <1>1, <3>1, <3>2
    <3> HIDE DEF n, parents
    <3> QED
      BY <3>3
  <2>3. dir = IF parents = {} THEN <<>> ELSE SubSeq(base, 1, Max(parents))
    BY <1>3, Zenon DEF directory, Popped
  <2> HIDE DEF parents, dir
  <2>4. CASE Separators(base) = {}
    <3>1. dir = <<>> /\ Components(base) = <<base>>
      BY <2>2, <2>3, <2>4, NoSeparators
    <3>2. dir \o other = other
      BY <3>1, ConcatEmptySeq
    <3>3. Front(<<base>>) = <<>>
      BY DEF Front
    <3>4. Components(other) \in Seq(PathNames(S))
      BY ComponentsType DEF Parts
    <3>5. <<>> \o Components(other) = Components(other)
      BY <3>4, ConcatEmptySeq
    <3> QED
      BY <1>0, <3>1, <3>2, <3>3, <3>5, Zenon
  <2>5. CASE Separators(base) # {}
    <3> DEFINE m == Max(Separators(base))
               first == SubSeq(base, 1, m - 1)
               name == SubSeq(base, m + 1, n)
    <3>1. /\ SEPARATOR \in S /\ first \in Seq(S) /\ name \in PathNames(S)
          /\ SubSeq(base, 1, m) = first \o <<SEPARATOR>>
          /\ Components(base) = Components(first) \o <<name>>
      BY <2>5, LastCut
    <3>2. dir = SubSeq(base, 1, m)
      BY <2>2, <2>3, <2>5, Zenon
    <3> HIDE DEF first, name, m
    <3>3. Components((first \o <<SEPARATOR>>) \o other) = Components(first) \o Components(other)
      BY <3>1, ComponentsCut, ZenonT(60)
    <3>4. Components(first) \in Seq(PathNames(S))
      BY <3>1, ComponentsType DEF Parts
    <3>5. Front(Components(first) \o <<name>>) = Components(first)
      BY <3>1, <3>4, FrontOfJoined
    <3> QED
      BY <1>0, <3>1, <3>2, <3>3, <3>5, Zenon
  <2> QED
    BY <2>4, <2>5
<1> QED
  BY <1>2, <1>3

\* What is said of the names, and of paths that are joined.
LEMMA NamesAlways ==
    ASSUME NEW S, up_text \in Seq(S)
    PROVE  NamesAreComponents
<1> DEFINE parts == Components(up_text)
           name == Last(parts)
<1>1. base_name(up_text) = name
  BY BaseNameIsLast
<1>2. Separators(up_text) # {1} =>
         directory_name(up_text) = IF Len(parts) = 1 THEN <<>> ELSE parts[Len(parts) - 1]
  BY DirectoryNameIsBefore
<1>3. extension(up_text) # <<>> => \E i \in 2 .. Len(name) - 1 :
         IsDot(name[i]) /\ extension(up_text) = SubSeq(name, i + 1, Len(name))
  BY ExtensionInName
<1> QED
  BY <1>1, <1>2, <1>3, Zenon DEF NamesAreComponents, IsDot

\* The same for paths that are joined.
LEMMA JoinAlways ==
    ASSUME NEW S, up_text \in Seq(S)
    PROVE  JoinLeadsThere
<1> DEFINE text == up_text
<1>1. ASSUME NEW i \in 0 .. Len(text)
      PROVE  LET base == SubSeq(text, 1, i)
                 other == SubSeq(text, i + 1, Len(text)) IN
             Walk(Components(JoinPaths(base, other))) =
                Walk((IF is_absolute(other) THEN <<>> ELSE Front(Components(base))) \o Components(other))
  <2> DEFINE base == SubSeq(text, 1, i)
             other == SubSeq(text, i + 1, Len(text))
  <2>1. Len(text) \in Nat /\ \A j \in 1 .. Len(text) : text[j] \in S
    BY LenProperties, ElementOfSeq
  <2>2. base \in Seq(S) /\ other \in Seq(S)
    <3>1. /\ 1 \in Int /\ i \in Int /\ i + 1 \in Int /\ Len(text) \in Int
          /\ \A j \in 1 .. i : text[j] \in S
          /\ \A j \in i + 1 .. Len(text) : text[j] \in S
      BY <2>1
    <3> HIDE DEF text
    <3> QED
      BY <3>1, SubSeqProperties
  <2> HIDE DEF base, other
  <2>3. Components(other) \in Seq(PathNames(S))
    BY <2>2, ComponentsType DEF Parts
  <2>4. CASE is_absolute(other)
    <3>1. JoinPaths(base, other) = other
      BY <2>4, Zenon DEF JoinPaths
    <3>2. <<>> \o Components(other) = Components(other)
      BY <2>3, ConcatEmptySeq
    <3> QED
      BY <2>4, <3>1, <3>2, Zenon DEF base, other
  <2>5. CASE ~is_absolute(other)
    <3>1. Components(JoinPaths(base, other)) = Front(Components(base)) \o Components(other)
      BY <2>2, <2>5, JoinedComponents
    <3> QED
      BY <2>5, <3>1, Zenon DEF base, other
  <2> QED
    BY <2>4, <2>5
<1> QED
  BY <1>1, Zenon DEF JoinLeadsThere

\* Where components can lead to.
Spots(S) == [up : Nat, names : Seq(PathNames(S))]
Here == [up |-> 0, names |-> <<>>]

\* No two of these are the same component.
LEMMA DotsDiffer == Dot # <<>> /\ DotDot # <<>> /\ Dot # DotDot
<1> DEFINE c == "."
<1>1. Dot = <<c>> /\ DotDot = <<c, c>>
  BY Zenon DEF Dot, DotDot
<1> HIDE DEF c
<1>2. Len(<<c>>) = 1 /\ Len(<<c, c>>) = 2 /\ Len(<<>>) = 0
  OBVIOUS
<1> QED
  BY <1>1, <1>2

\* What a component does to the place, and that a step up undoes a name.
LEMMA GoFacts ==
    ASSUME NEW S, NEW at \in Spots(S), NEW c \in PathNames(S)
    PROVE  /\ Go(at, c) \in Spots(S)
           /\ c \in {<<>>, Dot} => Go(at, c) = at
           /\ c \notin {<<>>, Dot, DotDot} => Go(Go(at, c), DotDot) = at
<1> DEFINE N == PathNames(S)
<1>0. at \in [up : Nat, names : Seq(N)] /\ c \in N
  BY Zenon DEF Spots
<1>1. CASE c \in {<<>>, Dot}
  <2>1. Go(at, c) = at
    BY <1>1, DotsDiffer, Zenon DEF Go
  <2> QED
    BY <1>1, <2>1, Zenon
<1>2. CASE c \notin {<<>>, Dot} /\ c = DotDot
  <2>1. Go(at, c) = IF at.names = <<>> THEN [at EXCEPT !.up = @ + 1]
                    ELSE [at EXCEPT !.names = Front(@)]
    BY <1>2, Zenon DEF Go
  <2>2. CASE at.names = <<>>
    <3>1. [at EXCEPT !.up = @ + 1] \in [up : Nat, names : Seq(N)]
      BY <1>0
    <3> QED
      BY <1>2, <2>1, <2>2, <3>1, Zenon DEF Spots
  <2>3. CASE at.names # <<>>
    <3>1. Front(at.names) \in Seq(N)
      BY <1>0, <2>3, LastPart
    <3> DEFINE f == Front(at.names)
    <3>2. [at EXCEPT !.names = Front(@)] = [at EXCEPT !.names = f]
      OBVIOUS
    <3> HIDE DEF f, N
    <3>3. [at EXCEPT !.names = f] \in [up : Nat, names : Seq(N)]
      BY <1>0, <3>1 DEF f
    <3> QED
      BY <1>2, <2>1, <2>3, <3>2, <3>3, Zenon DEF Spots, N
  <2> QED
    BY <2>2, <2>3
<1>3. CASE c \notin {<<>>, Dot, DotDot}
  <2> DEFINE more == Append(at.names, c)
             to == [at EXCEPT !.names = more]
  <2>1. Go(at, c) = to
    BY <1>3, Zenon DEF Go
  <2>2. more \in Seq(N) /\ more # <<>>
    BY <1>0, AppendProperties
  <2>3. Front(more) = at.names
    <3>1. more = at.names \o <<c>>
      BY <1>0, AppendIsConcat
    <3>2. Front(at.names \o <<c>>) = at.names
      BY <1>0, FrontOfJoined
    <3> QED
      BY <3>1, <3>2, Zenon
  <2> HIDE DEF more, N
  <2>4. to \in [up : Nat, names : Seq(N)] /\ to.names = more
    BY <1>0, <2>2
  <2>5. [to EXCEPT !.names = at.names] = at
    BY <1>0
  <2> HIDE DEF to
  <2>6. Go(to, DotDot) = [to EXCEPT !.names = Front(to.names)]
    <3>1. DotDot \notin {<<>>, Dot} /\ to.names # <<>>
      BY <2>2, <2>4, DotsDiffer
    <3> QED
      BY <3>1, Zenon DEF Go
  <2>7. Go(to, DotDot) = at
    BY <2>3, <2>4, <2>5, <2>6, Zenon
  <2> QED
    BY <1>3, <2>1, <2>4, <2>7, Zenon DEF Spots, N
<1> QED
  BY <1>1, <1>2, <1>3

\* What Walk folds with.
IsGoFold(f, parts) ==
    f = [t \in SUBSET DOMAIN parts |->
           IF t = {} THEN Here ELSE Go(f[t \ {Max(t)}], parts[Max(t)])]

\* The place is the last of those come to.
LEMMA WalkFold ==
    ASSUME NEW S, NEW parts \in Seq(PathNames(S))
    PROVE  \E f \in [0 .. Len(parts) -> Spots(S)] :
              /\ f[0] = Here /\ f[Len(parts)] = Walk(parts)
              /\ \A k \in 0 .. Len(parts) - 1 : f[k + 1] = Go(f[k], parts[k + 1])
<1> DEFINE N == Len(parts)
           V == Spots(S)
           h == [i \in 1 .. N |-> [v \in V |-> Go(v, parts[i])]]
           g == CHOOSE f : IsGoFold(f, parts)
<1>1. N \in Nat /\ DOMAIN parts = 1 .. N /\ \A i \in 1 .. N : parts[i] \in PathNames(S)
  BY LenProperties, ElementOfSeq
<1>2. Here \in V
  <2>1. <<>> \in Seq(PathNames(S)) /\ 0 \in Nat
    BY EmptySeq
  <2> QED
    BY <2>1, Zenon DEF Spots, Here
<1>3. h \in [1 .. N -> [V -> V]]
  <2>1. \A i \in 1 .. N : \A v \in V : Go(v, parts[i]) \in V
    BY <1>1, GoFacts, Zenon
  <2> HIDE DEF N, V
  <2> QED
    BY <2>1
<1>4. Walk(parts) = g[DOMAIN parts]
  BY DEF Walk, Here, FoldLeft, MapThenFoldSet, IsGoFold
<1> HIDE DEF N, V
<1>5. IsGoFold(g, parts)
  <2>1. PICK f \in [SUBSET (1 .. N) -> V] : IsFold(f, Here, h, N)
    BY <1>1, <1>2, <1>3, FoldExists, Zenon
  <2>2. f = [t \in SUBSET (1 .. N) |-> IF t = {} THEN Here ELSE h[Max(t)][f[t \ {Max(t)}]]]
    BY <2>1, Zenon DEF IsFold
  <2>3. ASSUME NEW t \in SUBSET (1 .. N), t # {}
        PROVE  h[Max(t)][f[t \ {Max(t)}]] = Go(f[t \ {Max(t)}], parts[Max(t)])
    <3>1. Max(t) \in 1 .. N
      BY <1>1, <2>3, GreatestIn
    <3>2. f[t \ {Max(t)}] \in V
      BY <2>1
    <3> QED
      BY <3>1, <3>2, Zenon
  <2>4. f = [t \in SUBSET (1 .. N) |-> IF t = {} THEN Here ELSE Go(f[t \ {Max(t)}], parts[Max(t)])]
    <3> HIDE DEF h
    <3>1. \A t \in SUBSET (1 .. N) :
             (IF t = {} THEN Here ELSE h[Max(t)][f[t \ {Max(t)}]])
                = IF t = {} THEN Here ELSE Go(f[t \ {Max(t)}], parts[Max(t)])
      BY <2>3, Zenon
    <3> QED
      BY <2>2, <3>1, Zenon
  <2>5. IsGoFold(f, parts)
    BY <1>1, <2>4, Zenon DEF IsGoFold
  <2> QED
    BY <2>5, Zenon
<1> HIDE DEF g
<1>6. \A t \in SUBSET (1 .. N) :
         g[t] = IF t = {} THEN Here ELSE Go(g[t \ {Max(t)}], parts[Max(t)])
  BY <1>1, <1>5, Zenon DEF IsGoFold
<1>7. g[{}] = Here
  <2>1. {} \in SUBSET (1 .. N)
    OBVIOUS
  <2> QED
    BY <1>6, <2>1, Zenon
<1>8. ASSUME NEW t \in SUBSET (1 .. N), t # {}, g[t \ {Max(t)}] \in V
      PROVE  g[t] = h[Max(t)][g[t \ {Max(t)}]]
  <2>1. Max(t) \in 1 .. N
    BY <1>1, <1>8, GreatestIn
  <2>2. h[Max(t)][g[t \ {Max(t)}]] = Go(g[t \ {Max(t)}], parts[Max(t)])
    BY <1>8, <2>1, Zenon
  <2>3. g[t] = Go(g[t \ {Max(t)}], parts[Max(t)])
    BY <1>6, <1>8, Zenon
  <2> QED
    BY <2>2, <2>3, Zenon
<1>9. PICK f \in [0 .. N -> V] : FoldSteps(f, Here, h, N) /\ f[N] = g[1 .. N]
  <2>1. FoldsTo(g, Here, h, N, V)
    BY <1>7, <1>8, Zenon DEF FoldsTo
  <2> HIDE DEF h
  <2>2. HasSteps(g, Here, h, N, V)
    BY <1>1, <1>2, <1>3, <2>1, FoldValues, Zenon
  <2> QED
    BY <2>2, Zenon DEF HasSteps
<1>10. ASSUME NEW k \in 0 .. N - 1 PROVE f[k + 1] = Go(f[k], parts[k + 1])
  <2>1. k \in 0 .. N /\ k + 1 \in 1 .. N
    BY <1>1
  <2>2. f[k] \in V
    BY <2>1
  <2>3. h[k + 1][f[k]] = Go(f[k], parts[k + 1])
    BY <2>1, <2>2, Zenon
  <2> QED
    BY <1>9, <2>3, Zenon DEF FoldSteps
<1>11. f[N] = Walk(parts)
  BY <1>1, <1>4, <1>9, Zenon
<1> QED
  BY <1>9, <1>10, <1>11, Zenon DEF N, V, FoldSteps

\* No components lead nowhere.
LEMMA WalkNil == Walk(<<>>) = Here
<1> DEFINE parts == <<>>
<1>1. parts \in Seq(PathNames({})) /\ Len(parts) = 0
  BY EmptySeq
<1> HIDE DEF parts
<1>2. PICK f \in [0 .. Len(parts) -> Spots({})] : f[0] = Here /\ f[Len(parts)] = Walk(parts)
  BY <1>1, WalkFold
<1>3. Walk(parts) = Here
  BY <1>1, <1>2, Zenon
<1> QED
  BY <1>3 DEF parts

\* One more component is one more step.
LEMMA WalkAppend ==
    ASSUME NEW S, NEW parts \in Seq(PathNames(S)), NEW c \in PathNames(S)
    PROVE  Walk(Append(parts, c)) = Go(Walk(parts), c)
<1> DEFINE N == Len(parts)
           more == Append(parts, c)
<1>1. /\ N \in Nat /\ more \in Seq(PathNames(S)) /\ Len(more) = N + 1 /\ more[N + 1] = c
      /\ \A i \in 1 .. N : more[i] = parts[i]
  BY LenProperties, AppendProperties
<1> HIDE DEF N, more
<1>2. PICK f \in [0 .. Len(parts) -> Spots(S)] :
         /\ f[0] = Here /\ f[Len(parts)] = Walk(parts)
         /\ \A k \in 0 .. Len(parts) - 1 : f[k + 1] = Go(f[k], parts[k + 1])
  BY WalkFold
<1>3. PICK g \in [0 .. Len(more) -> Spots(S)] :
         /\ g[0] = Here /\ g[Len(more)] = Walk(more)
         /\ \A k \in 0 .. Len(more) - 1 : g[k + 1] = Go(g[k], more[k + 1])
  BY <1>1, WalkFold
<1> DEFINE T == {k \in 0 .. N : f[k] = g[k]}
<1>4. 0 \in T
  <2>1. 0 \in 0 .. N
    BY <1>1
  <2> QED
    BY <1>2, <1>3, <2>1, Zenon
<1>5. ASSUME NEW k \in 0 .. (N - 1), k \in T PROVE k + 1 \in T
  <2>1. k + 1 \in 0 .. N /\ k + 1 \in 1 .. N /\ k \in 0 .. Len(parts) - 1 /\ k \in 0 .. Len(more) - 1
    BY <1>1 DEF N
  <2>2. f[k + 1] = Go(f[k], parts[k + 1]) /\ g[k + 1] = Go(g[k], more[k + 1])
    BY <1>2, <1>3, <2>1, Zenon
  <2>3. f[k] = g[k] /\ more[k + 1] = parts[k + 1]
    BY <1>1, <1>5, <2>1
  <2>4. f[k + 1] = g[k + 1]
    BY <2>2, <2>3, Zenon
  <2> QED
    BY <2>1, <2>4, Zenon
<1> HIDE DEF T
<1>6. 0 .. N \subseteq T
  BY <1>1, <1>4, <1>5, UpTo
<1>7. f[N] = g[N]
  BY <1>1, <1>6 DEF T
<1>8. g[N + 1] = Go(g[N], more[N + 1])
  <2>1. N \in 0 .. Len(more) - 1
    BY <1>1
  <2> QED
    BY <1>3, <2>1, Zenon
<1>9. f[N] = Walk(parts) /\ g[N + 1] = Walk(more)
  BY <1>1, <1>2, <1>3, Zenon DEF N
<1> QED
  BY <1>1, <1>7, <1>8, <1>9, Zenon DEF more

\* The place that components lead to is a place.
LEMMA WalkType ==
    ASSUME NEW S, NEW parts \in Seq(PathNames(S))
    PROVE  Walk(parts) \in Spots(S)
<1>1. Len(parts) \in 0 .. Len(parts)
  <2>1. Len(parts) \in Nat
    BY LenProperties
  <2> QED
    BY <2>1
<1> QED
  BY <1>1, WalkFold

\* What is left of a path whose last component is taken away, when it ends with a
\* separator.
LEMMA PopPart ==
    ASSUME NEW S, NEW path \in Seq(S), NEW parts \in Parts(S),
           Components(path) = parts \o <<<<>>>>, parts # <<<<>>>>
    PROVE  Popped(path) \in Seq(S) /\ Components(Popped(path)) = Front(parts) \o <<<<>>>>
<1> DEFINE N == PathNames(S)
           n == Len(path)
           parents == {i \in Separators(path) : n >= 2 => i < n}
<1>1. parts \in Seq(N) /\ parts # <<>> /\ <<>> \in N /\ Len(parts) \in Nat \ {0}
  BY EmptySeq DEF Parts, PathNames
<1>2. Separators(path) # {}
  <2> SUFFICES ASSUME Separators(path) = {} PROVE FALSE
    OBVIOUS
  <2>1. Components(path) = <<path>>
    BY NoSeparators
  <2>2. Len(<<path>>) = 1
    OBVIOUS
  <2>3. Len(parts \o <<<<>>>>) = Len(parts) + 1
    BY <1>1, FrontOfJoined
  <2> QED
    BY <1>1, <2>1, <2>2, <2>3
<1> DEFINE m == Max(Separators(path))
           first == SubSeq(path, 1, m - 1)
           name == SubSeq(path, m + 1, n)
<1>3. /\ m \in 1 .. n /\ n \in Nat /\ SEPARATOR \in S
      /\ first \in Seq(S) /\ name \in N
      /\ path = (first \o <<SEPARATOR>>) \o name
      /\ Components(path) = Components(first) \o <<name>>
      /\ Len(first) = m - 1 /\ Len(name) = n - m
  BY <1>2, LastCut
<1>4. /\ Separators(path) \in SUBSET (1 .. n) /\ m \in Separators(path)
      /\ \A i \in Separators(path) : i <= m
  BY <1>2, SeparatorPlaces
<1>5. parents \subseteq Separators(path) /\ (Popped(path) = IF parents = {} THEN <<>> ELSE SubSeq(path, 1, Max(parents)))
  BY Zenon DEF Popped
<1>6. \A i \in 1 .. n : path[i] = SEPARATOR <=> i \in Separators(path)
  BY SeparatorPlaces
<1> HIDE DEF m, first, name, n, parents
<1>7. Components(first) \in Seq(N)
  BY <1>3, ComponentsType DEF Parts
<1>8. Components(first) = parts /\ name = <<>>
  <2>1. Front(Components(first) \o <<name>>) = Components(first) /\ Last(Components(first) \o <<name>>) = name
    BY <1>3, <1>7, FrontOfJoined
  <2>2. Front(parts \o <<<<>>>>) = parts /\ Last(parts \o <<<<>>>>) = <<>>
    BY <1>1, FrontOfJoined
  <2>3. Components(first) \o <<name>> = parts \o <<<<>>>>
    BY <1>3, Zenon
  <2> QED
    BY <2>1, <2>2, <2>3, Zenon
<1>9. m = n
  <2>1. Len(<<>>) = 0
    OBVIOUS
  <2>2. n - m = 0
    BY <1>3, <1>8, <2>1, Zenon
  <2> QED
    BY <1>3, <2>2
<1>10. n >= 2
  <2> SUFFICES ASSUME ~(n >= 2) PROVE FALSE
    OBVIOUS
  <2>1. Len(first) = 0
    BY <1>3, <1>9
  <2>2. first = <<>>
    BY <1>3, <2>1, EmptySeq
  <2>3. parts = <<<<>>>>
    BY <1>8, <2>2, ComponentsNil, Zenon
  <2> QED
    BY <2>3, Zenon
<1>11. parents = {i \in 1 .. n - 1 : path[i] = SEPARATOR}
  <2>1. parents = {i \in Separators(path) : i < n}
    BY <1>10, Zenon DEF parents
  <2> DEFINE at == Separators(path)
             before == {i \in 1 .. n - 1 : path[i] = SEPARATOR}
  <2>2. n \in Nat /\ at \in SUBSET (1 .. n)
    BY <1>3, <1>4
  <2>3. \A i \in 1 .. n : path[i] = SEPARATOR <=> i \in at
    BY <1>6
  <2> HIDE DEF at
  <2>4. \A i \in 1 .. n : i \in 1 .. n - 1 <=> i < n
    BY <2>2
  <2>5. 1 .. n - 1 \subseteq 1 .. n
    BY <2>2
  <2>6. {i \in at : i < n} = before
    BY <2>2, <2>3, <2>4, <2>5, Zenon
  <2> QED
    BY <2>1, <2>6, Zenon DEF at
<1>12. DOMAIN first = 1 .. n - 1 /\ \A i \in 1 .. n - 1 : first[i] = path[i]
  <2>1. DOMAIN first = 1 .. n - 1
    BY <1>3, <1>9, LenProperties
  <2>2. \A i \in 1 .. n - 1 : first[i] = path[i]
    <3>1. \A i \in 1 .. n - 1 : path[i] \in S
      <4> SUFFICES ASSUME NEW i \in 1 .. n - 1 PROVE path[i] \in S
        OBVIOUS
      <4>1. i \in 1 .. Len(path)
        BY <1>3 DEF n
      <4> QED
        BY <4>1, ElementOfSeq
    <3>2. 1 \in Int /\ n - 1 \in Int
      BY <1>3
    <3>3. \A i \in 1 .. (n - 1) - 1 + 1 : SubSeq(path, 1, n - 1)[i] = path[1 + i - 1]
      BY <3>1, <3>2, SubSeqProperties
    <3>4. first = SubSeq(path, 1, n - 1)
      BY <1>9, Zenon DEF first
    <3> SUFFICES ASSUME NEW i \in 1 .. n - 1 PROVE first[i] = path[i]
      OBVIOUS
    <3>5. i \in 1 .. (n - 1) - 1 + 1 /\ 1 + i - 1 = i
      BY <1>3
    <3> QED
      BY <3>3, <3>4, <3>5, Zenon
  <2> QED
    BY <2>1, <2>2
<1>13. parents = Separators(first)
  BY <1>11, <1>12 DEF Separators
<1>14. CASE Separators(first) = {}
  <2>1. parts = <<first>>
    BY <1>3, <1>8, <1>14, NoSeparators
  <2>2. Front(<<first>>) = <<>> /\ <<>> \o <<<<>>>> = <<<<>>>>
    BY DEF Front
  <2>3. Popped(path) = <<>>
    BY <1>5, <1>13, <1>14, Zenon
  <2>4. Popped(path) \in Seq(S)
    BY <2>3, EmptySeq
  <2> QED
    BY <2>1, <2>2, <2>3, <2>4, ComponentsNil, Zenon
<1>15. CASE Separators(first) # {}
  <2> DEFINE k == Max(Separators(first))
             second == SubSeq(first, 1, k - 1)
             rest == SubSeq(first, k + 1, Len(first))
  <2>1. /\ k \in 1 .. Len(first)
        /\ second \in Seq(S) /\ rest \in N
        /\ SubSeq(first, 1, k) = second \o <<SEPARATOR>>
        /\ Components(first) = Components(second) \o <<rest>>
    BY <1>3, <1>15, LastCut
  <2>2. Popped(path) = SubSeq(path, 1, k)
    BY <1>5, <1>13, <1>15, Zenon
  <2> HIDE DEF k, second, rest
  <2>3. SubSeq(first, 1, k) = SubSeq(path, 1, k)
    <3>1. \A i \in 1 .. k : first[i] = path[i] /\ i \in 1 .. n - 1
      BY <1>3, <1>9, <1>12, <2>1
    <3>2. SubSeq(first, 1, k) = [i \in 1 .. k |-> first[i]] /\ SubSeq(path, 1, k) = [i \in 1 .. k |-> path[i]]
      BY <2>1, <3>1
    <3> QED
      BY <3>1, <3>2, Zenon
  <2>4. Components(second) \in Seq(N)
    BY <2>1, ComponentsType DEF Parts
  <2>5. Front(Components(second) \o <<rest>>) = Components(second)
    BY <2>1, <2>4, FrontOfJoined
  <2>6. Front(parts) = Components(second)
    BY <1>8, <2>1, <2>5, Zenon
  <2>7. Components(second \o <<SEPARATOR>>) = Components(second) \o <<<<>>>> /\ second \o <<SEPARATOR>> \in Seq(S)
    BY <1>3, <2>1, ComponentsCut
  <2> QED
    BY <2>1, <2>2, <2>3, <2>6, <2>7, Zenon
<1> QED
  BY <1>14, <1>15

\* A path that something is taken away from is a path.
LEMMA PoppedType ==
    ASSUME NEW S, NEW path \in Seq(S)
    PROVE  Popped(path) \in Seq(S)
<1> DEFINE n == Len(path)
           parents == {i \in Separators(path) : n >= 2 => i < n}
<1>1. n \in Nat /\ parents \in SUBSET (1 .. n) /\ \A i \in 1 .. n : path[i] \in S
  BY SeparatorPlaces, ElementOfSeq
<1>2. Popped(path) = IF parents = {} THEN <<>> ELSE SubSeq(path, 1, Max(parents))
  BY Zenon DEF Popped
<1> HIDE DEF parents
<1>3. CASE parents = {}
  BY <1>2, <1>3, EmptySeq
<1>4. CASE parents # {}
  <2> DEFINE m == Max(parents)
  <2>1. m \in 1 .. n
    BY <1>1, <1>4, GreatestIn
  <2> HIDE DEF m, n
  <2>2. 1 \in Int /\ m \in Int /\ \A i \in 1 .. m : path[i] \in S
    BY <1>1, <2>1
  <2>3. SubSeq(path, 1, m) \in Seq(S)
    BY <2>2, SubSeqProperties
  <2> QED
    BY <1>2, <1>4, <2>3, Zenon DEF m
<1> QED
  BY <1>3, <1>4

\* What simplify has done so far.
Sofars(S) == [result : Seq(S), depth : Nat]
Start == [result |-> <<>>, depth |-> 0]
IsStepUp(sofar, c) == c = DotDot /\ sofar.depth > 0

\* A component that is pushed.
Onward(sofar, parts, i) ==
    [result |-> Pushed(sofar.result, parts[i], i < Len(parts)),
     depth |-> sofar.depth + IF parts[i] \in {<<>>, DotDot} THEN 0 ELSE 1]

\* What a turn of the loop of simplify does, case by case.
LEMMA TurnFacts ==
    ASSUME NEW sofar, NEW parts, NEW i
    PROVE  /\ parts[i] = Dot => Turn(sofar, parts, i) = sofar
           /\ IsStepUp(sofar, parts[i]) =>
                 Turn(sofar, parts, i) = [result |-> Popped(sofar.result), depth |-> sofar.depth - 1]
           /\ parts[i] # Dot /\ ~IsStepUp(sofar, parts[i]) =>
                 Turn(sofar, parts, i) = Onward(sofar, parts, i)
<1>1. Dot # DotDot
  BY DotsDiffer, Zenon
<1> DEFINE up == [result |-> Popped(sofar.result), depth |-> sofar.depth - 1]
           on == Onward(sofar, parts, i)
<1>2. Turn(sofar, parts, i) = CASE parts[i] = Dot -> sofar
                                [] IsStepUp(sofar, parts[i]) -> up
                                [] OTHER -> on
  BY Zenon DEF Turn, IsStepUp, Onward
<1>3. ~(parts[i] = Dot /\ IsStepUp(sofar, parts[i]))
  BY <1>1, Zenon DEF IsStepUp
<1> HIDE DEF up, on
<1>4. /\ parts[i] = Dot => Turn(sofar, parts, i) = sofar
      /\ IsStepUp(sofar, parts[i]) => Turn(sofar, parts, i) = up
      /\ parts[i] # Dot /\ ~IsStepUp(sofar, parts[i]) => Turn(sofar, parts, i) = on
  BY <1>2, <1>3
<1> QED
  BY <1>4 DEF up, on

\* What is pushed is text, with a separator behind it when more components follow.
LEMMA PushedFacts ==
    ASSUME NEW S, SEPARATOR \in S, NEW result \in Seq(S), NEW c \in PathNames(S)
    PROVE  /\ result \o c \in Seq(S)
           /\ Pushed(result, c, TRUE) = (result \o c) \o <<SEPARATOR>>
           /\ Pushed(result, c, FALSE) = result \o c
           /\ \A more \in BOOLEAN : Pushed(result, c, more) \in Seq(S)
<1>1. c \in Seq(S)
  BY NameIsText
<1>2. result \o c \in Seq(S)
  BY <1>1, ConcatProperties
<1>3. Pushed(result, c, TRUE) = (result \o c) \o <<SEPARATOR>>
  BY Zenon DEF Pushed
<1>4. Pushed(result, c, FALSE) = (result \o c) \o <<>>
  BY Zenon DEF Pushed
<1>5. (result \o c) \o <<>> = result \o c
  BY <1>2, ConcatEmptySeq
<1>6. (result \o c) \o <<SEPARATOR>> \in Seq(S)
  BY <1>2, ComponentsCut
<1> QED
  BY <1>2, <1>3, <1>4, <1>5, <1>6

\* A turn of the loop keeps what has been done so far a text and a number.
LEMMA TurnType ==
    ASSUME NEW S, SEPARATOR \in S, NEW sofar \in Sofars(S), NEW parts \in Seq(PathNames(S)),
           NEW i \in 1 .. Len(parts)
    PROVE  Turn(sofar, parts, i) \in Sofars(S)
<1>1. sofar.result \in Seq(S) /\ sofar.depth \in Nat /\ parts[i] \in PathNames(S)
  <2>1. parts[i] \in PathNames(S)
    BY ElementOfSeq
  <2> QED
    BY <2>1 DEF Sofars
<1> DEFINE d == sofar.depth + IF parts[i] \in {<<>>, DotDot} THEN 0 ELSE 1
           r == Pushed(sofar.result, parts[i], i < Len(parts))
<1>2. d \in Nat
  BY <1>1
<1>3. r \in Seq(S)
  <2>1. (i < Len(parts)) \in BOOLEAN
    OBVIOUS
  <2> QED
    BY <1>1, <2>1, PushedFacts, Zenon
<1>4. Popped(sofar.result) \in Seq(S)
  BY <1>1, PoppedType
<1>5. IsStepUp(sofar, parts[i]) => sofar.depth - 1 \in Nat
  BY <1>1 DEF IsStepUp
<1> HIDE DEF d, r
<1>6. CASE parts[i] = Dot
  BY <1>6, TurnFacts, Zenon
<1>7. CASE IsStepUp(sofar, parts[i])
  <2>1. Turn(sofar, parts, i) = [result |-> Popped(sofar.result), depth |-> sofar.depth - 1]
    BY <1>7, TurnFacts, Zenon
  <2> QED
    BY <1>4, <1>5, <1>7, <2>1 DEF Sofars
<1>8. CASE parts[i] # Dot /\ ~IsStepUp(sofar, parts[i])
  <2>1. Turn(sofar, parts, i) = [result |-> r, depth |-> d]
    <3>1. Turn(sofar, parts, i) = Onward(sofar, parts, i)
      BY <1>8, TurnFacts, Zenon
    <3> QED
      BY <3>1, Zenon DEF r, d, Onward
  <2> QED
    BY <1>2, <1>3, <2>1 DEF Sofars
<1> QED
  BY <1>6, <1>7, <1>8, Zenon

\* What Simplified folds with.
IsTurnFold(f, parts) ==
    LET turns == [i \in DOMAIN parts |-> i] IN
    f = [t \in SUBSET DOMAIN turns |->
           IF t = {} THEN Start ELSE Turn(f[t \ {Max(t)}], parts, turns[Max(t)])]

\* What simplify returns is what is done when every component has had its turn.
LEMMA TurnFold ==
    ASSUME NEW S, SEPARATOR \in S, NEW parts \in Seq(PathNames(S))
    PROVE  \E f \in [0 .. Len(parts) -> Sofars(S)] :
              /\ f[0] = Start /\ f[Len(parts)] = Simplified(parts)
              /\ \A k \in 0 .. Len(parts) - 1 : f[k + 1] = Turn(f[k], parts, k + 1)
<1> DEFINE N == Len(parts)
           V == Sofars(S)
           h == [i \in 1 .. N |-> [v \in V |-> Turn(v, parts, i)]]
           g == CHOOSE f : IsTurnFold(f, parts)
<1>1. N \in Nat /\ DOMAIN parts = 1 .. N /\ \A i \in 1 .. N : parts[i] \in PathNames(S)
  BY LenProperties, ElementOfSeq
<1>2. Start \in V
  <2>1. <<>> \in Seq(S) /\ 0 \in Nat
    BY EmptySeq
  <2> QED
    BY <2>1 DEF Sofars, Start
<1>3. h \in [1 .. N -> [V -> V]]
  <2>1. \A i \in 1 .. N : \A v \in V : Turn(v, parts, i) \in V
    BY <1>1, TurnType, Zenon
  <2> HIDE DEF N, V
  <2> QED
    BY <2>1
<1>4. Simplified(parts).result = g[DOMAIN parts].result /\ Simplified(parts) = g[DOMAIN parts]
  <2>1. DOMAIN [i \in DOMAIN parts |-> i] = DOMAIN parts
    OBVIOUS
  <2>2. Simplified(parts) = g[DOMAIN [i \in DOMAIN parts |-> i]]
    BY Zenon DEF Simplified, Start, FoldLeft, MapThenFoldSet, IsTurnFold
  <2> QED
    BY <2>1, <2>2, Zenon
<1> HIDE DEF N, V
<1>5. IsTurnFold(g, parts)
  <2>1. PICK f \in [SUBSET (1 .. N) -> V] : IsFold(f, Start, h, N)
    BY <1>1, <1>2, <1>3, FoldExists, Zenon
  <2>2. f = [t \in SUBSET (1 .. N) |-> IF t = {} THEN Start ELSE h[Max(t)][f[t \ {Max(t)}]]]
    BY <2>1, Zenon DEF IsFold
  <2>3. ASSUME NEW t \in SUBSET (1 .. N), t # {}
        PROVE  h[Max(t)][f[t \ {Max(t)}]] = Turn(f[t \ {Max(t)}], parts, Max(t))
    <3>1. Max(t) \in 1 .. N
      BY <1>1, <2>3, GreatestIn
    <3>2. f[t \ {Max(t)}] \in V
      BY <2>1
    <3> QED
      BY <3>1, <3>2, Zenon
  <2>4. f = [t \in SUBSET (1 .. N) |-> IF t = {} THEN Start ELSE Turn(f[t \ {Max(t)}], parts, Max(t))]
    <3> HIDE DEF h
    <3>1. \A t \in SUBSET (1 .. N) :
             (IF t = {} THEN Start ELSE h[Max(t)][f[t \ {Max(t)}]])
                = IF t = {} THEN Start ELSE Turn(f[t \ {Max(t)}], parts, Max(t))
      BY <2>3, Zenon
    <3> QED
      BY <2>2, <3>1, Zenon
  <2> DEFINE turns == [i \in DOMAIN parts |-> i]
  <2>5. DOMAIN turns = 1 .. N /\ \A i \in 1 .. N : turns[i] = i
    BY <1>1
  <2> HIDE DEF turns
  <2>6. ASSUME NEW t \in SUBSET (1 .. N)
        PROVE  (IF t = {} THEN Start ELSE Turn(f[t \ {Max(t)}], parts, Max(t)))
                  = IF t = {} THEN Start ELSE Turn(f[t \ {Max(t)}], parts, turns[Max(t)])
    <3>1. t # {} => turns[Max(t)] = Max(t)
      BY <1>1, <2>5, GreatestIn
    <3> QED
      BY <3>1, Zenon
  <2>7. f = [t \in SUBSET DOMAIN turns |->
               IF t = {} THEN Start ELSE Turn(f[t \ {Max(t)}], parts, turns[Max(t)])]
    <3>1. f = [t \in SUBSET (1 .. N) |->
               IF t = {} THEN Start ELSE Turn(f[t \ {Max(t)}], parts, turns[Max(t)])]
      BY <2>4, <2>6, Zenon
    <3> QED
      BY <2>5, <3>1, Zenon
  <2>8. IsTurnFold(f, parts)
    BY <2>7, Zenon DEF IsTurnFold, turns
  <2> QED
    BY <2>8, Zenon
<1> HIDE DEF g
<1>6. \A t \in SUBSET (1 .. N) :
         g[t] = IF t = {} THEN Start ELSE Turn(g[t \ {Max(t)}], parts, Max(t))
  <2> DEFINE turns == [i \in DOMAIN parts |-> i]
  <2>1. DOMAIN turns = 1 .. N /\ \A i \in 1 .. N : turns[i] = i
    BY <1>1
  <2>2. g = [t \in SUBSET DOMAIN turns |->
               IF t = {} THEN Start ELSE Turn(g[t \ {Max(t)}], parts, turns[Max(t)])]
    BY <1>5, Zenon DEF IsTurnFold
  <2> HIDE DEF turns
  <2>3. \A t \in SUBSET (1 .. N) :
          g[t] = IF t = {} THEN Start ELSE Turn(g[t \ {Max(t)}], parts, turns[Max(t)])
    BY <2>1, <2>2, Zenon
  <2>4. \A t \in SUBSET (1 .. N) : t # {} => turns[Max(t)] = Max(t)
    BY <1>1, <2>1, GreatestIn
  <2> QED
    BY <2>3, <2>4, Zenon
<1>7. g[{}] = Start
  <2>1. {} \in SUBSET (1 .. N)
    OBVIOUS
  <2> QED
    BY <1>6, <2>1, Zenon
<1>8. ASSUME NEW t \in SUBSET (1 .. N), t # {}, g[t \ {Max(t)}] \in V
      PROVE  g[t] = h[Max(t)][g[t \ {Max(t)}]]
  <2>1. Max(t) \in 1 .. N
    BY <1>1, <1>8, GreatestIn
  <2>2. h[Max(t)][g[t \ {Max(t)}]] = Turn(g[t \ {Max(t)}], parts, Max(t))
    BY <1>8, <2>1, Zenon
  <2>3. g[t] = Turn(g[t \ {Max(t)}], parts, Max(t))
    BY <1>6, <1>8, Zenon
  <2> QED
    BY <2>2, <2>3, Zenon
<1>9. PICK f \in [0 .. N -> V] : FoldSteps(f, Start, h, N) /\ f[N] = g[1 .. N]
  <2>1. FoldsTo(g, Start, h, N, V)
    BY <1>7, <1>8, Zenon DEF FoldsTo
  <2> HIDE DEF h
  <2>2. HasSteps(g, Start, h, N, V)
    BY <1>1, <1>2, <1>3, <2>1, FoldValues, Zenon
  <2> QED
    BY <2>2, Zenon DEF HasSteps
<1>10. ASSUME NEW k \in 0 .. N - 1 PROVE f[k + 1] = Turn(f[k], parts, k + 1)
  <2>1. k \in 0 .. N /\ k + 1 \in 1 .. N
    BY <1>1
  <2>2. f[k] \in V
    BY <2>1
  <2>3. h[k + 1][f[k]] = Turn(f[k], parts, k + 1)
    BY <2>1, <2>2, Zenon
  <2> QED
    BY <1>9, <2>3, Zenon DEF FoldSteps
<1>11. f[N] = Simplified(parts)
  BY <1>1, <1>4, <1>9, Zenon
<1> QED
  BY <1>9, <1>10, <1>11, Zenon DEF N, V, FoldSteps

\* What the components of a text say of its characters.
NoneEmptyWithin(parts) == \A i \in 2 .. Len(parts) - 1 : parts[i] # <<>>
TextMeets(t, parts) ==
    /\ HasEmptyComponent(t) \/ NoneEmptyWithin(parts)
    /\ t # <<>> /\ parts[Len(parts)] = <<>> => t[Len(t)] = SEPARATOR
    /\ t # <<>> => (t[1] = SEPARATOR <=> parts[1] = <<>>)
    /\ t # <<>> /\ parts[1] = <<>> => Len(parts) >= 2
    /\ t = <<>> => parts = <<<<>>>>

\* One more character keeps what is said.
LEMMA FoundMeets ==
    ASSUME NEW S, NEW t \in Seq(S), NEW parts \in Parts(S), NEW c \in S, TextMeets(t, parts)
    PROVE  TextMeets(Append(t, c), Found(parts, c))
<1> DEFINE k == Len(t)
           n == Len(parts)
           more == Append(t, c)
           found == Found(parts, c)
           N == PathNames(S)
<1>1. /\ k \in Nat /\ more \in Seq(S) /\ Len(more) = k + 1 /\ more[k + 1] = c
      /\ (\A i \in 1 .. k : more[i] = t[i]) /\ more # <<>>
  BY LenProperties, AppendProperties
<1>2. parts \in Seq(N) /\ parts # <<>> /\ n \in Nat \ {0} /\ <<>> \in N
  <2>1. parts \in Seq(N) /\ parts # <<>>
    BY Zenon DEF Parts
  <2> QED
    BY <2>1, EmptySeq DEF PathNames
<1>3. t = <<>> <=> k = 0
  BY EmptySeq
<1>4. t = <<>> => n = 1 /\ parts[1] = <<>>
  <2>1. Len(<<<<>>>>) = 1 /\ <<<<>>>>[1] = <<>>
    OBVIOUS
  <2> QED
    BY <2>1, Zenon DEF TextMeets
<1>5. HasEmptyComponent(t) => HasEmptyComponent(more)
  <2> SUFFICES ASSUME NEW i \in 2 .. k, t[i - 1] = SEPARATOR, t[i] = SEPARATOR
               PROVE  \E j \in 2 .. Len(more) : more[j - 1] = SEPARATOR /\ more[j] = SEPARATOR
    BY Zenon DEF HasEmptyComponent
  <2>1. i \in 2 .. Len(more) /\ i \in 1 .. k /\ i - 1 \in 1 .. k
    BY <1>1
  <2>2. more[i - 1] = SEPARATOR /\ more[i] = SEPARATOR
    BY <1>1, <2>1
  <2> QED
    BY <2>1, <2>2
<1>6. k # 0 => more[1] = t[1]
  BY <1>1
<1>7. k = 0 => more[1] = c
  BY <1>1
<1>8. CASE c = SEPARATOR
  <2>1. /\ found \in Seq(N) /\ Len(found) = n + 1 /\ found[n + 1] = <<>>
        /\ \A i \in 1 .. n : found[i] = parts[i]
    <3>1. found = Append(parts, <<>>)
      BY <1>8, Zenon DEF Found
    <3> HIDE DEF found
    <3> QED
      BY <1>2, <3>1, AppendProperties
  <2>2. k # 0 /\ parts[n] = <<>> => HasEmptyComponent(more)
    <3> SUFFICES ASSUME k # 0, parts[n] = <<>>
                 PROVE  \E j \in 2 .. Len(more) : more[j - 1] = SEPARATOR /\ more[j] = SEPARATOR
      BY Zenon DEF HasEmptyComponent
    <3>1. t[k] = SEPARATOR
      BY <1>3, Zenon DEF TextMeets
    <3>2. k + 1 \in 2 .. Len(more) /\ (k + 1) - 1 = k /\ k \in 1 .. k
      BY <1>1
    <3>3. more[k] = SEPARATOR /\ more[k + 1] = SEPARATOR
      BY <1>1, <1>8, <3>1, <3>2, Zenon
    <3> QED
      BY <3>2, <3>3
  <2>3. NoneEmptyWithin(parts) /\ ~HasEmptyComponent(more) => NoneEmptyWithin(found)
    <3> SUFFICES ASSUME NoneEmptyWithin(parts), ~HasEmptyComponent(more), NEW i \in 2 .. Len(found) - 1
                 PROVE  found[i] # <<>>
      BY Zenon DEF NoneEmptyWithin
    <3>1. i \in 2 .. n /\ i \in 1 .. n /\ (i \in 2 .. n - 1 \/ i = n)
      BY <1>2, <2>1
    <3>2. found[i] = parts[i]
      BY <2>1, <3>1, Zenon
    <3>3. i \in 2 .. n - 1 => parts[i] # <<>>
      BY Zenon DEF NoneEmptyWithin
    <3>4. i = n => k # 0
      <4>1. i = n => n # 1
        BY <1>2, <3>1
      <4> QED
        BY <1>3, <1>4, <4>1, Zenon
    <3> QED
      BY <2>2, <3>1, <3>2, <3>3, <3>4, Zenon
  <2>4. HasEmptyComponent(more) \/ NoneEmptyWithin(found)
    BY <1>5, <2>3, Zenon DEF TextMeets
  <2>5. more[Len(more)] = SEPARATOR
    BY <1>1, <1>8, Zenon
  <2>6. 1 \in 1 .. n /\ Len(found) >= 2
    BY <1>2, <2>1
  <2>7. found[1] = parts[1]
    BY <2>1, <2>6, Zenon
  <2>8. more[1] = SEPARATOR <=> found[1] = <<>>
    BY <1>3, <1>4, <1>6, <1>7, <1>8, <2>7, Zenon DEF TextMeets
  <2> HIDE DEF more, found
  <2> QED
    BY <1>1, <2>4, <2>5, <2>6, <2>8, Zenon DEF TextMeets, more, found
<1>9. CASE c # SEPARATOR
  <2>1. /\ Len(found) = n /\ found[n] # <<>>
        /\ \A i \in 1 .. n : i # n => found[i] = parts[i]
    <3> DEFINE x == Append(parts[n], c)
    <3>1. parts[n] \in N /\ n \in 1 .. n
      BY <1>2, ElementOfSeq
    <3>2. x \in N /\ x # <<>>
      <4>1. c \in S \ {SEPARATOR}
        BY <1>9
      <4> QED
        BY <3>1, <4>1, AppendProperties DEF PathNames
    <3>3. found = [parts EXCEPT ![n] = x]
      BY <1>9, Zenon DEF Found
    <3> HIDE DEF found, x, N, n
    <3>4. n \in 1 .. Len(parts)
      BY <3>1 DEF n
    <3>5. /\ Len(found) = Len(parts)
          /\ \A j \in 1 .. Len(parts) : found[j] = IF j = n THEN x ELSE parts[j]
      BY <1>2, <3>2, <3>3, <3>4, ExceptSeq
    <3> QED
      BY <3>1, <3>2, <3>5, Zenon DEF n
  <2>2. NoneEmptyWithin(parts) => NoneEmptyWithin(found)
    <3> SUFFICES ASSUME NoneEmptyWithin(parts), NEW i \in 2 .. Len(found) - 1
                 PROVE  found[i] # <<>>
      BY Zenon DEF NoneEmptyWithin
    <3>1. i \in 2 .. n - 1 /\ i \in 1 .. n /\ i # n
      BY <1>2, <2>1
    <3> QED
      BY <2>1, <3>1, Zenon DEF NoneEmptyWithin
  <2>3. HasEmptyComponent(more) \/ NoneEmptyWithin(found)
    BY <1>5, <2>2, Zenon DEF TextMeets
  <2>4. found[Len(found)] # <<>>
    BY <2>1, Zenon
  <2>5. n = 1 \/ (n >= 2 /\ 1 \in 1 .. n /\ 1 # n)
    <3>1. n \in Nat \ {0}
      BY <1>2
    <3> HIDE DEF n
    <3> QED
      BY <3>1
  <2>6. n = 1 => found[1] # <<>>
    BY <2>1, Zenon
  <2>7. n # 1 => found[1] = parts[1] /\ Len(found) >= 2
    BY <2>1, <2>5, Zenon
  <2>8. found[1] = <<>> => Len(found) >= 2
    BY <2>6, <2>7, Zenon
  <2>9. more[1] = SEPARATOR <=> found[1] = <<>>
    <3>1. CASE k = 0
      <4>1. n = 1
        BY <1>3, <1>4, <3>1, Zenon
      <4> QED
        BY <1>7, <1>9, <2>6, <3>1, <4>1, Zenon
    <3>2. CASE k # 0
      <4>1. more[1] = SEPARATOR <=> parts[1] = <<>>
        BY <1>3, <1>6, <3>2, Zenon DEF TextMeets
      <4>2. parts[1] = <<>> => n >= 2
        BY <1>3, <3>2, Zenon DEF TextMeets
      <4>3. n = 1 => ~(n >= 2)
        BY <1>2
      <4> QED
        BY <2>6, <2>7, <4>1, <4>2, <4>3, Zenon
    <3> QED
      BY <3>1, <3>2, Zenon
  <2> HIDE DEF more, found
  <2> QED
    BY <1>1, <2>3, <2>4, <2>8, <2>9, Zenon DEF TextMeets, more, found
<1> QED
  BY <1>8, <1>9, Zenon

\* What the components of a text say of it, for every text.
LEMMA ComponentsMeet ==
    ASSUME NEW S, NEW path \in Seq(S)
    PROVE  TextMeets(path, Components(path))
<1> DEFINE T == {t \in Seq(S) : TextMeets(t, Components(t))}
<1>1. <<>> \in T
  <2>1. Components(<<>>) = <<<<>>>>
    BY ComponentsNil
  <2>2. <<>> \in Seq(S)
    BY EmptySeq
  <2>3. NoneEmptyWithin(<<<<>>>>)
    <3>1. Len(<<<<>>>>) = 1
      OBVIOUS
    <3>2. 2 .. Len(<<<<>>>>) - 1 = {}
      BY <3>1
    <3> QED
      BY <3>2, Zenon DEF NoneEmptyWithin
  <2>4. TextMeets(<<>>, Components(<<>>))
    BY <2>1, <2>3, Zenon DEF TextMeets
  <2> QED
    BY <2>2, <2>4, Zenon
<1>2. ASSUME NEW s \in Seq(S), NEW e \in S, s \in T PROVE Append(s, e) \in T
  <2>1. TextMeets(s, Components(s)) /\ Components(s) \in Parts(S)
    BY <1>2, ComponentsType, Zenon
  <2>2. TextMeets(Append(s, e), Found(Components(s), e))
    BY <2>1, FoundMeets, Zenon
  <2>3. Components(Append(s, e)) = Found(Components(s), e)
    BY ComponentsAppend
  <2>4. Append(s, e) \in Seq(S)
    BY AppendProperties
  <2> QED
    BY <2>2, <2>3, <2>4, Zenon
<1> HIDE DEF T
<1>3. Seq(S) \subseteq T
  BY <1>1, <1>2, SequencesUpTo
<1> QED
  BY <1>3, Zenon DEF T

\* A path is absolute when it has a first component that is empty, and another.
LEMMA AbsoluteMeets ==
    ASSUME NEW S, NEW path \in Seq(S)
    PROVE  is_absolute(path) <=> Len(Components(path)) >= 2 /\ Components(path)[1] = <<>>
<1>1. TextMeets(path, Components(path))
  BY ComponentsMeet
<1>2. is_absolute(path) <=> path # <<>> /\ path[1] = SEPARATOR
  <2>1. path # <<>> => Head(path) = path[1]
    OBVIOUS
  <2> QED
    BY <2>1, Zenon DEF is_absolute
<1>3. path = <<>> => ~(Len(Components(path)) >= 2)
  <2>1. ~(Len(<<<<>>>>) >= 2)
    OBVIOUS
  <2> QED
    BY <1>1, <2>1, Zenon DEF TextMeets
<1> QED
  BY <1>1, <1>2, <1>3, Zenon DEF TextMeets

\* What a path has become: depth names that can be popped, behind a root or steps up.
Shape(q, depth) ==
    /\ depth \in 0 .. Len(q)
    /\ \A i \in Len(q) - depth + 1 .. Len(q) : q[i] \notin {<<>>, Dot, DotDot}
    /\ \A i \in 1 .. Len(q) - depth : q[i] \in {<<>>, DotDot}

\* The root stays at the front, and comes from nowhere else.
Rooted(q, depth, parts, k) ==
    /\ k = 0 => q = <<>> /\ depth = 0
    /\ parts[1] = <<>> /\ k # 0 => Len(q) - depth >= 1 /\ q[1] = <<>>
    /\ parts[1] # <<>> => \A i \in 1 .. Len(q) : q[i] # <<>>

\* After k turns the text done so far leads to where the first k components do.
Led(sofar, q, parts, k, S) ==
    /\ sofar \in Sofars(S) /\ q \in Seq(PathNames(S))
    /\ Components(sofar.result) = q \o <<<<>>>>
    /\ Shape(q, sofar.depth) /\ Rooted(q, sofar.depth, parts, k)
    /\ Walk(q) = Walk(SubSeq(parts, 1, k))

\* One more name behind others.
LEMMA MoreNames ==
    ASSUME NEW N, NEW q \in Seq(N), NEW c \in N
    PROVE  /\ Append(q, c) \in Seq(N) /\ Append(q, c) = q \o <<c>> /\ Len(q) \in Nat
           /\ Len(Append(q, c)) = Len(q) + 1 /\ Append(q, c)[Len(q) + 1] = c
           /\ \A i \in 1 .. Len(q) : Append(q, c)[i] = q[i]
<1>1. Append(q, c) = q \o <<c>>
  BY AppendIsConcat
<1> QED
  BY <1>1, AppendProperties, LenProperties

\* A name that can be popped again.
LEMMA ShapeName ==
    ASSUME NEW S, NEW q \in Seq(PathNames(S)), NEW d, Shape(q, d), NEW c \in PathNames(S),
           c \notin {<<>>, Dot, DotDot}
    PROVE  Shape(Append(q, c), d + 1)
<1> DEFINE n == Len(q)
           more == Append(q, c)
<1>1. /\ n \in Nat /\ Len(more) = n + 1 /\ more[n + 1] = c
      /\ \A i \in 1 .. n : more[i] = q[i]
  BY MoreNames
<1>2. d \in 0 .. n
  BY Zenon DEF Shape
<1>3. d \in Nat /\ d <= n
  BY <1>1, <1>2
<1> HIDE DEF more, n
<1>4. d + 1 \in 0 .. Len(more)
  BY <1>1, <1>3
<1>5. ASSUME NEW i \in Len(more) - (d + 1) + 1 .. Len(more)
      PROVE  more[i] \notin {<<>>, Dot, DotDot}
  <2>1. i = n + 1 \/ (i \in 1 .. n /\ i \in n - d + 1 .. n)
    BY <1>1, <1>3
  <2>2. i \in n - d + 1 .. n => q[i] \notin {<<>>, Dot, DotDot}
    BY Zenon DEF Shape, n
  <2> QED
    BY <1>1, <2>1, <2>2, Zenon
<1>6. ASSUME NEW i \in 1 .. Len(more) - (d + 1) PROVE more[i] \in {<<>>, DotDot}
  <2>1. i \in 1 .. n /\ i \in 1 .. n - d
    BY <1>1, <1>3
  <2>2. q[i] \in {<<>>, DotDot}
    BY <2>1, Zenon DEF Shape, n
  <2> QED
    BY <1>1, <2>1, <2>2, Zenon
<1> QED
  BY <1>4, <1>5, <1>6, Zenon DEF Shape, more

\* A step up, or the root, where no name can be popped.
LEMMA ShapeUp ==
    ASSUME NEW S, NEW q \in Seq(PathNames(S)), Shape(q, 0), NEW c \in PathNames(S), c \in {<<>>, DotDot}
    PROVE  Shape(Append(q, c), 0)
<1> DEFINE n == Len(q)
           more == Append(q, c)
<1>1. /\ n \in Nat /\ Len(more) = n + 1 /\ more[n + 1] = c
      /\ \A i \in 1 .. n : more[i] = q[i]
  BY MoreNames
<1> HIDE DEF more, n
<1>2. 0 \in 0 .. Len(more) /\ Len(more) - 0 + 1 .. Len(more) = {} /\ Len(more) - 0 = n + 1
  BY <1>1
<1>3. ASSUME NEW i \in 1 .. n + 1 PROVE more[i] \in {<<>>, DotDot}
  <2>1. i = n + 1 \/ (i \in 1 .. n /\ i \in 1 .. n - 0)
    BY <1>1
  <2>2. i \in 1 .. n - 0 => q[i] \in {<<>>, DotDot}
    BY Zenon DEF Shape, n
  <2> QED
    BY <1>1, <2>1, <2>2, Zenon
<1> QED
  BY <1>2, <1>3, Zenon DEF Shape, more

\* A name is popped.
LEMMA ShapePop ==
    ASSUME NEW S, NEW q \in Seq(PathNames(S)), NEW d, Shape(q, d), d > 0
    PROVE  /\ q # <<>> /\ Last(q) \notin {<<>>, Dot, DotDot} /\ Shape(Front(q), d - 1)
           /\ Front(q) \in Seq(PathNames(S)) /\ q = Append(Front(q), Last(q)) /\ Last(q) \in PathNames(S)
           /\ Len(Front(q)) - (d - 1) = Len(q) - d /\ Len(q) - d \in Nat
           /\ Len(Front(q)) \in Nat
           /\ \A i \in 1 .. Len(Front(q)) : Front(q)[i] = q[i] /\ i \in 1 .. Len(q)
<1> DEFINE n == Len(q)
<1>1. n \in Nat
  BY LenProperties
<1>2. d \in 0 .. n
  BY Zenon DEF Shape
<1>3. d \in 1 .. n /\ n \in 1 .. n /\ n \in n - d + 1 .. n
  BY <1>1, <1>2
<1>4. q # <<>>
  <2>1. n # 0
    BY <1>1, <1>3
  <2> QED
    BY <2>1, EmptySeq
<1> DEFINE left == Front(q)
<1>5. /\ Last(q) = q[n] /\ left \in Seq(PathNames(S)) /\ Len(left) = n - 1 /\ q = Append(left, Last(q))
      /\ Last(q) \in PathNames(S)
  BY <1>4, LastPart, Zenon
<1>6. q[n] \notin {<<>>, Dot, DotDot}
  BY <1>3, Zenon DEF Shape
<1>7. \A i \in 1 .. Len(left) : left[i] = q[i]
  <2>1. \A i \in 1 .. Len(left) : Append(left, Last(q))[i] = left[i]
    BY <1>5, MoreNames
  <2> QED
    BY <1>5, <2>1, Zenon
<1> HIDE DEF left, n
<1>8. /\ Len(left) - (d - 1) = n - d /\ n - d \in Nat /\ d - 1 \in 0 .. Len(left) /\ Len(left) \in Nat
      /\ \A i \in 1 .. Len(left) : i \in 1 .. n
  BY <1>1, <1>3, <1>5
<1>9. ASSUME NEW i \in Len(left) - (d - 1) + 1 .. Len(left)
      PROVE  left[i] \notin {<<>>, Dot, DotDot}
  <2>1. i \in 1 .. Len(left) /\ i \in n - d + 1 .. n
    BY <1>1, <1>3, <1>5
  <2>2. q[i] \notin {<<>>, Dot, DotDot}
    BY <2>1, Zenon DEF Shape, n
  <2> QED
    BY <1>7, <2>1, <2>2, Zenon
<1>10. ASSUME NEW i \in 1 .. Len(left) - (d - 1) PROVE left[i] \in {<<>>, DotDot}
  <2>1. i \in 1 .. Len(left) /\ i \in 1 .. n - d
    BY <1>1, <1>3, <1>5
  <2>2. q[i] \in {<<>>, DotDot}
    BY <2>1, Zenon DEF Shape, n
  <2> QED
    BY <1>7, <2>1, <2>2, Zenon
<1>11. Shape(left, d - 1)
  BY <1>8, <1>9, <1>10, Zenon DEF Shape
<1> QED
  BY <1>4, <1>5, <1>6, <1>7, <1>8, <1>11, Zenon DEF left, n

\* Where one more of the components leads.
LEMMA WalkStretch ==
    ASSUME NEW S, NEW parts \in Seq(PathNames(S)), NEW k \in 0 .. Len(parts) - 1
    PROVE  /\ Walk(SubSeq(parts, 1, k + 1)) = Go(Walk(SubSeq(parts, 1, k)), parts[k + 1])
           /\ Walk(SubSeq(parts, 1, k)) \in Spots(S)
           /\ parts[k + 1] \in PathNames(S)
<1>1. Len(parts) \in Nat
  BY LenProperties
<1>2. k + 1 \in 1 .. Len(parts) /\ (k + 1) - 1 = k /\ k \in Int /\ 1 \in Int
  BY <1>1
<1>3. parts[k + 1] \in PathNames(S)
  BY <1>2, ElementOfSeq
<1>4. SubSeq(parts, 1, k) \in Seq(PathNames(S))
  <2>1. \A i \in 1 .. k : parts[i] \in PathNames(S)
    <3> SUFFICES ASSUME NEW i \in 1 .. k PROVE parts[i] \in PathNames(S)
      OBVIOUS
    <3>1. i \in 1 .. Len(parts)
      BY <1>1
    <3> QED
      BY <3>1, ElementOfSeq
  <2> QED
    BY <1>2, <2>1, SubSeqProperties
<1>5. SubSeq(parts, 1, k + 1) = SubSeq(parts, 1, k) \o <<parts[k + 1]>>
  <2>1. 1 \in 1 .. Len(parts) /\ k + 1 \in 1 .. Len(parts)
    BY <1>1, <1>2
  <2>2. SubSeq(parts, 1, k + 1) = SubSeq(parts, 1, (k + 1) - 1) \o <<parts[k + 1]>>
    BY <2>1, SubSeqRecursiveSecond
  <2> QED
    BY <1>2, <2>2, Zenon
<1>6. Append(SubSeq(parts, 1, k), parts[k + 1]) = SubSeq(parts, 1, k) \o <<parts[k + 1]>>
  BY <1>3, <1>4, MoreNames
<1> QED
  BY <1>3, <1>4, <1>5, <1>6, WalkAppend, WalkType, Zenon

\* A dot leads nowhere.
LEMMA DotLeads ==
    ASSUME NEW S, SEPARATOR \in S, NEW parts \in Seq(PathNames(S)), NEW k \in 0 .. Len(parts) - 1,
           NEW sofar, NEW q, Led(sofar, q, parts, k, S), parts[k + 1] = Dot
    PROVE  /\ Led(sofar, q, parts, k + 1, S)
           /\ k = 0 => parts[1] # <<>>
<1>1. /\ sofar \in Sofars(S) /\ q \in Seq(PathNames(S))
      /\ Components(sofar.result) = q \o <<<<>>>>
      /\ Shape(q, sofar.depth) /\ Rooted(q, sofar.depth, parts, k)
      /\ Walk(q) = Walk(SubSeq(parts, 1, k))
  BY Zenon DEF Led
<1>2. Walk(q) = Walk(SubSeq(parts, 1, k + 1))
  <2>1. /\ Walk(SubSeq(parts, 1, k + 1)) = Go(Walk(SubSeq(parts, 1, k)), Dot)
        /\ Walk(SubSeq(parts, 1, k)) \in Spots(S) /\ Dot \in PathNames(S)
    BY WalkStretch, Zenon
  <2>2. Go(Walk(SubSeq(parts, 1, k)), Dot) = Walk(SubSeq(parts, 1, k))
    BY <2>1, GoFacts, Zenon
  <2> QED
    BY <1>1, <2>1, <2>2, Zenon
<1>3. k + 1 # 0 /\ (k = 0 => k + 1 = 1)
  BY LenProperties
<1>4. k = 0 => parts[1] # <<>>
  BY <1>3, DotsDiffer, Zenon
<1>5. Rooted(q, sofar.depth, parts, k + 1)
  BY <1>1, <1>3, <1>4, Zenon DEF Rooted
<1> QED
  BY <1>1, <1>2, <1>4, <1>5, Zenon DEF Led

\* Two dots pop a name.
LEMMA UpLeads ==
    ASSUME NEW S, SEPARATOR \in S, NEW parts \in Seq(PathNames(S)), NEW k \in 0 .. Len(parts) - 1,
           NEW sofar, NEW q, Led(sofar, q, parts, k, S), IsStepUp(sofar, parts[k + 1])
    PROVE  /\ Led([result |-> Popped(sofar.result), depth |-> sofar.depth - 1], Front(q), parts, k + 1, S)
           /\ k # 0
<1> DEFINE d == sofar.depth
           left == Front(q)
           after == [result |-> Popped(sofar.result), depth |-> d - 1]
<1>1. /\ sofar \in Sofars(S) /\ q \in Seq(PathNames(S))
      /\ Components(sofar.result) = q \o <<<<>>>>
      /\ Shape(q, d) /\ Rooted(q, d, parts, k)
      /\ Walk(q) = Walk(SubSeq(parts, 1, k))
  BY Zenon DEF Led
<1>2. parts[k + 1] = DotDot /\ d > 0
  BY Zenon DEF IsStepUp
<1>3. sofar.result \in Seq(S) /\ d \in Nat
  BY <1>1 DEF Sofars
<1>4. k # 0
  <2>1. d # 0
    BY <1>2, <1>3
  <2> QED
    BY <1>1, <2>1, Zenon DEF Rooted
<1>5. /\ q # <<>> /\ Last(q) \notin {<<>>, Dot, DotDot} /\ Shape(left, d - 1)
      /\ left \in Seq(PathNames(S)) /\ q = Append(left, Last(q)) /\ Last(q) \in PathNames(S)
      /\ Len(left) - (d - 1) = Len(q) - d /\ Len(q) - d \in Nat /\ Len(left) \in Nat
      /\ \A i \in 1 .. Len(left) : left[i] = q[i] /\ i \in 1 .. Len(q)
  BY <1>1, <1>2, ShapePop
<1>6. Popped(sofar.result) \in Seq(S) /\ Components(Popped(sofar.result)) = left \o <<<<>>>>
  <2>1. q \in Parts(S)
    BY <1>1, <1>5 DEF Parts
  <2>2. q # <<<<>>>>
    <3>1. Last(<<<<>>>>) = <<>>
      BY DEF Last
    <3> QED
      BY <1>5, <3>1, Zenon
  <2> QED
    BY <1>1, <1>3, <2>1, <2>2, PopPart, Zenon
<1>7. Walk(left) = Walk(SubSeq(parts, 1, k + 1))
  <2>1. /\ Walk(SubSeq(parts, 1, k + 1)) = Go(Walk(q), DotDot)
    BY <1>1, <1>2, WalkStretch, Zenon
  <2>2. Walk(q) = Go(Walk(left), Last(q)) /\ Walk(left) \in Spots(S)
    BY <1>5, WalkAppend, WalkType, Zenon
  <2>3. Go(Go(Walk(left), Last(q)), DotDot) = Walk(left)
    BY <1>5, <2>2, GoFacts, Zenon
  <2> QED
    BY <2>1, <2>2, <2>3, Zenon
<1>8. Rooted(left, d - 1, parts, k + 1)
  <2>1. k + 1 # 0
    BY LenProperties
  <2>2. ASSUME parts[1] = <<>> PROVE Len(left) - (d - 1) >= 1 /\ left[1] = <<>>
    <3>1. Len(q) - d >= 1 /\ q[1] = <<>>
      BY <1>1, <1>4, <2>2, Zenon DEF Rooted
    <3>2. Len(left) - (d - 1) >= 1
      BY <1>5, <3>1, Zenon
    <3>3. 1 \in 1 .. Len(left)
      <4> HIDE DEF left, d
      <4> QED
        BY <1>2, <1>3, <1>5, <3>2
    <3> QED
      BY <1>5, <3>1, <3>2, <3>3, Zenon
  <2>3. ASSUME parts[1] # <<>> PROVE \A i \in 1 .. Len(left) : left[i] # <<>>
    BY <1>1, <1>5, <2>3, Zenon DEF Rooted
  <2> QED
    BY <2>1, <2>2, <2>3, Zenon DEF Rooted
<1>9. after \in Sofars(S) /\ after.result = Popped(sofar.result) /\ after.depth = d - 1
  <2>1. d - 1 \in Nat
    BY <1>2, <1>3
  <2> HIDE DEF d
  <2> QED
    BY <1>6, <2>1 DEF Sofars
<1> HIDE DEF after, left, d
<1>10. Led(after, left, parts, k + 1, S)
  BY <1>5, <1>6, <1>7, <1>8, <1>9, Zenon DEF Led
<1> QED
  BY <1>4, <1>10, Zenon DEF after, left, d

\* The components of what has been done, with one more pushed.
LEMMA PushedComponents ==
    ASSUME NEW S, SEPARATOR \in S, NEW result \in Seq(S), NEW q \in Seq(PathNames(S)), NEW c \in PathNames(S),
           Components(result) = q \o <<<<>>>>
    PROVE  /\ Components(Pushed(result, c, FALSE)) = q \o <<c>>
           /\ Components(Pushed(result, c, TRUE)) = Append(q, c) \o <<<<>>>>
<1>1. <<>> \in PathNames(S)
  BY EmptySeq DEF PathNames
<1>2. Front(q \o <<<<>>>>) = q /\ Last(q \o <<<<>>>>) = <<>>
  BY <1>1, FrontOfJoined
<1>3. c \in Seq(S)
  BY NameIsText
<1>4. Components(result \o c) = q \o Components(c)
  <2>1. Last(Components(result)) = <<>> /\ Front(Components(result)) = q
    BY <1>2, Zenon
  <2>2. Components(result \o c) = Front(Components(result)) \o Components(c)
    BY <1>3, <2>1, ComponentsBehind
  <2> QED
    BY <2>1, <2>2, Zenon
<1>5. Components(c) = <<c>>
  BY ComponentsOfName
<1>6. Components(result \o c) = Append(q, c)
  BY <1>4, <1>5, MoreNames
<1>7. /\ Pushed(result, c, FALSE) = result \o c /\ result \o c \in Seq(S)
      /\ Pushed(result, c, TRUE) = (result \o c) \o <<SEPARATOR>>
  BY PushedFacts, Zenon
<1>8. Components((result \o c) \o <<SEPARATOR>>) = Components(result \o c) \o <<<<>>>>
  BY <1>7, ComponentsCut
<1> QED
  BY <1>4, <1>5, <1>6, <1>7, <1>8, Zenon

\* A component that is pushed leads where it leads.
LEMMA PushLeads ==
    ASSUME NEW S, SEPARATOR \in S, NEW parts \in Seq(PathNames(S)), NEW k \in 0 .. Len(parts) - 1,
           NEW sofar, NEW q, Led(sofar, q, parts, k, S),
           parts[k + 1] # Dot, ~IsStepUp(sofar, parts[k + 1]), NoneEmptyWithin(parts), k + 1 < Len(parts)
    PROVE  Led(Onward(sofar, parts, k + 1), Append(q, parts[k + 1]), parts, k + 1, S)
<1> DEFINE d == sofar.depth
           c == parts[k + 1]
           more == Append(q, c)
           e == d + IF c \in {<<>>, DotDot} THEN 0 ELSE 1
           after == Onward(sofar, parts, k + 1)
<1>1. /\ sofar \in Sofars(S) /\ q \in Seq(PathNames(S))
      /\ Components(sofar.result) = q \o <<<<>>>>
      /\ Shape(q, d) /\ Rooted(q, d, parts, k)
      /\ Walk(q) = Walk(SubSeq(parts, 1, k))
  BY Zenon DEF Led
<1>2. sofar.result \in Seq(S) /\ d \in Nat
  BY <1>1 DEF Sofars
<1>3. /\ c \in PathNames(S) /\ Walk(SubSeq(parts, 1, k)) \in Spots(S)
      /\ Walk(SubSeq(parts, 1, k + 1)) = Go(Walk(SubSeq(parts, 1, k)), c)
  BY WalkStretch, Zenon
<1>4. /\ more \in Seq(PathNames(S)) /\ Len(q) \in Nat
      /\ Len(more) = Len(q) + 1 /\ more[Len(q) + 1] = c
      /\ \A i \in 1 .. Len(q) : more[i] = q[i]
  BY <1>1, <1>3, MoreNames
<1>5. k \in Nat /\ Len(parts) \in Nat /\ k + 1 # 0 /\ (k = 0 => k + 1 = 1)
  BY LenProperties
<1>6. c = <<>> => k = 0
  <2> SUFFICES ASSUME c = <<>>, k # 0 PROVE FALSE
    OBVIOUS
  <2>1. k + 1 \in 2 .. Len(parts) - 1
    BY <1>5
  <2> QED
    BY <2>1, Zenon DEF NoneEmptyWithin
<1>7. c \in {<<>>, DotDot} => d = 0
  <2>1. c = <<>> => d = 0
    BY <1>1, <1>6, Zenon DEF Rooted
  <2>2. c = DotDot => ~(d > 0)
    BY Zenon DEF IsStepUp
  <2>3. ~(d > 0) => d = 0
    BY <1>2
  <2> QED
    BY <2>1, <2>2, <2>3, Zenon
<1>8. Components(Pushed(sofar.result, c, TRUE)) = more \o <<<<>>>> /\ Pushed(sofar.result, c, TRUE) \in Seq(S)
  BY <1>1, <1>2, <1>3, PushedComponents, PushedFacts, Zenon
<1>9. after.result = Pushed(sofar.result, c, TRUE) /\ after.depth = e /\ after \in Sofars(S)
  <2>1. (k + 1 < Len(parts)) = TRUE
    OBVIOUS
  <2> DEFINE r == Pushed(sofar.result, c, TRUE)
  <2>2. after = [result |-> r, depth |-> e]
    BY <2>1, Zenon DEF Onward
  <2>3. e \in Nat
    BY <1>2
  <2>4. r \in Seq(S)
    BY <1>8
  <2> HIDE DEF r, e, after
  <2>5. after.result = r /\ after.depth = e /\ after \in Sofars(S)
    BY <2>2, <2>3, <2>4 DEF Sofars
  <2> QED
    BY <2>5, Zenon DEF r
<1>10. Walk(more) = Walk(SubSeq(parts, 1, k + 1))
  BY <1>1, <1>3, WalkAppend, Zenon
<1> HIDE DEF after
<1>11. c \in {<<>>, DotDot} => e = 0 /\ e = d
  <2>1. c \in {<<>>, DotDot} => e = d + 0
    BY Zenon
  <2>2. d = 0 => d + 0 = 0
    OBVIOUS
  <2> HIDE DEF e, c
  <2> QED
    BY <1>7, <2>1, <2>2, Zenon
<1>12. c \notin {<<>>, DotDot} => e = d + 1
  BY Zenon
<1> HIDE DEF e, more, c, d
<1>13. Shape(more, e)
  <2>1. CASE c \in {<<>>, DotDot}
    BY <1>1, <1>3, <1>11, <2>1, ShapeUp, Zenon DEF more
  <2>2. CASE c \notin {<<>>, DotDot}
    <3>1. c \notin {<<>>, Dot, DotDot}
      BY <2>2, Zenon DEF c
    <3>2. Shape(Append(q, c), d + 1)
      BY <1>1, <1>3, <3>1, ShapeName, Zenon
    <3> QED
      BY <1>12, <2>2, <3>2, Zenon DEF more
  <2> QED
    BY <2>1, <2>2, Zenon
<1>14. Rooted(more, e, parts, k + 1)
  <2>1. k = 0 => c = parts[1]
    BY <1>5, Zenon DEF c
  <2>2. k = 0 => Len(q) = 0 /\ d = 0
    <3>1. k = 0 => q = <<>> /\ d = 0
      BY <1>1, Zenon DEF Rooted
    <3>2. Len(<<>>) = 0
      OBVIOUS
    <3> QED
      BY <3>1, <3>2, Zenon
  <2>3. ASSUME parts[1] = <<>> PROVE Len(more) - e >= 1 /\ more[1] = <<>>
    <3>1. CASE k = 0
      <4>1. c = <<>> /\ e = 0
        BY <1>11, <2>1, <2>3, <3>1, Zenon
      <4>2. Len(q) + 1 = 1 /\ Len(more) - e >= 1
        BY <1>4, <2>2, <3>1, <4>1
      <4> QED
        BY <1>4, <4>1, <4>2, Zenon
    <3>2. CASE k # 0
      <4>1. Len(q) - d >= 1 /\ q[1] = <<>>
        BY <1>1, <2>3, <3>2, Zenon DEF Rooted
      <4>2. e = d \/ e = d + 1
        BY <1>11, <1>12, Zenon
      <4>3. Len(more) - e >= 1 /\ 1 \in 1 .. Len(q)
        BY <1>2, <1>4, <4>1, <4>2 DEF d
      <4> QED
        BY <1>4, <4>1, <4>3, Zenon
    <3> QED
      BY <3>1, <3>2, Zenon
  <2>4. ASSUME parts[1] # <<>>, NEW i \in 1 .. Len(more) PROVE more[i] # <<>>
    <3>1. i \in 1 .. Len(q) \/ i = Len(q) + 1
      BY <1>4
    <3>2. c # <<>>
      BY <1>6, <2>1, <2>4, Zenon DEF c
    <3>3. i \in 1 .. Len(q) => q[i] # <<>>
      BY <1>1, <2>4, Zenon DEF Rooted
    <3> QED
      BY <1>4, <3>1, <3>2, <3>3, Zenon
  <2> QED
    BY <1>5, <2>3, <2>4, Zenon DEF Rooted
<1>15. Led(after, more, parts, k + 1, S)
  BY <1>4, <1>8, <1>9, <1>10, <1>13, <1>14, Zenon DEF Led
<1> QED
  BY <1>15, Zenon DEF after, more, c

\* No turns lead nowhere.
LEMMA StartLeads ==
    ASSUME NEW S, NEW parts
    PROVE  Led(Start, <<>>, parts, 0, S)
<1>1. <<>> \in Seq(S) /\ <<>> \in Seq(PathNames(S)) /\ Len(<<>>) = 0 /\ 0 \in Nat
  BY EmptySeq
<1>2. Start \in Sofars(S) /\ Start.result = <<>> /\ Start.depth = 0
  BY <1>1 DEF Start, Sofars
<1>3. Components(<<>>) = <<>> \o <<<<>>>>
  <2>1. <<>> \o <<<<>>>> = <<<<>>>>
    OBVIOUS
  <2> QED
    BY <2>1, ComponentsNil, Zenon
<1>4. Shape(<<>>, 0)
  <2>1. 0 \in 0 .. Len(<<>>) /\ Len(<<>>) - 0 + 1 .. Len(<<>>) = {} /\ 1 .. Len(<<>>) - 0 = {}
    BY <1>1
  <2> QED
    BY <2>1, Zenon DEF Shape
<1>5. Rooted(<<>>, 0, parts, 0)
  <2>1. 1 .. Len(<<>>) = {}
    BY <1>1
  <2> QED
    BY <2>1, Zenon DEF Rooted
<1>6. SubSeq(parts, 1, 0) = <<>>
  BY SubSeqEmpty
<1> QED
  BY <1>1, <1>2, <1>3, <1>4, <1>5, <1>6, Zenon DEF Led

\* Every turn but the last leaves a text that leads where the components do so far.
LEMMA TurnsLead ==
    ASSUME NEW S, SEPARATOR \in S, NEW parts \in Seq(PathNames(S)), parts # <<>>, NoneEmptyWithin(parts),
           NEW f, f[0] = Start,
           \A k \in 0 .. Len(parts) - 1 : f[k + 1] = Turn(f[k], parts, k + 1)
    PROVE  \E q : Led(f[Len(parts) - 1], q, parts, Len(parts) - 1, S)
<1> DEFINE n == Len(parts)
           T == {k \in 0 .. n - 1 : \E q : Led(f[k], q, parts, k, S)}
<1>1. n \in Nat \ {0}
  BY EmptySeq
<1>2. 0 \in T
  <2>1. 0 \in 0 .. n - 1
    BY <1>1
  <2>2. Led(f[0], <<>>, parts, 0, S)
    BY StartLeads, Zenon
  <2> QED
    BY <2>1, <2>2, Zenon
<1>3. ASSUME NEW k \in 0 .. (n - 1) - 1, k \in T PROVE k + 1 \in T
  <2>1. k \in 0 .. Len(parts) - 1 /\ k + 1 \in 0 .. n - 1 /\ k + 1 < Len(parts)
    BY <1>1
  <2>2. PICK q : Led(f[k], q, parts, k, S)
    BY <1>3, Zenon
  <2>3. f[k + 1] = Turn(f[k], parts, k + 1)
    BY <2>1
  <2> HIDE DEF T, n
  <2>4. CASE parts[k + 1] = Dot
    <3>1. Led(f[k], q, parts, k + 1, S)
      BY <2>1, <2>2, <2>4, DotLeads, Zenon
    <3>2. Turn(f[k], parts, k + 1) = f[k]
      BY <2>4, TurnFacts
    <3>3. f[k + 1] = f[k]
      BY <2>3, <3>2, Zenon
    <3> QED
      BY <2>1, <3>1, <3>3, Zenon DEF T
  <2>5. CASE IsStepUp(f[k], parts[k + 1])
    <3> DEFINE after == [result |-> Popped(f[k].result), depth |-> f[k].depth - 1]
    <3>1. Led(after, Front(q), parts, k + 1, S)
      BY <2>1, <2>2, <2>5, UpLeads, Zenon
    <3>2. Turn(f[k], parts, k + 1) = after
      BY <2>5, TurnFacts
    <3>3. f[k + 1] = after
      BY <2>3, <3>2, Zenon
    <3> QED
      BY <2>1, <3>1, <3>3, Zenon DEF T
  <2>6. CASE parts[k + 1] # Dot /\ ~IsStepUp(f[k], parts[k + 1])
    <3>1. Led(Onward(f[k], parts, k + 1), Append(q, parts[k + 1]), parts, k + 1, S)
      BY <2>1, <2>2, <2>6, PushLeads, Zenon
    <3>2. Turn(f[k], parts, k + 1) = Onward(f[k], parts, k + 1)
      BY <2>6, TurnFacts
    <3>3. f[k + 1] = Onward(f[k], parts, k + 1)
      BY <2>3, <3>2, Zenon
    <3> QED
      BY <2>1, <3>1, <3>3, Zenon DEF T
  <2> QED
    BY <2>4, <2>5, <2>6, Zenon
<1>4. n - 1 \in Nat /\ n - 1 \in 0 .. n - 1
  BY <1>1
<1> HIDE DEF T, n
<1>5. 0 .. n - 1 \subseteq T
  BY <1>2, <1>3, <1>4, UpTo
<1> QED
  BY <1>4, <1>5, Zenon DEF T, n

\* What the components of the simplified path are: those that are kept, and a last one.
LeadsTo(found, q, y, depth, parts, m, S) ==
    /\ q \in Seq(PathNames(S)) /\ y \in PathNames(S) /\ found = Append(q, y)
    /\ Shape(q, depth) /\ Rooted(q, depth, parts, m)
    /\ y # Dot /\ (y = DotDot => depth = 0)
    /\ Walk(Append(q, y)) = Walk(parts)
    /\ Len(parts) = 1 /\ parts[1] = <<>> => m = 0
    /\ Len(parts) >= 2 => m # 0

\* A text that is done, and ends with a separator, has an empty last component.
LEMMA DoneEnds ==
    ASSUME NEW S, NEW parts \in Seq(PathNames(S)), parts # <<>>, NEW sofar, NEW q,
           Led(sofar, q, parts, Len(parts), S), Len(parts) = 1 => parts[1] # <<>>
    PROVE  LeadsTo(Components(sofar.result), q, <<>>, sofar.depth, parts, Len(parts), S)
<1>1. <<>> \in PathNames(S)
  BY EmptySeq DEF PathNames
<1>2. /\ q \in Seq(PathNames(S)) /\ Components(sofar.result) = q \o <<<<>>>>
      /\ Shape(q, sofar.depth) /\ Rooted(q, sofar.depth, parts, Len(parts))
      /\ Walk(q) = Walk(SubSeq(parts, 1, Len(parts)))
  BY Zenon DEF Led
<1>3. Append(q, <<>>) = q \o <<<<>>>>
  BY <1>1, <1>2, MoreNames
<1>4. Walk(Append(q, <<>>)) = Go(Walk(q), <<>>) /\ Walk(q) \in Spots(S)
  BY <1>1, <1>2, WalkAppend, WalkType, Zenon
<1>5. Go(Walk(q), <<>>) = Walk(q)
  BY <1>1, <1>4, GoFacts, Zenon
<1>6. SubSeq(parts, 1, Len(parts)) = parts
  BY SubSeqFull
<1>7. Len(parts) # 0
  BY EmptySeq
<1> QED
  BY <1>1, <1>2, <1>3, <1>4, <1>5, <1>6, <1>7, DotsDiffer, Zenon DEF LeadsTo

\* What the components of a simplified path are.
LEMMA SimplifiedEnds ==
    ASSUME NEW S, SEPARATOR \in S, NEW parts \in Seq(PathNames(S)), parts # <<>>, NoneEmptyWithin(parts)
    PROVE  \E q, y, d, m : LeadsTo(Components(Simplified(parts).result), q, y, d, parts, m, S)
<1> DEFINE n == Len(parts)
           k == n - 1
<1>1. PICK f \in [0 .. Len(parts) -> Sofars(S)] :
         /\ f[0] = Start /\ f[Len(parts)] = Simplified(parts)
         /\ \A j \in 0 .. Len(parts) - 1 : f[j + 1] = Turn(f[j], parts, j + 1)
  BY TurnFold
<1>2. PICK q : Led(f[k], q, parts, k, S)
  BY <1>1, TurnsLead, Zenon
<1>3. n \in Nat \ {0}
  BY EmptySeq
<1>4. /\ k \in 0 .. Len(parts) - 1 /\ k + 1 = n /\ (n = 1 <=> k = 0) /\ (n >= 2 => k # 0)
      /\ (k + 1 < Len(parts)) = FALSE
  BY <1>3
<1> HIDE DEF k, n
<1>5. Simplified(parts) = Turn(f[k], parts, k + 1)
  BY <1>1, <1>4, Zenon DEF n
<1>6. CASE parts[k + 1] = Dot
  <2>1. Led(f[k], q, parts, n, S) /\ (k = 0 => parts[1] # <<>>)
    BY <1>2, <1>4, <1>6, DotLeads, Zenon
  <2>2. Simplified(parts) = f[k]
    BY <1>5, <1>6, TurnFacts, Zenon
  <2>3. LeadsTo(Components(f[k].result), q, <<>>, f[k].depth, parts, Len(parts), S)
    BY <1>4, <2>1, DoneEnds, Zenon DEF n
  <2> QED
    BY <2>2, <2>3, Zenon
<1>7. CASE IsStepUp(f[k], parts[k + 1])
  <2> DEFINE after == [result |-> Popped(f[k].result), depth |-> f[k].depth - 1]
  <2>1. Led(after, Front(q), parts, k + 1, S) /\ k # 0
    BY <1>2, <1>4, <1>7, UpLeads, Zenon
  <2>2. Simplified(parts) = after
    BY <1>5, <1>7, TurnFacts, Zenon
  <2> HIDE DEF after
  <2>3. LeadsTo(Components(after.result), Front(q), <<>>, after.depth, parts, Len(parts), S)
    BY <1>4, <2>1, DoneEnds, Zenon DEF n
  <2> QED
    BY <2>2, <2>3, Zenon
<1>8. CASE parts[k + 1] # Dot /\ ~IsStepUp(f[k], parts[k + 1])
  <2> DEFINE c == parts[k + 1]
             d == f[k].depth
  <2>1. /\ f[k] \in Sofars(S) /\ q \in Seq(PathNames(S))
        /\ Components(f[k].result) = q \o <<<<>>>>
        /\ Shape(q, d) /\ Rooted(q, d, parts, k)
        /\ Walk(q) = Walk(SubSeq(parts, 1, k))
    BY <1>2, Zenon DEF Led
  <2>2. f[k].result \in Seq(S) /\ d \in Nat
    BY <2>1 DEF Sofars
  <2>3. /\ c \in PathNames(S)
        /\ Walk(SubSeq(parts, 1, k + 1)) = Go(Walk(SubSeq(parts, 1, k)), c)
    BY <1>4, WalkStretch, Zenon
  <2>4. Simplified(parts).result = Pushed(f[k].result, c, FALSE)
    <3> DEFINE r == Pushed(f[k].result, c, FALSE)
               e == f[k].depth + IF c \in {<<>>, DotDot} THEN 0 ELSE 1
    <3>1. Simplified(parts) = Onward(f[k], parts, k + 1)
      BY <1>5, <1>8, TurnFacts, ZenonT(60)
    <3>2. Onward(f[k], parts, k + 1) = [result |-> r, depth |-> e]
      BY <1>4, Zenon DEF Onward
    <3> HIDE DEF r, e
    <3>3. Simplified(parts).result = r
      BY <3>1, <3>2
    <3> QED
      BY <3>3, Zenon DEF r
  <2>5. Components(Pushed(f[k].result, c, FALSE)) = q \o <<c>>
    BY <2>1, <2>2, <2>3, PushedComponents, Zenon
  <2>6. Append(q, c) = q \o <<c>>
    BY <2>1, <2>3, MoreNames
  <2>7. Walk(Append(q, c)) = Walk(parts)
    <3>1. SubSeq(parts, 1, Len(parts)) = parts
      BY SubSeqFull
    <3>2. Walk(Append(q, c)) = Go(Walk(q), c)
      BY <2>1, <2>3, WalkAppend, Zenon
    <3> QED
      BY <1>4, <2>1, <2>3, <3>1, <3>2, Zenon DEF n
  <2>8. c = DotDot => d = 0
    <3>1. c = DotDot => ~(d > 0)
      BY <1>8, Zenon DEF IsStepUp
    <3>2. ~(d > 0) => d = 0
      BY <2>2
    <3> QED
      BY <3>1, <3>2, Zenon
  <2>9. LeadsTo(Components(Simplified(parts).result), q, c, d, parts, k, S)
    BY <1>4, <1>8, <2>1, <2>3, <2>4, <2>5, <2>6, <2>7, <2>8, Zenon DEF LeadsTo, n
  <2> QED
    BY <2>9, Zenon
<1> QED
  BY <1>6, <1>7, <1>8, Zenon

\* The parts of a simplified path.
LEMMA EndsMeet ==
    ASSUME NEW S, NEW parts \in Seq(PathNames(S)), parts # <<>>,
           NEW found, NEW q, NEW y, NEW d, NEW m, LeadsTo(found, q, y, d, parts, m, S)
    PROVE  /\ (Len(found) >= 2 /\ found[1] = <<>>) <=> (Len(parts) >= 2 /\ parts[1] = <<>>)
           /\ \A i \in DOMAIN found :
                 /\ found[i] # Dot
                 /\ found[i] = DotDot => \A j \in 1 .. i - 1 : found[j] \in {<<>>, DotDot}
           /\ Walk(found) = Walk(parts)
<1> DEFINE n == Len(q)
<1>1. /\ q \in Seq(PathNames(S)) /\ y \in PathNames(S) /\ found = Append(q, y)
      /\ Shape(q, d) /\ Rooted(q, d, parts, m)
      /\ y # Dot /\ (y = DotDot => d = 0)
      /\ Walk(Append(q, y)) = Walk(parts)
      /\ Len(parts) = 1 /\ parts[1] = <<>> => m = 0
      /\ Len(parts) >= 2 => m # 0
  BY Zenon DEF LeadsTo
<1>2. /\ found \in Seq(PathNames(S)) /\ n \in Nat /\ Len(found) = n + 1 /\ found[n + 1] = y
      /\ \A i \in 1 .. n : found[i] = q[i]
  <2> HIDE DEF n
  <2>1. /\ Append(q, y) \in Seq(PathNames(S)) /\ Len(q) \in Nat
        /\ Len(Append(q, y)) = Len(q) + 1 /\ Append(q, y)[Len(q) + 1] = y
        /\ \A i \in 1 .. Len(q) : Append(q, y)[i] = q[i]
    BY <1>1, MoreNames
  <2> QED
    BY <1>1, <2>1, Zenon DEF n
<1>3. DOMAIN found = 1 .. n + 1
  BY <1>2, LenProperties
<1>4. Len(parts) \in Nat \ {0}
  BY EmptySeq
<1>5. Len(parts) = 1 \/ Len(parts) >= 2
  <2> DEFINE p == Len(parts)
  <2>1. p \in Nat \ {0}
    BY <1>4
  <2> HIDE DEF p
  <2>2. p = 1 \/ p >= 2
    BY <2>1
  <2> QED
    BY <2>2 DEF p
<1>6. d \in 0 .. n
  BY <1>1, Zenon DEF Shape
<1> HIDE DEF n
<1>7. d \in Nat /\ d <= n
  BY <1>2, <1>6
<1>8. ASSUME Len(parts) >= 2, parts[1] = <<>> PROVE Len(found) >= 2 /\ found[1] = <<>>
  <2>1. n - d >= 1 /\ q[1] = <<>>
    BY <1>1, <1>8, Zenon DEF Rooted, n
  <2>2. 1 \in 1 .. n /\ Len(found) >= 2
    BY <1>2, <1>7, <2>1
  <2> QED
    BY <1>2, <2>1, <2>2, Zenon
<1>9. ASSUME Len(found) >= 2, found[1] = <<>> PROVE Len(parts) >= 2 /\ parts[1] = <<>>
  <2>1. 1 \in 1 .. n /\ n # 0
    BY <1>2, <1>9
  <2>2. q[1] = <<>>
    BY <1>2, <1>9, <2>1, Zenon
  <2>3. parts[1] = <<>>
    BY <1>1, <2>1, <2>2, Zenon DEF Rooted, n
  <2>4. m # 0
    <3>1. Len(<<>>) = 0
      OBVIOUS
    <3> QED
      BY <1>1, <2>1, <3>1, Zenon DEF Rooted, n
  <2> QED
    BY <1>1, <1>5, <2>3, <2>4, Zenon
<1>10. ASSUME NEW i \in DOMAIN found
       PROVE  /\ found[i] # Dot
              /\ found[i] = DotDot => \A j \in 1 .. i - 1 : found[j] \in {<<>>, DotDot}
  <2>1. i \in 1 .. n + 1
    BY <1>3
  <2>2. CASE i = n + 1
    <3>1. found[i] = y
      BY <1>2, <2>2, Zenon
    <3>2. ASSUME y = DotDot, NEW j \in 1 .. i - 1 PROVE found[j] \in {<<>>, DotDot}
      <4>1. d = 0
        BY <1>1, <3>2, Zenon
      <4>2. j \in 1 .. n /\ j \in 1 .. n - d
        BY <1>2, <2>2, <4>1
      <4>3. q[j] \in {<<>>, DotDot}
        BY <1>1, <4>2, Zenon DEF Shape, n
      <4> QED
        BY <1>2, <4>2, <4>3, Zenon
    <3> QED
      BY <1>1, <3>1, <3>2, Zenon
  <2>3. CASE i # n + 1
    <3>1. i \in 1 .. n /\ (i \in n - d + 1 .. n \/ i \in 1 .. n - d)
      BY <1>2, <1>7, <2>1, <2>3
    <3>2. found[i] = q[i]
      BY <1>2, <3>1, Zenon
    <3>3. CASE i \in n - d + 1 .. n
      BY <1>1, <3>2, <3>3, Zenon DEF Shape, n
    <3>4. CASE i \in 1 .. n - d
      <4>1. found[i] # Dot
        BY <1>1, <3>2, <3>4, DotsDiffer, Zenon DEF Shape, n
      <4>2. ASSUME NEW j \in 1 .. i - 1 PROVE found[j] \in {<<>>, DotDot}
        <5>1. j \in 1 .. n /\ j \in 1 .. n - d
          BY <1>2, <1>7, <3>4
        <5>2. q[j] \in {<<>>, DotDot}
          BY <1>1, <5>1, Zenon DEF Shape, n
        <5> QED
          BY <1>2, <5>1, <5>2, Zenon
      <4> QED
        BY <4>1, <4>2, Zenon
    <3> QED
      BY <3>1, <3>3, <3>4, Zenon
  <2> QED
    BY <2>2, <2>3, Zenon
<1> QED
  BY <1>1, <1>8, <1>9, <1>10, Zenon

\* Empty components as names: what becomes of a component, and where components lead.
Mark(c) == IF c = <<>> THEN EmptyName ELSE c
Wider(S) == S \cup {"empty"}
Trod(parts) == Walk(StepMarks(parts))

\* The name of the empty components is a name, and only theirs is none before.
LEMMA MarkFacts ==
    ASSUME NEW S, NEW c \in PathNames(S)
    PROVE  /\ Mark(c) \in PathNames(Wider(S)) /\ Mark(c) # <<>>
           /\ c # Dot => Mark(c) # Dot
           /\ c # DotDot => Mark(c) # DotDot
           /\ c \in {Dot, DotDot} => Mark(c) = c
<1>1. "empty" # "." /\ "empty" # SEPARATOR
  BY DEF SEPARATOR
<1> DEFINE x == "empty"
           c1 == "."
<1>2. EmptyName = <<x>> /\ Dot = <<c1>> /\ DotDot = <<c1, c1>>
  BY Zenon DEF EmptyName, Dot, DotDot
<1>3. x # c1 /\ x \in Wider(S) \ {SEPARATOR} /\ S \subseteq Wider(S)
  BY <1>1, Zenon DEF Wider
<1> HIDE DEF x, c1
<1>4. EmptyName \notin {<<>>, Dot, DotDot}
  <2>1. <<x>> # <<>> /\ <<x>> # <<c1>> /\ <<x>> # <<c1, c1>>
    BY <1>3
  <2> QED
    BY <1>2, <2>1, Zenon
<1>5. EmptyName \in PathNames(Wider(S))
  <2> DEFINE A == Wider(S) \ {SEPARATOR}
  <2>1. x \in A
    BY <1>3
  <2> HIDE DEF A
  <2>2. <<x>> \in Seq(A)
    BY <2>1
  <2> QED
    BY <1>2, <2>2, Zenon DEF PathNames, A
<1>6. c \in PathNames(Wider(S))
  <2>1. S \ {SEPARATOR} \subseteq Wider(S) \ {SEPARATOR}
    BY <1>3, Zenon
  <2> QED
    BY <2>1, SeqMonotonic DEF PathNames
<1> QED
  BY <1>4, <1>5, <1>6, DotsDiffer, Zenon DEF Mark

\* One more component is one more name.
LEMMA StepMarksAppend ==
    ASSUME NEW S, NEW parts \in Seq(PathNames(S)), NEW c \in PathNames(S)
    PROVE  /\ StepMarks(parts) \in Seq(PathNames(Wider(S)))
           /\ StepMarks(Append(parts, c)) = Append(StepMarks(parts), Mark(c))
<1> DEFINE n == Len(parts)
           N == PathNames(Wider(S))
           more == Append(parts, c)
           marks == StepMarks(parts)
           after == Append(marks, Mark(c))
<1>1. n \in Nat /\ DOMAIN parts = 1 .. n /\ \A i \in 1 .. n : parts[i] \in PathNames(S)
  BY LenProperties, ElementOfSeq
<1>2. /\ more \in Seq(PathNames(S)) /\ Len(more) = n + 1 /\ more[n + 1] = c
      /\ \A i \in 1 .. n : more[i] = parts[i]
  BY MoreNames
<1>3. DOMAIN more = 1 .. n + 1
  BY <1>2, LenProperties
<1> HIDE DEF more, n
<1>4. marks = [i \in 1 .. n |-> Mark(parts[i])]
  BY <1>1, Zenon DEF StepMarks, Mark
<1>5. StepMarks(more) = [i \in 1 .. n + 1 |-> Mark(more[i])]
  BY <1>3, Zenon DEF StepMarks, Mark
<1>6. \A i \in 1 .. n : Mark(parts[i]) \in N
  BY <1>1, MarkFacts, Zenon
<1>7. Mark(c) \in N
  BY MarkFacts, Zenon
<1> HIDE DEF N
<1>8. marks \in Seq(N) /\ Len(marks) = n /\ \A i \in 1 .. n : marks[i] = Mark(parts[i])
  BY <1>1, <1>4, <1>6
<1> HIDE DEF marks
<1>9. /\ after \in Seq(N) /\ Len(after) = n + 1 /\ after[n + 1] = Mark(c)
      /\ \A i \in 1 .. n : after[i] = marks[i]
  BY <1>1, <1>7, <1>8, AppendProperties
<1> HIDE DEF after
<1>10. after = [i \in 1 .. n + 1 |-> after[i]]
  <2>1. after \in [1 .. Len(after) -> N]
    BY <1>9, LenProperties
  <2>2. after \in [1 .. n + 1 -> N]
    BY <1>9, <2>1, Zenon
  <2> QED
    BY <2>2, Zenon
<1>11. \A i \in 1 .. n + 1 : after[i] = Mark(more[i])
  <2> SUFFICES ASSUME NEW i \in 1 .. n + 1 PROVE after[i] = Mark(more[i])
    OBVIOUS
  <2>1. i \in 1 .. n \/ i = n + 1
    BY <1>1
  <2> QED
    BY <1>2, <1>8, <1>9, <2>1, Zenon
<1>12. StepMarks(more) = after
  BY <1>5, <1>10, <1>11, Zenon
<1> QED
  BY <1>8, <1>12, Zenon DEF after, marks, N, more

\* One more component is one more step, and a step up takes back every other one.
LEMMA TrodAppend ==
    ASSUME NEW S, NEW parts \in Seq(PathNames(S)), NEW c \in PathNames(S)
    PROVE  /\ Trod(parts) \in Spots(Wider(S))
           /\ Trod(Append(parts, c)) = Go(Trod(parts), Mark(c))
           /\ c = Dot => Go(Trod(parts), Mark(c)) = Trod(parts)
           /\ c \notin {Dot, DotDot} => Go(Go(Trod(parts), Mark(c)), DotDot) = Trod(parts)
<1>1. /\ StepMarks(parts) \in Seq(PathNames(Wider(S)))
      /\ StepMarks(Append(parts, c)) = Append(StepMarks(parts), Mark(c))
  BY StepMarksAppend
<1>2. /\ Mark(c) \in PathNames(Wider(S)) /\ Mark(c) # <<>>
      /\ c # Dot => Mark(c) # Dot
      /\ c # DotDot => Mark(c) # DotDot
      /\ c = Dot => Mark(c) = Dot
  BY MarkFacts, Zenon
<1>3. Trod(parts) \in Spots(Wider(S))
  BY <1>1, WalkType, Zenon DEF Trod
<1>4. Trod(Append(parts, c)) = Go(Trod(parts), Mark(c))
  BY <1>1, <1>2, WalkAppend, Zenon DEF Trod
<1>5. /\ Mark(c) \in {<<>>, Dot} => Go(Trod(parts), Mark(c)) = Trod(parts)
      /\ Mark(c) \notin {<<>>, Dot, DotDot} => Go(Go(Trod(parts), Mark(c)), DotDot) = Trod(parts)
  BY <1>2, <1>3, GoFacts
<1> QED
  BY <1>2, <1>3, <1>4, <1>5, Zenon

\* One more of the components of a path.
LEMMA PartOfText ==
    ASSUME NEW S, NEW parts \in Seq(PathNames(S)), NEW k \in 0 .. Len(parts) - 1
    PROVE  /\ SubSeq(parts, 1, k) \in Seq(PathNames(S)) /\ parts[k + 1] \in PathNames(S)
           /\ SubSeq(parts, 1, k + 1) = Append(SubSeq(parts, 1, k), parts[k + 1])
<1>1. Len(parts) \in Nat
  BY LenProperties
<1>2. k + 1 \in 1 .. Len(parts) /\ (k + 1) - 1 = k /\ k \in Int /\ 1 \in Int
  BY <1>1
<1>3. parts[k + 1] \in PathNames(S)
  BY <1>2, ElementOfSeq
<1>4. SubSeq(parts, 1, k) \in Seq(PathNames(S))
  <2>1. \A i \in 1 .. k : parts[i] \in PathNames(S)
    <3> SUFFICES ASSUME NEW i \in 1 .. k PROVE parts[i] \in PathNames(S)
      OBVIOUS
    <3>1. i \in 1 .. Len(parts)
      BY <1>1
    <3> QED
      BY <3>1, ElementOfSeq
  <2> QED
    BY <1>2, <2>1, SubSeqProperties
<1>5. SubSeq(parts, 1, k + 1) = SubSeq(parts, 1, k) \o <<parts[k + 1]>>
  <2>1. 1 \in 1 .. Len(parts) /\ k + 1 \in 1 .. Len(parts)
    BY <1>1, <1>2
  <2>2. SubSeq(parts, 1, k + 1) = SubSeq(parts, 1, (k + 1) - 1) \o <<parts[k + 1]>>
    BY <2>1, SubSeqRecursiveSecond
  <2> QED
    BY <1>2, <2>2, Zenon
<1>6. Append(SubSeq(parts, 1, k), parts[k + 1]) = SubSeq(parts, 1, k) \o <<parts[k + 1]>>
  BY <1>3, <1>4, MoreNames
<1> QED
  BY <1>3, <1>4, <1>5, <1>6, Zenon

\* What a path has become, with empty components anywhere: the depth last components
\* can be popped, and one that is empty at the front is not among them.
Poppable(q, depth) ==
    /\ depth <= Len(q)
    /\ \A i \in Len(q) - depth + 1 .. Len(q) : q[i] # DotDot
    /\ \A i \in 1 .. Len(q) : q[i] # Dot
    /\ q # <<>> /\ q[1] = <<>> => depth < Len(q)

\* A component that is pushed.
LEMMA PoppablePush ==
    ASSUME NEW S, NEW q \in Seq(PathNames(S)), NEW d \in Nat, Poppable(q, d),
           NEW c \in PathNames(S), c # Dot, c = DotDot => d = 0
    PROVE  Poppable(Append(q, c), d + IF c \in {<<>>, DotDot} THEN 0 ELSE 1)
<1> DEFINE n == Len(q)
           more == Append(q, c)
           e == d + IF c \in {<<>>, DotDot} THEN 0 ELSE 1
<1>1. /\ n \in Nat /\ Len(more) = n + 1 /\ more[n + 1] = c
      /\ \A i \in 1 .. n : more[i] = q[i]
  BY MoreNames
<1>2. d <= n
  BY Zenon DEF Poppable
<1>3. (c \in {<<>>, DotDot} => e = d) /\ (c \notin {<<>>, DotDot} => e = d + 1)
  OBVIOUS
<1>4. q = <<>> <=> n = 0
  BY EmptySeq
<1> HIDE DEF more, n, e
<1>5. e \in Nat /\ e <= n + 1 /\ e <= d + 1 /\ (c \notin {<<>>, DotDot} \/ e = d)
  BY <1>1, <1>2, <1>3
<1>6. ASSUME NEW i \in Len(more) - e + 1 .. Len(more) PROVE more[i] # DotDot
  <2>1. CASE i = n + 1
    <3>1. c # DotDot
      <4> SUFFICES ASSUME c = DotDot PROVE FALSE
        OBVIOUS
      <4>1. e = 0
        BY <1>3, Zenon
      <4> QED
        BY <1>1, <2>1, <4>1
    <3> QED
      BY <1>1, <2>1, <3>1, Zenon
  <2>2. CASE i # n + 1
    <3>1. i \in 1 .. n /\ i \in n - d + 1 .. n
      BY <1>1, <1>2, <1>5, <2>2
    <3>2. q[i] # DotDot
      BY <3>1, Zenon DEF Poppable, n
    <3> QED
      BY <1>1, <3>1, <3>2, Zenon
  <2> QED
    BY <2>1, <2>2
<1>7. ASSUME NEW i \in 1 .. Len(more) PROVE more[i] # Dot
  <2>1. i = n + 1 \/ i \in 1 .. n
    BY <1>1
  <2>2. i \in 1 .. n => q[i] # Dot
    BY Zenon DEF Poppable, n
  <2> QED
    BY <1>1, <2>1, <2>2, Zenon
<1>8. ASSUME more[1] = <<>> PROVE e < Len(more)
  <2>1. CASE n = 0
    <3>1. c = <<>>
      BY <1>1, <1>8, <2>1
    <3>2. e = d
      BY <1>3, <3>1, Zenon
    <3> QED
      BY <1>1, <1>2, <2>1, <3>2
  <2>2. CASE n # 0
    <3>1. 1 \in 1 .. n
      BY <1>1, <2>2
    <3>2. q[1] = <<>>
      BY <1>1, <1>8, <3>1, Zenon
    <3>3. d < n
      BY <1>4, <2>2, <3>2, Zenon DEF Poppable, n
    <3> QED
      BY <1>1, <1>5, <3>3
  <2> QED
    BY <2>1, <2>2
<1>9. e <= Len(more)
  BY <1>1, <1>5
<1>10. Poppable(more, e)
  BY <1>6, <1>7, <1>8, <1>9, Zenon DEF Poppable
<1> QED
  BY <1>10, Zenon DEF more, e

\* A component is popped, which may be empty.
LEMMA PoppablePop ==
    ASSUME NEW S, NEW q \in Seq(PathNames(S)), NEW d \in Nat, Poppable(q, d), d > 0
    PROVE  /\ q # <<>> /\ q # <<<<>>>> /\ Last(q) \notin {Dot, DotDot} /\ Poppable(Front(q), d - 1)
           /\ Front(q) \in Seq(PathNames(S)) /\ q = Append(Front(q), Last(q)) /\ Last(q) \in PathNames(S)
<1> DEFINE n == Len(q)
           left == Front(q)
<1>1. n \in Nat
  BY LenProperties
<1>2. d <= n /\ d \in Nat
  BY Zenon DEF Poppable
<1>3. n \in 1 .. n /\ n \in n - d + 1 .. n
  BY <1>1, <1>2
<1>4. q # <<>>
  <2>1. n # 0
    BY <1>3
  <2> QED
    BY <2>1, EmptySeq
<1>5. /\ Last(q) = q[n] /\ left \in Seq(PathNames(S)) /\ Len(left) = n - 1 /\ q = Append(left, Last(q))
      /\ Last(q) \in PathNames(S)
  BY <1>4, LastPart, Zenon
<1>6. q[n] \notin {Dot, DotDot}
  BY <1>3, Zenon DEF Poppable
<1>7. \A i \in 1 .. Len(left) : left[i] = q[i]
  <2>1. \A i \in 1 .. Len(left) : Append(left, Last(q))[i] = left[i]
    BY <1>5, MoreNames
  <2> QED
    BY <1>5, <2>1, Zenon
<1>8. q # <<<<>>>>
  <2> SUFFICES ASSUME q = <<<<>>>> PROVE FALSE
    OBVIOUS
  <2>1. <<<<>>>>[1] = <<>> /\ Len(<<<<>>>>) = 1
    OBVIOUS
  <2>2. q[1] = <<>> /\ n = 1
    BY <2>1, Zenon
  <2>3. d < n
    BY <1>4, <2>2, Zenon DEF Poppable
  <2> HIDE DEF n
  <2> QED
    BY <1>2, <2>2, <2>3
<1>9. left # <<>> => Len(left) # 0
  BY <1>5, EmptySeq
<1> HIDE DEF left, n
<1>10. /\ d - 1 <= Len(left) /\ (d < n => d - 1 < Len(left))
       /\ \A i \in 1 .. Len(left) : i \in 1 .. n
       /\ \A i \in Len(left) - (d - 1) + 1 .. Len(left) : i \in n - d + 1 .. n /\ i \in 1 .. Len(left)
       /\ Len(left) # 0 => 1 \in 1 .. Len(left)
  BY <1>1, <1>2, <1>5
<1>11. ASSUME NEW i \in Len(left) - (d - 1) + 1 .. Len(left) PROVE left[i] # DotDot
  BY <1>7, <1>10, Zenon DEF Poppable, n
<1>12. ASSUME NEW i \in 1 .. Len(left) PROVE left[i] # Dot
  BY <1>7, <1>10, Zenon DEF Poppable, n
<1>13. ASSUME left # <<>>, left[1] = <<>> PROVE d - 1 < Len(left)
  <2>1. q[1] = <<>>
    BY <1>7, <1>9, <1>10, <1>13, Zenon
  <2>2. d < n
    BY <1>4, <2>1, Zenon DEF Poppable, n
  <2> QED
    BY <1>10, <2>2, Zenon
<1>14. Poppable(left, d - 1)
  BY <1>10, <1>11, <1>12, <1>13, Zenon DEF Poppable
<1> QED
  BY <1>4, <1>5, <1>6, <1>8, <1>14, Zenon DEF left, n

\* After k turns the names of the text done so far lead where those of the first k
\* components do.
Treads(sofar, q, parts, k, S) ==
    /\ sofar \in Sofars(S) /\ q \in Seq(PathNames(S))
    /\ Components(sofar.result) = q \o <<<<>>>>
    /\ Poppable(q, sofar.depth)
    /\ Trod(q) = Trod(SubSeq(parts, 1, k))

\* A dot leads nowhere.
LEMMA DotTreads ==
    ASSUME NEW S, NEW parts \in Seq(PathNames(S)), NEW k \in 0 .. Len(parts) - 1,
           NEW sofar, NEW q, Treads(sofar, q, parts, k, S), parts[k + 1] = Dot
    PROVE  Treads(sofar, q, parts, k + 1, S)
<1> DEFINE s == SubSeq(parts, 1, k)
<1>1. s \in Seq(PathNames(S)) /\ Dot \in PathNames(S) /\ SubSeq(parts, 1, k + 1) = Append(s, Dot)
  BY PartOfText, Zenon
<1> HIDE DEF s
<1>2. Trod(Append(s, Dot)) = Trod(s)
  BY <1>1, TrodAppend, Zenon
<1> QED
  BY <1>1, <1>2, Zenon DEF Treads, s

\* Two dots take back the last component, empty or not.
LEMMA UpTreads ==
    ASSUME NEW S, NEW parts \in Seq(PathNames(S)), NEW k \in 0 .. Len(parts) - 1,
           NEW sofar, NEW q, Treads(sofar, q, parts, k, S), IsStepUp(sofar, parts[k + 1])
    PROVE  Treads([result |-> Popped(sofar.result), depth |-> sofar.depth - 1], Front(q), parts, k + 1, S)
<1> DEFINE d == sofar.depth
           left == Front(q)
           s == SubSeq(parts, 1, k)
           after == [result |-> Popped(sofar.result), depth |-> d - 1]
<1>1. /\ sofar \in Sofars(S) /\ q \in Seq(PathNames(S))
      /\ Components(sofar.result) = q \o <<<<>>>>
      /\ Poppable(q, d) /\ Trod(q) = Trod(s)
  BY Zenon DEF Treads
<1>2. parts[k + 1] = DotDot /\ d > 0
  BY Zenon DEF IsStepUp
<1>3. sofar.result \in Seq(S) /\ d \in Nat
  BY <1>1 DEF Sofars
<1>4. /\ q # <<>> /\ q # <<<<>>>> /\ Last(q) \notin {Dot, DotDot} /\ Poppable(left, d - 1)
      /\ left \in Seq(PathNames(S)) /\ q = Append(left, Last(q)) /\ Last(q) \in PathNames(S)
  BY <1>1, <1>2, <1>3, PoppablePop
<1>5. Popped(sofar.result) \in Seq(S) /\ Components(Popped(sofar.result)) = left \o <<<<>>>>
  <2>1. q \in Parts(S)
    BY <1>1, <1>4 DEF Parts
  <2> QED
    BY <1>1, <1>3, <1>4, <2>1, PopPart, Zenon
<1>6. Trod(left) = Trod(SubSeq(parts, 1, k + 1))
  <2>1. s \in Seq(PathNames(S)) /\ DotDot \in PathNames(S) /\ SubSeq(parts, 1, k + 1) = Append(s, DotDot)
    BY <1>2, PartOfText, Zenon
  <2>2. Mark(DotDot) = DotDot
    BY <2>1, MarkFacts, Zenon
  <2>3. Trod(Append(s, DotDot)) = Go(Trod(s), DotDot)
    BY <2>1, <2>2, TrodAppend, Zenon
  <2> DEFINE x == Last(q)
  <2>4. left \in Seq(PathNames(S)) /\ x \in PathNames(S) /\ x \notin {Dot, DotDot} /\ q = Append(left, x)
    BY <1>4, Zenon
  <2> HIDE DEF x, left, s, d
  <2>5. Trod(Append(left, x)) = Go(Trod(left), Mark(x))
    BY <2>4, TrodAppend, Zenon
  <2>6. Go(Go(Trod(left), Mark(x)), DotDot) = Trod(left)
    BY <2>4, TrodAppend, Zenon
  <2> QED
    BY <1>1, <2>1, <2>3, <2>4, <2>5, <2>6, Zenon
<1>7. after \in Sofars(S) /\ after.result = Popped(sofar.result) /\ after.depth = d - 1
  <2>1. d - 1 \in Nat
    BY <1>2, <1>3
  <2> HIDE DEF d
  <2> QED
    BY <1>5, <2>1 DEF Sofars
<1> HIDE DEF after, left, d
<1>8. Treads(after, left, parts, k + 1, S)
  BY <1>4, <1>5, <1>6, <1>7, Zenon DEF Treads
<1> QED
  BY <1>8, Zenon DEF after, left, d

\* A component that is pushed, empty or not.
LEMMA PushTreads ==
    ASSUME NEW S, SEPARATOR \in S, NEW parts \in Seq(PathNames(S)), NEW k \in 0 .. Len(parts) - 1,
           NEW sofar, NEW q, Treads(sofar, q, parts, k, S),
           parts[k + 1] # Dot, ~IsStepUp(sofar, parts[k + 1]), k + 1 < Len(parts)
    PROVE  Treads(Onward(sofar, parts, k + 1), Append(q, parts[k + 1]), parts, k + 1, S)
<1> DEFINE d == sofar.depth
           c == parts[k + 1]
           s == SubSeq(parts, 1, k)
           more == Append(q, c)
           e == d + IF c \in {<<>>, DotDot} THEN 0 ELSE 1
           after == Onward(sofar, parts, k + 1)
<1>1. /\ sofar \in Sofars(S) /\ q \in Seq(PathNames(S))
      /\ Components(sofar.result) = q \o <<<<>>>>
      /\ Poppable(q, d) /\ Trod(q) = Trod(s)
  BY Zenon DEF Treads
<1>2. sofar.result \in Seq(S) /\ d \in Nat
  BY <1>1 DEF Sofars
<1>3. s \in Seq(PathNames(S)) /\ c \in PathNames(S) /\ SubSeq(parts, 1, k + 1) = Append(s, c)
  BY PartOfText, Zenon
<1>4. more \in Seq(PathNames(S))
  BY <1>1, <1>3, MoreNames, Zenon
<1>5. c = DotDot => d = 0
  <2>1. c = DotDot => ~(d > 0)
    BY Zenon DEF IsStepUp
  <2> HIDE DEF c, d
  <2> QED
    BY <1>2, <2>1
<1>6. Poppable(more, e)
  BY <1>1, <1>2, <1>3, <1>5, PoppablePush, Zenon
<1>7. Components(Pushed(sofar.result, c, TRUE)) = more \o <<<<>>>> /\ Pushed(sofar.result, c, TRUE) \in Seq(S)
  BY <1>1, <1>2, <1>3, PushedComponents, PushedFacts, Zenon
<1>8. after.result = Pushed(sofar.result, c, TRUE) /\ after.depth = e /\ after \in Sofars(S)
  <2>1. (k + 1 < Len(parts)) = TRUE
    OBVIOUS
  <2> DEFINE r == Pushed(sofar.result, c, TRUE)
  <2>2. after = [result |-> r, depth |-> e]
    BY <2>1, Zenon DEF Onward
  <2>3. e \in Nat
    BY <1>2
  <2>4. r \in Seq(S)
    BY <1>7
  <2> HIDE DEF r, e, after
  <2>5. after.result = r /\ after.depth = e /\ after \in Sofars(S)
    BY <2>2, <2>3, <2>4 DEF Sofars
  <2> QED
    BY <2>5, Zenon DEF r
<1>9. Trod(more) = Trod(SubSeq(parts, 1, k + 1))
  <2> HIDE DEF c, s, d
  <2>1. Trod(Append(q, c)) = Go(Trod(q), Mark(c))
    BY <1>1, <1>3, TrodAppend, Zenon
  <2>2. Trod(Append(s, c)) = Go(Trod(s), Mark(c))
    BY <1>3, TrodAppend, Zenon
  <2> QED
    BY <1>1, <1>3, <2>1, <2>2, Zenon
<1> HIDE DEF after, more, e, c
<1>10. Treads(after, more, parts, k + 1, S)
  BY <1>4, <1>6, <1>7, <1>8, <1>9, Zenon DEF Treads
<1> QED
  BY <1>10, Zenon DEF after, more, c

\* No turns lead nowhere.
LEMMA StartTreads ==
    ASSUME NEW S, NEW parts
    PROVE  Treads(Start, <<>>, parts, 0, S)
<1>1. <<>> \in Seq(S) /\ <<>> \in Seq(PathNames(S)) /\ Len(<<>>) = 0 /\ 0 \in Nat
  BY EmptySeq
<1>2. Start \in Sofars(S) /\ Start.result = <<>> /\ Start.depth = 0
  BY <1>1 DEF Start, Sofars
<1>3. Components(<<>>) = <<>> \o <<<<>>>>
  <2>1. <<>> \o <<<<>>>> = <<<<>>>>
    OBVIOUS
  <2> QED
    BY <2>1, ComponentsNil, Zenon
<1>4. Poppable(<<>>, 0)
  <2>1. 0 <= Len(<<>>) /\ Len(<<>>) - 0 + 1 .. Len(<<>>) = {} /\ 1 .. Len(<<>>) = {}
    BY <1>1
  <2> QED
    BY <2>1, Zenon DEF Poppable
<1>5. SubSeq(parts, 1, 0) = <<>>
  BY SubSeqEmpty
<1> QED
  BY <1>1, <1>2, <1>3, <1>4, <1>5, Zenon DEF Treads

\* Every turn but the last leaves names that lead where those of the components do so far.
LEMMA TurnsTread ==
    ASSUME NEW S, SEPARATOR \in S, NEW parts \in Seq(PathNames(S)), parts # <<>>,
           NEW f, f[0] = Start,
           \A k \in 0 .. Len(parts) - 1 : f[k + 1] = Turn(f[k], parts, k + 1)
    PROVE  \E q : Treads(f[Len(parts) - 1], q, parts, Len(parts) - 1, S)
<1> DEFINE n == Len(parts)
           T == {k \in 0 .. n - 1 : \E q : Treads(f[k], q, parts, k, S)}
<1>1. n \in Nat \ {0}
  BY EmptySeq
<1>2. 0 \in T
  <2>1. 0 \in 0 .. n - 1
    BY <1>1
  <2>2. Treads(f[0], <<>>, parts, 0, S)
    BY StartTreads, Zenon
  <2> QED
    BY <2>1, <2>2, Zenon
<1>3. ASSUME NEW k \in 0 .. (n - 1) - 1, k \in T PROVE k + 1 \in T
  <2>1. k \in 0 .. Len(parts) - 1 /\ k + 1 \in 0 .. n - 1 /\ k + 1 < Len(parts)
    BY <1>1
  <2>2. PICK q : Treads(f[k], q, parts, k, S)
    BY <1>3, Zenon
  <2>3. f[k + 1] = Turn(f[k], parts, k + 1)
    BY <2>1
  <2> HIDE DEF T, n
  <2>4. CASE parts[k + 1] = Dot
    <3>1. Treads(f[k], q, parts, k + 1, S)
      BY <2>1, <2>2, <2>4, DotTreads, Zenon
    <3>2. Turn(f[k], parts, k + 1) = f[k]
      BY <2>4, TurnFacts
    <3>3. f[k + 1] = f[k]
      BY <2>3, <3>2, Zenon
    <3> QED
      BY <2>1, <3>1, <3>3, Zenon DEF T
  <2>5. CASE IsStepUp(f[k], parts[k + 1])
    <3> DEFINE after == [result |-> Popped(f[k].result), depth |-> f[k].depth - 1]
    <3>1. Treads(after, Front(q), parts, k + 1, S)
      BY <2>1, <2>2, <2>5, UpTreads, Zenon
    <3>2. Turn(f[k], parts, k + 1) = after
      BY <2>5, TurnFacts
    <3>3. f[k + 1] = after
      BY <2>3, <3>2, Zenon
    <3> QED
      BY <2>1, <3>1, <3>3, Zenon DEF T
  <2>6. CASE parts[k + 1] # Dot /\ ~IsStepUp(f[k], parts[k + 1])
    <3>1. Treads(Onward(f[k], parts, k + 1), Append(q, parts[k + 1]), parts, k + 1, S)
      BY <2>1, <2>2, <2>6, PushTreads, Zenon
    <3>2. Turn(f[k], parts, k + 1) = Onward(f[k], parts, k + 1)
      BY <2>6, TurnFacts
    <3>3. f[k + 1] = Onward(f[k], parts, k + 1)
      BY <2>3, <3>2, Zenon
    <3> QED
      BY <2>1, <3>1, <3>3, Zenon DEF T
  <2> QED
    BY <2>4, <2>5, <2>6, Zenon
<1>4. n - 1 \in Nat /\ n - 1 \in 0 .. n - 1
  BY <1>1
<1> HIDE DEF T, n
<1>5. 0 .. n - 1 \subseteq T
  BY <1>2, <1>3, <1>4, UpTo
<1> QED
  BY <1>4, <1>5, Zenon DEF T, n

\* What is said of the components of a simplified path, for every path.
MarksTell(found, parts) ==
    /\ Trod(EndDropped(found)) = Trod(EndDropped(parts))
    /\ \A i \in DOMAIN found : found[i] # Dot

\* A text that is done, and ends with a separator.
LEMMA DoneTells ==
    ASSUME NEW S, NEW parts \in Seq(PathNames(S)), parts # <<>>, parts[Len(parts)] # <<>>,
           NEW sofar, NEW q, Treads(sofar, q, parts, Len(parts), S)
    PROVE  MarksTell(Components(sofar.result), parts)
<1> DEFINE found == Append(q, <<>>)
<1>1. <<>> \in PathNames(S)
  BY EmptySeq DEF PathNames
<1>2. /\ q \in Seq(PathNames(S)) /\ Components(sofar.result) = q \o <<<<>>>>
      /\ Poppable(q, sofar.depth) /\ Trod(q) = Trod(SubSeq(parts, 1, Len(parts)))
  BY Zenon DEF Treads
<1>3. /\ found \in Seq(PathNames(S)) /\ found = q \o <<<<>>>> /\ Len(q) \in Nat
      /\ Len(found) = Len(q) + 1 /\ found[Len(q) + 1] = <<>>
      /\ \A i \in 1 .. Len(q) : found[i] = q[i]
  BY <1>1, <1>2, MoreNames
<1>4. EndDropped(found) = q
  <2>1. Front(q \o <<<<>>>>) = q /\ Last(q \o <<<<>>>>) = <<>>
    BY <1>1, <1>2, FrontOfJoined
  <2> QED
    BY <1>3, <2>1, Zenon DEF EndDropped
<1>5. EndDropped(parts) = parts
  <2>1. Last(parts) = parts[Len(parts)]
    BY LastPart, Zenon
  <2> QED
    BY <2>1, Zenon DEF EndDropped
<1>6. SubSeq(parts, 1, Len(parts)) = parts
  BY SubSeqFull
<1>7. ASSUME NEW i \in DOMAIN found PROVE found[i] # Dot
  <2>1. i \in 1 .. Len(found)
    BY <1>3, LenProperties
  <2>2. i = Len(q) + 1 \/ i \in 1 .. Len(q)
    BY <1>3, <2>1
  <2>3. i \in 1 .. Len(q) => q[i] # Dot
    BY <1>2, Zenon DEF Poppable
  <2> QED
    BY <1>3, <2>2, <2>3, DotsDiffer, Zenon
<1>8. MarksTell(found, parts)
  BY <1>2, <1>4, <1>5, <1>6, <1>7, Zenon DEF MarksTell
<1> QED
  BY <1>2, <1>3, <1>8, Zenon

\* A text whose last component is pushed.
LEMMA LastTells ==
    ASSUME NEW S, SEPARATOR \in S, NEW parts \in Seq(PathNames(S)), parts # <<>>,
           NEW k \in 0 .. Len(parts) - 1, k + 1 = Len(parts),
           NEW sofar, NEW q, Treads(sofar, q, parts, k, S), parts[k + 1] # Dot
    PROVE  MarksTell(Components(Pushed(sofar.result, parts[k + 1], FALSE)), parts)
<1> DEFINE c == parts[k + 1]
           s == SubSeq(parts, 1, k)
           found == Append(q, c)
<1>1. /\ sofar \in Sofars(S) /\ q \in Seq(PathNames(S))
      /\ Components(sofar.result) = q \o <<<<>>>>
      /\ Poppable(q, sofar.depth) /\ Trod(q) = Trod(s)
  BY Zenon DEF Treads
<1>2. sofar.result \in Seq(S)
  BY <1>1 DEF Sofars
<1>3. s \in Seq(PathNames(S)) /\ c \in PathNames(S) /\ SubSeq(parts, 1, k + 1) = Append(s, c)
  BY PartOfText, Zenon
<1>4. Components(Pushed(sofar.result, c, FALSE)) = q \o <<c>>
  BY <1>1, <1>2, <1>3, PushedComponents, Zenon
<1>5. /\ found \in Seq(PathNames(S)) /\ found = q \o <<c>> /\ Len(q) \in Nat
      /\ Len(found) = Len(q) + 1 /\ found[Len(q) + 1] = c
      /\ \A i \in 1 .. Len(q) : found[i] = q[i]
  BY <1>1, <1>3, MoreNames
<1>6. parts = Append(s, c)
  <2>1. SubSeq(parts, 1, Len(parts)) = parts
    BY SubSeqFull
  <2> QED
    BY <1>3, <2>1, Zenon
<1>7. Front(found) = q /\ Last(found) = c
  <2>1. Front(q \o <<c>>) = q /\ Last(q \o <<c>>) = c
    BY <1>1, <1>3, FrontOfJoined
  <2> QED
    BY <1>5, <2>1, Zenon
<1>8. Front(parts) = s /\ Last(parts) = c
  <2>1. Front(s \o <<c>>) = s /\ Last(s \o <<c>>) = c
    BY <1>3, FrontOfJoined
  <2>2. Append(s, c) = s \o <<c>>
    BY <1>3, MoreNames
  <2> QED
    BY <1>6, <2>1, <2>2, Zenon
<1> HIDE DEF found, c, s
<1>9. Trod(found) = Trod(parts)
  <2>1. Trod(Append(q, c)) = Go(Trod(q), Mark(c)) /\ Trod(Append(s, c)) = Go(Trod(s), Mark(c))
    BY <1>1, <1>3, TrodAppend, Zenon
  <2> QED
    BY <1>1, <1>6, <2>1, Zenon DEF found
<1>10. Trod(EndDropped(found)) = Trod(EndDropped(parts))
  BY <1>1, <1>7, <1>8, <1>9, Zenon DEF EndDropped
<1>11. ASSUME NEW i \in DOMAIN found PROVE found[i] # Dot
  <2>1. i \in 1 .. Len(found)
    BY <1>5, LenProperties
  <2>2. i = Len(q) + 1 \/ i \in 1 .. Len(q)
    BY <1>5, <2>1
  <2>3. i \in 1 .. Len(q) => q[i] # Dot
    BY <1>1, Zenon DEF Poppable
  <2> QED
    BY <1>5, <2>2, <2>3, Zenon DEF c
<1>12. MarksTell(found, parts)
  BY <1>10, <1>11, Zenon DEF MarksTell
<1> QED
  BY <1>4, <1>5, <1>12, Zenon DEF c

\* Every path is simplified to one whose names lead to the same place.
LEMMA SimplifiedTells ==
    ASSUME NEW S, SEPARATOR \in S, NEW parts \in Seq(PathNames(S)), parts # <<>>
    PROVE  MarksTell(Components(Simplified(parts).result), parts)
<1> DEFINE n == Len(parts)
           k == n - 1
<1>1. PICK f \in [0 .. Len(parts) -> Sofars(S)] :
         /\ f[0] = Start /\ f[Len(parts)] = Simplified(parts)
         /\ \A j \in 0 .. Len(parts) - 1 : f[j + 1] = Turn(f[j], parts, j + 1)
  BY TurnFold
<1>2. PICK q : Treads(f[k], q, parts, k, S)
  BY <1>1, TurnsTread, Zenon
<1>3. n \in Nat \ {0}
  BY EmptySeq
<1>4. k \in 0 .. Len(parts) - 1 /\ k + 1 = n /\ k + 1 = Len(parts) /\ (k + 1 < Len(parts)) = FALSE
  BY <1>3
<1> HIDE DEF k, n
<1>5. Simplified(parts) = Turn(f[k], parts, k + 1)
  BY <1>1, <1>4, Zenon DEF n
<1>6. CASE parts[k + 1] = Dot
  <2>1. Treads(f[k], q, parts, Len(parts), S)
    BY <1>2, <1>4, <1>6, DotTreads, Zenon
  <2>2. Simplified(parts) = f[k]
    BY <1>5, <1>6, TurnFacts, Zenon
  <2>3. parts[Len(parts)] # <<>>
    BY <1>4, <1>6, DotsDiffer, Zenon
  <2>4. MarksTell(Components(f[k].result), parts)
    BY <2>1, <2>3, DoneTells, Zenon
  <2> QED
    BY <2>2, <2>4, Zenon
<1>7. CASE IsStepUp(f[k], parts[k + 1])
  <2> DEFINE after == [result |-> Popped(f[k].result), depth |-> f[k].depth - 1]
  <2>1. Treads(after, Front(q), parts, Len(parts), S)
    BY <1>2, <1>4, <1>7, UpTreads, Zenon
  <2>2. Simplified(parts) = after
    BY <1>5, <1>7, TurnFacts, Zenon
  <2>3. parts[Len(parts)] # <<>>
    BY <1>4, <1>7, DotsDiffer, Zenon DEF IsStepUp
  <2> HIDE DEF after
  <2>4. MarksTell(Components(after.result), parts)
    BY <2>1, <2>3, DoneTells, Zenon
  <2> QED
    BY <2>2, <2>4, Zenon
<1>8. CASE parts[k + 1] # Dot /\ ~IsStepUp(f[k], parts[k + 1])
  <2> DEFINE c == parts[k + 1]
             r == Pushed(f[k].result, c, FALSE)
             e == f[k].depth + IF c \in {<<>>, DotDot} THEN 0 ELSE 1
  <2>1. Simplified(parts) = Onward(f[k], parts, k + 1)
    BY <1>5, <1>8, TurnFacts, ZenonT(60)
  <2>2. Onward(f[k], parts, k + 1) = [result |-> r, depth |-> e]
    BY <1>4, Zenon DEF Onward
  <2>3. MarksTell(Components(r), parts)
    BY <1>2, <1>4, <1>8, LastTells, Zenon
  <2> HIDE DEF r, e
  <2>4. Simplified(parts).result = r
    BY <2>1, <2>2
  <2> QED
    BY <2>3, <2>4, Zenon
<1> QED
  BY <1>6, <1>7, <1>8, Zenon

\* A simplified path leads where the path leads.
LEMMA SimplifyAlways ==
    ASSUME NEW S, up_text \in Seq(S)
    PROVE  SimplifyLeadsThere
<1> DEFINE A == S \cup {SEPARATOR}
           parts == Components(up_text)
           simple == simplify(up_text)
           found == Components(simple)
<1>1. SEPARATOR \in A
  BY Zenon
<1>2. up_text \in Seq(A)
  <2>1. \A i \in 1 .. Len(up_text) : up_text[i] \in A
    BY ElementOfSeq, Zenon
  <2> HIDE DEF A
  <2> QED
    BY <2>1
<1> HIDE DEF A
<1>3. parts \in Parts(A) /\ parts \in Seq(PathNames(A)) /\ parts # <<>>
  <2>1. parts \in Parts(A)
    BY <1>2, ComponentsType, Zenon
  <2> HIDE DEF parts
  <2> QED
    BY <2>1, Zenon DEF Parts
<1>4. simple = Simplified(parts).result
  BY Zenon DEF simplify
<1>5. HasEmptyComponent(up_text) \/ NoneEmptyWithin(parts)
  BY <1>2, ComponentsMeet, Zenon DEF TextMeets
<1> HIDE DEF parts
<1>6. MarksTell(found, parts)
  BY <1>1, <1>3, <1>4, SimplifiedTells, Zenon
<1> SUFFICES ASSUME ~HasEmptyComponent(up_text)
             PROVE  /\ Walk(found) = Walk(parts)
                    /\ is_absolute(simple) <=> is_absolute(up_text)
                    /\ \A i \in DOMAIN found :
                          found[i] = DotDot => \A j \in 1 .. i - 1 : found[j] \in {<<>>, DotDot}
  <2>1. is_absolute(simple) \in BOOLEAN /\ is_absolute(up_text) \in BOOLEAN
    BY Zenon DEF is_absolute
  <2>2. (is_absolute(simple) <=> is_absolute(up_text)) => is_absolute(simple) = is_absolute(up_text)
    BY <2>1
  <2>3. NamedWalk(found) = NamedWalk(parts) /\ \A i \in DOMAIN found : found[i] # Dot
    BY <1>6, Zenon DEF MarksTell, Trod, NamedWalk
  <2> QED
    BY <2>2, <2>3, Zenon DEF SimplifyLeadsThere, parts
<1>7. NoneEmptyWithin(parts)
  BY <1>5, Zenon
<1>8. PICK q, y, d, m : LeadsTo(Components(Simplified(parts).result), q, y, d, parts, m, A)
  BY <1>1, <1>3, <1>7, SimplifiedEnds, Zenon
<1>9. LeadsTo(found, q, y, d, parts, m, A)
  BY <1>4, <1>8, Zenon
<1>10. simple \in Seq(A)
  <2>1. PICK f \in [0 .. Len(parts) -> Sofars(A)] : f[Len(parts)] = Simplified(parts)
    BY <1>1, <1>3, TurnFold, Zenon
  <2>2. Len(parts) \in 0 .. Len(parts)
    <3>1. Len(parts) \in Nat
      BY <1>3, LenProperties
    <3> QED
      BY <3>1
  <2>3. f[Len(parts)] \in Sofars(A)
    BY <2>2
  <2>4. f[Len(parts)].result \in Seq(A)
    BY <2>3 DEF Sofars
  <2> QED
    BY <1>4, <2>1, <2>4, Zenon
<1> HIDE DEF simple
<1>11. is_absolute(simple) <=> Len(found) >= 2 /\ found[1] = <<>>
  BY <1>10, AbsoluteMeets, Zenon
<1>12. is_absolute(up_text) <=> Len(parts) >= 2 /\ parts[1] = <<>>
  BY <1>2, AbsoluteMeets, Zenon DEF parts
<1> HIDE DEF found
<1> QED
  BY <1>3, <1>9, <1>11, <1>12, EndsMeet, Zenon

-----------------------------------------------------------------------------
(***************************************************************************)
(* Decoding, one character or escape of the text after the other.          *)
(***************************************************************************)
\* What DecodeBut does at a place of its text: it ends with a value, or goes on with a
\* character and the rest.
IsEscape(c) == c = "%"
EscapedAt(input, i) == CharacterOf(16 * from_hex[input[i + 1]] + from_hex[input[i + 2]])
CutAt(input, i) == i + 2 > Len(input) \/ ~({input[i + 1], input[i + 2]} \subseteq DOMAIN from_hex)
EndsAt(input, refused, i) ==
    \/ i = Len(input) + 1
    \/ IsEscape(input[i]) /\ (CutAt(input, i) \/ EscapedAt(input, i) \in refused)
EndValue(input, i) == IF i = Len(input) + 1 THEN <<>> ELSE <<"throws">>
DecodedChar(input, i) == IF IsEscape(input[i]) THEN EscapedAt(input, i) ELSE input[i]
NextAt(input, i) == IF IsEscape(input[i]) THEN i + 3 ELSE i + 1
DecodesAt(f, input, refused, i) ==
    IF EndsAt(input, refused, i) THEN EndValue(input, i) ELSE <<DecodedChar(input, i)>> \o f[NextAt(input, i)]

\* The function that DecodeBut takes its value from.
IsDecoded(f, input, refused) ==
    f = [i \in 1 .. Len(input) + 1 |->
            IF i = Len(input) + 1 THEN <<>>
            ELSE IF input[i] # "%" THEN <<input[i]>> \o f[i + 1]
            ELSE IF i + 2 > Len(input) \/ ~({input[i + 1], input[i + 2]} \subseteq DOMAIN from_hex)
            THEN <<"throws">>
            ELSE LET c == CharacterOf(16 * from_hex[input[i + 1]] + from_hex[input[i + 2]])
                 IN  IF c \in refused THEN <<"throws">> ELSE <<c>> \o f[i + 3]]

\* DecodeBut takes the first value of such a function.
LEMMA DecodeIs ==
    ASSUME NEW input, NEW refused
    PROVE  DecodeBut(input, refused) = (CHOOSE f : IsDecoded(f, input, refused))[1]
  BY Zenon DEF DecodeBut, IsDecoded

\* The same function, place by place.
LEMMA DecodedIs ==
    ASSUME NEW f, NEW input, NEW refused
    PROVE  IsDecoded(f, input, refused) <=>
              f = [i \in 1 .. Len(input) + 1 |-> DecodesAt(f, input, refused, i)]
<1>1. ASSUME NEW i
      PROVE  DecodesAt(f, input, refused, i) =
                IF i = Len(input) + 1 THEN <<>>
                ELSE IF input[i] # "%" THEN <<input[i]>> \o f[i + 1]
                ELSE IF i + 2 > Len(input) \/ ~({input[i + 1], input[i + 2]} \subseteq DOMAIN from_hex)
                THEN <<"throws">>
                ELSE LET c == CharacterOf(16 * from_hex[input[i + 1]] + from_hex[input[i + 2]])
                     IN  IF c \in refused THEN <<"throws">> ELSE <<c>> \o f[i + 3]
  <2>1. CASE i = Len(input) + 1
    BY <2>1, Zenon DEF DecodesAt, EndsAt, EndValue
  <2>2. CASE i # Len(input) + 1 /\ ~IsEscape(input[i])
    <3>1. DecodesAt(f, input, refused, i) = <<input[i]>> \o f[i + 1]
      BY <2>2, Zenon DEF DecodesAt, EndsAt, DecodedChar, NextAt
    <3> QED
      BY <2>2, <3>1, Zenon DEF IsEscape
  <2>3. CASE i # Len(input) + 1 /\ IsEscape(input[i]) /\ (CutAt(input, i) \/ EscapedAt(input, i) \in refused)
    <3>1. DecodesAt(f, input, refused, i) = <<"throws">>
      BY <2>3, Zenon DEF DecodesAt, EndsAt, EndValue
    <3> QED
      BY <2>3, <3>1, Zenon DEF IsEscape, CutAt, EscapedAt
  <2>4. CASE i # Len(input) + 1 /\ IsEscape(input[i]) /\ ~CutAt(input, i) /\ EscapedAt(input, i) \notin refused
    <3>1. DecodesAt(f, input, refused, i) = <<EscapedAt(input, i)>> \o f[i + 3]
      BY <2>4, Zenon DEF DecodesAt, EndsAt, DecodedChar, NextAt
    <3> QED
      BY <2>4, <3>1, Zenon DEF IsEscape, CutAt, EscapedAt
  <2> QED
    BY <2>1, <2>2, <2>3, <2>4, Zenon
<1> QED
  BY <1>1, Zenon DEF IsDecoded

\* Where decoding goes on, there is a place.
LEMMA NextPlace ==
    ASSUME NEW S, NEW input \in Seq(S), NEW refused, NEW i \in 1 .. Len(input) + 1,
           ~EndsAt(input, refused, i)
    PROVE  NextAt(input, i) \in i + 1 .. Len(input) + 1 /\ i \in 1 .. Len(input)
<1> DEFINE n == Len(input)
<1>1. n \in Nat /\ i \in 1 .. n + 1
  BY LenProperties
<1>2. i # n + 1
  BY Zenon DEF EndsAt
<1>3. IsEscape(input[i]) => ~(i + 2 > n)
  BY Zenon DEF EndsAt, CutAt
<1>4. NextAt(input, i) = i + 1 \/ (NextAt(input, i) = i + 3 /\ IsEscape(input[i]))
  BY Zenon DEF NextAt
<1> HIDE DEF n
<1>5. i \in 1 .. n /\ i + 1 \in i + 1 .. n + 1 /\ (~(i + 2 > n) => i + 3 \in i + 1 .. n + 1)
  BY <1>1, <1>2
<1> QED
  BY <1>3, <1>4, <1>5, Zenon DEF n

\* There is such a function.
LEMMA DecodedExists ==
    ASSUME NEW S, NEW input \in Seq(S), NEW refused
    PROVE  \E f : IsDecoded(f, input, refused)
<1> DEFINE N == Len(input) + 1
           Out == {DecodedChar(input, i) : i \in 1 .. N} \cup {"throws"}
           V == Seq(Out)
           ends == {j \in 1 .. N : EndsAt(input, refused, j)}
           val == [j \in 1 .. N |-> EndValue(input, j)]
           nxt == [j \in 1 .. N |-> IF j \in ends THEN 0 ELSE NextAt(input, j)]
           step == [j \in 1 .. N |-> [v \in V |-> <<DecodedChar(input, j)>> \o v]]
<1>1. N \in Nat
  BY LenProperties
<1>2. <<>> \in V /\ <<"throws">> \in V
  <2>1. "throws" \in Out
    BY Zenon
  <2> HIDE DEF Out
  <2> QED
    BY <2>1, EmptySeq
<1>3. val \in [1 .. N -> V]
  <2>1. ASSUME NEW j PROVE EndValue(input, j) \in V
    BY <1>2, Zenon DEF EndValue
  <2> HIDE DEF V, N
  <2> QED
    BY <2>1, Zenon
<1>4. \A j \in 1 .. N : j \notin ends => nxt[j] = NextAt(input, j) /\ nxt[j] \in j + 1 .. N
  <2> SUFFICES ASSUME NEW j \in 1 .. N, j \notin ends
               PROVE  nxt[j] = NextAt(input, j) /\ nxt[j] \in j + 1 .. N
    BY Zenon
  <2>1. ~EndsAt(input, refused, j)
    BY Zenon
  <2>2. NextAt(input, j) \in j + 1 .. N
    BY <2>1, NextPlace
  <2>3. nxt[j] = NextAt(input, j)
    BY Zenon
  <2> QED
    BY <2>2, <2>3, Zenon
<1>5. nxt \in [1 .. N -> Nat]
  <2>1. ASSUME NEW j \in 1 .. N PROVE (IF j \in ends THEN 0 ELSE NextAt(input, j)) \in Nat
    <3>1. CASE j \in ends
      BY <3>1
    <3>2. CASE j \notin ends
      <4>1. ~EndsAt(input, refused, j)
        BY <3>2, Zenon
      <4>2. NextAt(input, j) \in j + 1 .. N
        BY <4>1, NextPlace
      <4>3. NextAt(input, j) \in Nat
        BY <1>1, <4>2
      <4> QED
        BY <3>2, <4>3, Zenon
    <3> QED
      BY <3>1, <3>2, Zenon
  <2> HIDE DEF ends, N
  <2> QED
    BY <2>1, Zenon
<1>6. step \in [1 .. N -> [V -> V]]
  <2>1. ASSUME NEW j \in 1 .. N, NEW v \in V PROVE <<DecodedChar(input, j)>> \o v \in V
    <3>1. DecodedChar(input, j) \in Out
      BY Zenon
    <3> HIDE DEF Out
    <3>2. <<DecodedChar(input, j)>> \in Seq(Out)
      BY <3>1
    <3> QED
      BY <3>2, ConcatProperties
  <2> HIDE DEF V, N
  <2> QED
    BY <2>1
<1>7. PICK f \in [1 .. N -> V] : IsDown(f, 1, N, ends, val, nxt, step)
  <2>1. \A j \in 1 .. N : j \notin ends => nxt[j] \in j + 1 .. N
    BY <1>4, Zenon
  <2> HIDE DEF N, V, ends, val, nxt, step
  <2> QED
    BY <1>1, <1>2, <1>3, <1>5, <1>6, <2>1, DownwardRecursion
<1>8. ASSUME NEW i \in 1 .. N PROVE f[i] = DecodesAt(f, input, refused, i)
  <2>1. f[i] = IF i \in ends THEN val[i] ELSE step[i][f[nxt[i]]]
    BY <1>7, Zenon DEF IsDown
  <2>2. CASE i \in ends
    <3>1. f[i] = EndValue(input, i) /\ EndsAt(input, refused, i)
      BY <2>1, <2>2, Zenon
    <3> QED
      BY <3>1, Zenon DEF DecodesAt
  <2>3. CASE i \notin ends
    <3>1. ~EndsAt(input, refused, i)
      BY <2>3, Zenon
    <3>2. nxt[i] = NextAt(input, i) /\ nxt[i] \in i + 1 .. N
      BY <1>4, <2>3, Zenon
    <3>3. nxt[i] \in 1 .. N
      <4> HIDE DEF nxt, N
      <4> QED
        BY <1>1, <3>2
    <3>4. f[nxt[i]] \in V
      <4> HIDE DEF nxt, N, V
      <4> QED
        BY <1>7, <3>3
    <3>5. step[i][f[nxt[i]]] = <<DecodedChar(input, i)>> \o f[nxt[i]]
      <4> HIDE DEF nxt, N, V
      <4> QED
        BY <3>4, Zenon
    <3>6. f[i] = step[i][f[nxt[i]]]
      BY <2>1, <2>3, Zenon
    <3>7. f[i] = <<DecodedChar(input, i)>> \o f[NextAt(input, i)]
      <4> HIDE DEF nxt, N, V, step
      <4> QED
        BY <3>2, <3>5, <3>6, Zenon
    <3> QED
      BY <3>1, <3>7, Zenon DEF DecodesAt
  <2> QED
    BY <2>2, <2>3, Zenon
<1>9. f = [i \in 1 .. N |-> DecodesAt(f, input, refused, i)]
  <2>1. f = [i \in 1 .. N |-> f[i]]
    BY <1>7, Zenon
  <2> HIDE DEF N
  <2> QED
    BY <1>8, <2>1, Zenon
<1> QED
  BY <1>9, DecodedIs, Zenon

\* DecodeBut unfolds: the values are texts, one for every place.
LEMMA DecodeUnfolds ==
    ASSUME NEW S, NEW input \in Seq(S), NEW refused
    PROVE  \E Out, f : /\ f[1] = DecodeBut(input, refused)
                       /\ \A i \in 1 .. Len(input) + 1 :
                             f[i] = DecodesAt(f, input, refused, i) /\ f[i] \in Seq(Out)
<1> DEFINE N == Len(input) + 1
           Out == {DecodedChar(input, i) : i \in 1 .. N} \cup {"throws"}
           f == CHOOSE g : IsDecoded(g, input, refused)
           T == {i \in 1 .. N : f[i] \in Seq(Out)}
<1>1. N \in Nat
  BY LenProperties
<1>2. f = [i \in 1 .. N |-> DecodesAt(f, input, refused, i)]
  <2>1. IsDecoded(f, input, refused)
    BY DecodedExists, Zenon
  <2> QED
    BY <2>1, DecodedIs, Zenon
<1>3. DecodeBut(input, refused) = f[1]
  BY DecodeIs, Zenon
<1> HIDE DEF f
<1>4. \A i \in 1 .. N : f[i] = DecodesAt(f, input, refused, i)
  <2> HIDE DEF N
  <2> QED
    BY <1>2, Zenon
<1>5. ASSUME NEW j \in 1 .. N, \A k \in j + 1 .. N : k \in T PROVE j \in T
  <2>1. f[j] = DecodesAt(f, input, refused, j)
    BY <1>4, Zenon
  <2>2. CASE EndsAt(input, refused, j)
    <3>1. f[j] = EndValue(input, j)
      BY <2>1, <2>2, Zenon DEF DecodesAt
    <3>2. <<>> \in Seq(Out) /\ <<"throws">> \in Seq(Out)
      <4>1. "throws" \in Out
        BY Zenon
      <4> HIDE DEF Out
      <4> QED
        BY <4>1, EmptySeq
    <3>3. f[j] \in Seq(Out)
      BY <3>1, <3>2, Zenon DEF EndValue
    <3> QED
      BY <3>3, Zenon
  <2>3. CASE ~EndsAt(input, refused, j)
    <3>1. NextAt(input, j) \in j + 1 .. N
      BY <2>3, NextPlace
    <3>2. f[NextAt(input, j)] \in Seq(Out)
      BY <1>5, <3>1, Zenon
    <3>3. f[j] = <<DecodedChar(input, j)>> \o f[NextAt(input, j)]
      BY <2>1, <2>3, Zenon DEF DecodesAt
    <3>4. DecodedChar(input, j) \in Out
      BY Zenon
    <3> HIDE DEF Out
    <3>5. <<DecodedChar(input, j)>> \in Seq(Out)
      BY <3>4
    <3>6. <<DecodedChar(input, j)>> \o f[NextAt(input, j)] \in Seq(Out)
      BY <3>2, <3>5, ConcatProperties
    <3>7. f[j] \in Seq(Out)
      BY <3>3, <3>6, Zenon
    <3> QED
      BY <3>7, Zenon
  <2> QED
    BY <2>2, <2>3, Zenon
<1> HIDE DEF T
<1>6. \A j \in 1 .. N : j \in T
  <2> HIDE DEF N
  <2> QED
    BY <1>1, <1>5, DownTo
<1>7. \A i \in 1 .. N : f[i] \in Seq(Out)
  BY <1>6, Zenon DEF T
<1> QED
  BY <1>3, <1>4, <1>7, Zenon

\* What is decoded is a text.
LEMMA DecodeType ==
    ASSUME NEW S, NEW input \in Seq(S), NEW refused
    PROVE  \E Out : DecodeBut(input, refused) \in Seq(Out)
<1>1. PICK Out, f : /\ f[1] = DecodeBut(input, refused)
                    /\ \A i \in 1 .. Len(input) + 1 :
                          f[i] = DecodesAt(f, input, refused, i) /\ f[i] \in Seq(Out)
  BY DecodeUnfolds
<1>2. 1 \in 1 .. Len(input) + 1
  BY LenProperties
<1> QED
  BY <1>1, <1>2, Zenon

\* Behind other characters decoding does the same.
LEMMA SameBehind ==
    ASSUME NEW S, NEW u \in Seq(S), NEW s \in Seq(S), NEW refused, NEW i \in 1 .. Len(s) + 1
    PROVE  LET k == Len(u)
               joined == u \o s IN
           /\ EndsAt(joined, refused, k + i) <=> EndsAt(s, refused, i)
           /\ EndValue(joined, k + i) = EndValue(s, i)
           /\ ~EndsAt(s, refused, i) =>
                /\ DecodedChar(joined, k + i) = DecodedChar(s, i)
                /\ NextAt(joined, k + i) = k + NextAt(s, i)
<1> DEFINE k == Len(u)
           n == Len(s)
           joined == u \o s
<1>1. /\ joined \in Seq(S) /\ k \in Nat /\ n \in Nat /\ Len(joined) = k + n
      /\ \A j \in 1 .. k + n : joined[j] = IF j <= k THEN u[j] ELSE s[j - k]
  BY ConcatProperties, LenProperties
<1> HIDE DEF joined
<1>2. \A j \in 1 .. n : joined[k + j] = s[j]
  <2> SUFFICES ASSUME NEW j \in 1 .. n PROVE joined[k + j] = s[j]
    OBVIOUS
  <2> HIDE DEF k, n
  <2>1. k + j \in 1 .. k + n /\ ~(k + j <= k) /\ (k + j) - k = j
    BY <1>1
  <2> QED
    BY <1>1, <2>1, Zenon
<1>3. i \in 1 .. n + 1
  OBVIOUS
<1> HIDE DEF k, n
<1>4. (k + i = Len(joined) + 1) <=> (i = n + 1)
  BY <1>1, <1>3
<1>5. EndValue(joined, k + i) = EndValue(s, i)
  BY <1>4, Zenon DEF EndValue, n
<1>6. CASE i = n + 1
  <2>1. EndsAt(joined, refused, k + i) /\ EndsAt(s, refused, i)
    BY <1>4, <1>6, Zenon DEF EndsAt, n
  <2> QED
    BY <1>5, <2>1, Zenon DEF k, joined
<1>7. CASE i # n + 1
  <2>1. i \in 1 .. n
    BY <1>1, <1>3, <1>7
  <2>2. joined[k + i] = s[i]
    BY <1>2, <2>1, Zenon
  <2>3. (k + i + 2 > Len(joined)) <=> (i + 2 > n)
    BY <1>1, <2>1
  <2>4. ASSUME ~(i + 2 > n)
        PROVE  joined[k + i + 1] = s[i + 1] /\ joined[k + i + 2] = s[i + 2]
    <3>1. i + 1 \in 1 .. n /\ i + 2 \in 1 .. n /\ k + i + 1 = k + (i + 1) /\ k + i + 2 = k + (i + 2)
      BY <1>1, <2>1, <2>4
    <3>2. joined[k + (i + 1)] = s[i + 1] /\ joined[k + (i + 2)] = s[i + 2]
      BY <1>2, <3>1, Zenon
    <3> QED
      BY <3>1, <3>2, Zenon
  <2>5. CutAt(joined, k + i) <=> CutAt(s, i)
    <3>1. CASE i + 2 > n
      BY <2>3, <3>1, Zenon DEF CutAt, n
    <3>2. CASE ~(i + 2 > n)
      BY <2>3, <2>4, <3>2, Zenon DEF CutAt, n
    <3> QED
      BY <3>1, <3>2, Zenon
  <2>6. ~CutAt(s, i) => EscapedAt(joined, k + i) = EscapedAt(s, i)
    <3>1. ~CutAt(s, i) => ~(i + 2 > n)
      BY Zenon DEF CutAt, n
    <3> QED
      BY <2>4, <3>1, Zenon DEF EscapedAt
  <2>7. EndsAt(joined, refused, k + i) <=> EndsAt(s, refused, i)
    BY <1>4, <1>7, <2>2, <2>5, <2>6, Zenon DEF EndsAt, n
  <2>8. ASSUME ~EndsAt(s, refused, i) PROVE DecodedChar(joined, k + i) = DecodedChar(s, i)
    <3>1. IsEscape(s[i]) => ~CutAt(s, i)
      BY <2>8, Zenon DEF EndsAt
    <3> QED
      BY <2>2, <2>6, <3>1, Zenon DEF DecodedChar
  <2>9. NextAt(joined, k + i) = k + NextAt(s, i)
    <3>1. (k + i) + 1 = k + (i + 1) /\ (k + i) + 3 = k + (i + 3)
      BY <1>1, <2>1
    <3>2. CASE IsEscape(s[i])
      BY <2>2, <3>1, <3>2, Zenon DEF NextAt
    <3>3. CASE ~IsEscape(s[i])
      BY <2>2, <3>1, <3>3, Zenon DEF NextAt
    <3> QED
      BY <3>2, <3>3, Zenon
  <2> QED
    BY <1>5, <2>7, <2>8, <2>9, Zenon DEF k, joined
<1> QED
  BY <1>6, <1>7, Zenon

\* A text is decoded from behind another one as it is decoded alone.
LEMMA DecodeShift ==
    ASSUME NEW S, NEW u \in Seq(S), NEW s \in Seq(S), NEW refused,
           NEW f, \A i \in 1 .. Len(u \o s) + 1 : f[i] = DecodesAt(f, u \o s, refused, i)
    PROVE  f[Len(u) + 1] = DecodeBut(s, refused)
<1> DEFINE k == Len(u)
           n == Len(s)
           joined == u \o s
           N == n + 1
<1>1. k \in Nat /\ n \in Nat /\ Len(joined) = k + n
  BY ConcatProperties, LenProperties
<1>2. PICK Out, g : /\ g[1] = DecodeBut(s, refused)
                    /\ \A i \in 1 .. Len(s) + 1 :
                          g[i] = DecodesAt(g, s, refused, i) /\ g[i] \in Seq(Out)
  BY DecodeUnfolds
<1> DEFINE T == {i \in 1 .. N : f[k + i] = g[i]}
<1> HIDE DEF joined
<1>3. ASSUME NEW j \in 1 .. N, \A i \in j + 1 .. N : i \in T PROVE j \in T
  <2>1. k + j \in 1 .. Len(joined) + 1
    BY <1>1
  <2>2. f[k + j] = DecodesAt(f, joined, refused, k + j)
    BY <2>1, Zenon DEF joined
  <2>3. g[j] = DecodesAt(g, s, refused, j)
    BY <1>2, Zenon
  <2>4. /\ EndsAt(joined, refused, k + j) <=> EndsAt(s, refused, j)
        /\ EndValue(joined, k + j) = EndValue(s, j)
        /\ ~EndsAt(s, refused, j) =>
              /\ DecodedChar(joined, k + j) = DecodedChar(s, j)
              /\ NextAt(joined, k + j) = k + NextAt(s, j)
    BY SameBehind, Zenon DEF joined
  <2>5. CASE EndsAt(s, refused, j)
    <3>1. f[k + j] = g[j]
      BY <2>2, <2>3, <2>4, <2>5, Zenon DEF DecodesAt
    <3> QED
      BY <3>1, Zenon
  <2>6. CASE ~EndsAt(s, refused, j)
    <3>1. NextAt(s, j) \in j + 1 .. N
      BY <2>6, NextPlace
    <3>2. f[k + NextAt(s, j)] = g[NextAt(s, j)]
      BY <1>3, <3>1, Zenon
    <3>3. f[k + j] = <<DecodedChar(s, j)>> \o f[k + NextAt(s, j)]
      BY <2>2, <2>4, <2>6, Zenon DEF DecodesAt
    <3>4. g[j] = <<DecodedChar(s, j)>> \o g[NextAt(s, j)]
      BY <2>3, <2>6, Zenon DEF DecodesAt
    <3>5. f[k + j] = g[j]
      BY <3>2, <3>3, <3>4, Zenon
    <3> QED
      BY <3>5, Zenon
  <2> QED
    BY <2>5, <2>6, Zenon
<1> HIDE DEF T
<1>4. N \in Nat /\ 1 \in 1 .. N
  BY <1>1
<1>5. \A j \in 1 .. N : j \in T
  <2> HIDE DEF N
  <2> QED
    BY <1>3, <1>4, DownTo
<1>6. f[k + 1] = g[1]
  BY <1>4, <1>5, Zenon DEF T
<1> QED
  BY <1>2, <1>6, Zenon

\* Nothing is decoded to nothing.
LEMMA DecodeNil ==
    ASSUME NEW refused
    PROVE  DecodeBut(<<>>, refused) = <<>>
<1> DEFINE input == <<>>
<1>1. input \in Seq({0}) /\ Len(input) = 0 /\ 1 = Len(input) + 1 /\ 1 \in 1 .. Len(input) + 1
  OBVIOUS
<1> HIDE DEF input
<1>2. PICK Out, f : /\ f[1] = DecodeBut(input, refused)
                    /\ \A i \in 1 .. Len(input) + 1 :
                          f[i] = DecodesAt(f, input, refused, i) /\ f[i] \in Seq(Out)
  BY <1>1, DecodeUnfolds
<1>3. f[1] = DecodesAt(f, input, refused, 1)
  BY <1>1, <1>2, Zenon
<1>4. DecodesAt(f, input, refused, 1) = <<>>
  BY <1>1, Zenon DEF DecodesAt, EndsAt, EndValue
<1>5. DecodeBut(input, refused) = <<>>
  BY <1>2, <1>3, <1>4, Zenon
<1> QED
  BY <1>5 DEF input

\* A character that begins no escape is decoded to itself.
LEMMA DecodePlain ==
    ASSUME NEW S, NEW c \in S, ~IsEscape(c), NEW s \in Seq(S), NEW refused
    PROVE  DecodeBut(<<c>> \o s, refused) = <<c>> \o DecodeBut(s, refused)
<1> DEFINE u == <<c>>
           input == u \o s
<1>1. u \in Seq(S) /\ Len(u) = 1 /\ u[1] = c
  OBVIOUS
<1> HIDE DEF u
<1>2. /\ input \in Seq(S) /\ Len(input) = 1 + Len(s) /\ Len(s) \in Nat
      /\ \A j \in 1 .. 1 + Len(s) : input[j] = IF j <= 1 THEN u[j] ELSE s[j - 1]
  <2>1. /\ u \o s \in Seq(S) /\ Len(u \o s) = Len(u) + Len(s) /\ Len(s) \in Nat
        /\ \A j \in 1 .. Len(u) + Len(s) : (u \o s)[j] = IF j <= Len(u) THEN u[j] ELSE s[j - Len(u)]
    BY <1>1, ConcatProperties, LenProperties
  <2> QED
    BY <1>1, <2>1, Zenon
<1> HIDE DEF input
<1>3. PICK Out, f : /\ f[1] = DecodeBut(input, refused)
                    /\ \A i \in 1 .. Len(input) + 1 :
                          f[i] = DecodesAt(f, input, refused, i) /\ f[i] \in Seq(Out)
  BY <1>2, DecodeUnfolds, ZenonT(60)
<1>4. 1 \in 1 .. Len(input) + 1 /\ 1 # Len(input) + 1 /\ 1 \in 1 .. 1 + Len(s) /\ 1 <= 1 /\ 1 + 1 = 2
  BY <1>2
<1>5. input[1] = c
  BY <1>1, <1>2, <1>4, Zenon
<1>6. ~EndsAt(input, refused, 1) /\ DecodedChar(input, 1) = c /\ NextAt(input, 1) = 2
  BY <1>4, <1>5, Zenon DEF EndsAt, DecodedChar, NextAt
<1>7. f[1] = <<c>> \o f[2]
  <2>1. f[1] = DecodesAt(f, input, refused, 1)
    BY <1>3, <1>4, Zenon
  <2> QED
    BY <1>6, <2>1, Zenon DEF DecodesAt
<1>8. f[Len(u) + 1] = DecodeBut(s, refused)
  <2>1. \A i \in 1 .. Len(u \o s) + 1 : f[i] = DecodesAt(f, u \o s, refused, i)
    BY <1>3, Zenon DEF input
  <2> QED
    BY <1>1, <2>1, DecodeShift, ZenonT(60)
<1>9. f[2] = DecodeBut(s, refused)
  BY <1>1, <1>4, <1>8, Zenon
<1>10. DecodeBut(input, refused) = <<c>> \o DecodeBut(s, refused)
  BY <1>3, <1>7, <1>9, Zenon
<1> QED
  BY <1>10, Zenon DEF input, u

\* Two digits that are the code of a character.
AreCodeOf(x, y, c) ==
    /\ x \in DOMAIN from_hex /\ y \in DOMAIN from_hex
    /\ c = CharacterOf(16 * from_hex[x] + from_hex[y])

\* An escape is decoded to the character with its code.
LEMMA DecodeEscape ==
    ASSUME NEW S, NEW u \in Seq(S), Len(u) = 3, IsEscape(u[1]),
           NEW v, AreCodeOf(u[2], u[3], v), NEW s \in Seq(S), NEW refused, v \notin refused
    PROVE  DecodeBut(u \o s, refused) = <<v>> \o DecodeBut(s, refused)
<1> DEFINE e == u[1]
           x == u[2]
           y == u[3]
           input == u \o s
<1>1. u \in Seq(S) /\ Len(u) = 3 /\ u[1] = e /\ u[2] = x /\ u[3] = y
  OBVIOUS
<1>0. IsEscape(e) /\ AreCodeOf(x, y, v)
  OBVIOUS
<1> HIDE DEF e, x, y
<1>2. /\ input \in Seq(S) /\ Len(input) = 3 + Len(s) /\ Len(s) \in Nat
      /\ \A j \in 1 .. 3 + Len(s) : input[j] = IF j <= 3 THEN u[j] ELSE s[j - 3]
  <2>1. /\ u \o s \in Seq(S) /\ Len(u \o s) = Len(u) + Len(s) /\ Len(s) \in Nat
        /\ \A j \in 1 .. Len(u) + Len(s) : (u \o s)[j] = IF j <= Len(u) THEN u[j] ELSE s[j - Len(u)]
    BY <1>1, ConcatProperties, LenProperties
  <2> QED
    BY <1>1, <2>1, Zenon
<1> HIDE DEF input
<1>3. PICK Out, f : /\ f[1] = DecodeBut(input, refused)
                    /\ \A i \in 1 .. Len(input) + 1 :
                          f[i] = DecodesAt(f, input, refused, i) /\ f[i] \in Seq(Out)
  <2>1. ASSUME NEW w \in Seq(S)
        PROVE  \E Out, f : /\ f[1] = DecodeBut(w, refused)
                           /\ \A i \in 1 .. Len(w) + 1 :
                                 f[i] = DecodesAt(f, w, refused, i) /\ f[i] \in Seq(Out)
    BY DecodeUnfolds, Zenon
  <2> QED
    BY <1>2, <2>1, Zenon
<1>4. /\ 1 \in 1 .. Len(input) + 1 /\ 1 # Len(input) + 1
      /\ 1 \in 1 .. 3 + Len(s) /\ 2 \in 1 .. 3 + Len(s) /\ 3 \in 1 .. 3 + Len(s)
      /\ 1 <= 3 /\ 2 <= 3 /\ 3 <= 3 /\ 1 + 1 = 2 /\ 1 + 2 = 3 /\ 1 + 3 = 4 /\ 3 + 1 = 4
      /\ ~(3 > Len(input))
  BY <1>2
<1>5. input[1] = e /\ input[2] = x /\ input[3] = y
  BY <1>1, <1>2, <1>4, Zenon
<1>6. ~CutAt(input, 1)
  <2>1. {input[1 + 1], input[1 + 2]} \subseteq DOMAIN from_hex
    BY <1>0, <1>4, <1>5, Zenon DEF AreCodeOf
  <2>2. ~(1 + 2 > Len(input))
    BY <1>4, Zenon
  <2> QED
    BY <2>1, <2>2, Zenon DEF CutAt
<1>7. EscapedAt(input, 1) = v
  BY <1>0, <1>4, <1>5, Zenon DEF EscapedAt, AreCodeOf
<1>8. ~EndsAt(input, refused, 1) /\ DecodedChar(input, 1) = v /\ NextAt(input, 1) = 4
  BY <1>0, <1>4, <1>5, <1>6, <1>7, Zenon DEF EndsAt, DecodedChar, NextAt
<1>9. f[1] = <<v>> \o f[4]
  <2>1. f[1] = DecodesAt(f, input, refused, 1)
    BY <1>3, <1>4, Zenon
  <2> QED
    BY <1>8, <2>1, Zenon DEF DecodesAt
<1>10. f[Len(u) + 1] = DecodeBut(s, refused)
  <2>1. \A i \in 1 .. Len(u \o s) + 1 : f[i] = DecodesAt(f, u \o s, refused, i)
    BY <1>3, Zenon DEF input
  <2> QED
    BY <1>1, <2>1, DecodeShift, ZenonT(60)
<1>11. f[4] = DecodeBut(s, refused)
  BY <1>1, <1>4, <1>10, Zenon
<1>12. DecodeBut(input, refused) = <<v>> \o DecodeBut(s, refused)
  BY <1>3, <1>9, <1>11, Zenon
<1> QED
  BY <1>12, Zenon DEF input

-----------------------------------------------------------------------------
(***************************************************************************)
(* A text that is written in pieces, one for each character, is read again *)
(* when every piece is.                                                    *)
(***************************************************************************)
CodedBy(p, t) == FlattenSeq([i \in DOMAIN t |-> p[t[i]]])

\* The pieces of the characters are texts.
AreTexts(p, C, S) == p \in [C -> Seq(S)]

\* What is read from a piece, whatever follows it.
ReadsBack(piece, c, refused, S) ==
    \A s \in Seq(S) : DecodeBut(piece \o s, refused) = <<c>> \o DecodeBut(s, refused)

\* Every piece is read.
AllReadBack(p, C, refused, S) == \A c \in C : ReadsBack(p[c], c, refused, S)

\* One more character is one more piece, and what is written is read again.
PieceAdded(p, t, c) == CodedBy(p, Append(t, c)) = CodedBy(p, t) \o p[c]
IsUndone(p, t, refused) == DecodeBut(CodedBy(p, t), refused) = t

\* A sequence of some values is one of more.
LEMMA SeqInUnion ==
    ASSUME NEW A, NEW B, NEW s \in Seq(A)
    PROVE  s \in Seq(A \cup B) /\ s \in Seq(B \cup A)
<1>1. \A i \in 1 .. Len(s) : s[i] \in A
  BY ElementOfSeq
<1> QED
  BY <1>1

\* Concatenation is associative, for sequences of different values as well.
LEMMA ConcatAny ==
    ASSUME NEW A, NEW s \in Seq(A), NEW t \in Seq(A), NEW B, NEW u \in Seq(B)
    PROVE  (s \o t) \o u = s \o (t \o u)
<1>1. s \in Seq(A \cup B) /\ t \in Seq(A \cup B) /\ u \in Seq(A \cup B)
  BY SeqInUnion
<1> QED
  BY <1>1, ConcatAssociative

\* What is written in pieces is a text, and grows piece by piece.
LEMMA CodedAppend ==
    ASSUME NEW S, NEW C, NEW p, AreTexts(p, C, S), NEW t \in Seq(C), NEW c \in C
    PROVE  CodedBy(p, t) \in Seq(S) /\ PieceAdded(p, t, c)
<1> DEFINE n == Len(t)
           more == Append(t, c)
           pieces == [i \in DOMAIN t |-> p[t[i]]]
           others == [i \in DOMAIN more |-> p[more[i]]]
<1>0. p \in [C -> Seq(S)]
  BY Zenon DEF AreTexts
<1>1. /\ n \in Nat /\ DOMAIN t = 1 .. n /\ more \in Seq(C) /\ DOMAIN more = 1 .. n + 1
      /\ more[n + 1] = c /\ \A i \in 1 .. n : more[i] = t[i] /\ t[i] \in C
  BY AppendProperties, LenProperties, ElementOfSeq
<1>2. pieces = [i \in 1 .. n |-> p[t[i]]] /\ others = [i \in 1 .. n + 1 |-> p[more[i]]]
  BY <1>1, Zenon
<1>3. pieces \in Seq(Seq(S)) /\ Len(pieces) = n
  <2>1. \A i \in 1 .. n : p[t[i]] \in Seq(S)
    BY <1>0, <1>1
  <2>2. pieces \in [1 .. n -> Seq(S)]
    BY <1>2, <2>1, Zenon
  <2> HIDE DEF n, more, pieces
  <2> QED
    BY <1>1, <2>2
<1>4. p[c] \in Seq(S)
  BY <1>0
<1>5. others = Append(pieces, p[c])
  <2> DEFINE right == Append(pieces, p[c])
  <2>1. /\ right \in Seq(Seq(S)) /\ Len(right) = n + 1 /\ right[n + 1] = p[c]
        /\ \A i \in 1 .. n : right[i] = pieces[i]
    BY <1>3, <1>4, AppendProperties
  <2>2. others \in Seq(Seq(S)) /\ Len(others) = n + 1
    <3>1. \A i \in 1 .. n + 1 : more[i] \in C
      BY <1>1
    <3>2. \A i \in 1 .. n + 1 : p[more[i]] \in Seq(S)
      BY <1>0, <3>1
    <3> HIDE DEF n, more, others
    <3> QED
      BY <1>1, <1>2, <3>2
  <2>3. ASSUME NEW i \in 1 .. n + 1 PROVE others[i] = right[i]
    <3>1. i \in 1 .. n \/ i = n + 1
      BY <1>1
    <3>2. others[i] = p[more[i]]
      BY <1>2, Zenon
    <3>3. i \in 1 .. n => pieces[i] = p[t[i]]
      BY <1>2, Zenon
    <3> HIDE DEF others, right, more, pieces
    <3> QED
      BY <1>1, <2>1, <3>1, <3>2, <3>3, Zenon
  <2> HIDE DEF others, right, n
  <2>4. others = right
    BY <2>1, <2>2, <2>3, SeqEqual
  <2> QED
    BY <2>4, Zenon DEF right
<1> HIDE DEF pieces, others, more
<1>6. FlattenSeq(others) = FlattenSeq(pieces) \o p[c] /\ FlattenSeq(pieces) \in Seq(S)
  BY <1>3, <1>4, <1>5, FlattenSeqAppend, FlattenSeqType
<1> QED
  BY <1>6, Zenon DEF PieceAdded, CodedBy, pieces, others, more

\* What every piece is decoded to, the whole text is.
LEMMA PiecesDecoded ==
    ASSUME NEW S, NEW C, NEW p, AreTexts(p, C, S), NEW refused,
           AllReadBack(p, C, refused, S),
           NEW t \in Seq(C)
    PROVE  CodedBy(p, t) \in Seq(S) /\ IsUndone(p, t, refused)
<1> DEFINE Undone(w) == \A s \in Seq(S) :
                          DecodeBut(CodedBy(p, w) \o s, refused) = w \o DecodeBut(s, refused)
           T == {w \in Seq(C) : CodedBy(p, w) \in Seq(S) /\ Undone(w)}
<1>1. <<>> \in T
  <2>1. CodedBy(p, <<>>) = <<>>
    <3>1. [i \in DOMAIN <<>> |-> p[<<>>[i]]] = <<>>
      OBVIOUS
    <3> QED
      BY <3>1, FlattenSeqNil, Zenon DEF CodedBy
  <2>2. <<>> \in Seq(C) /\ <<>> \in Seq(S)
    BY EmptySeq
  <2>3. ASSUME NEW s \in Seq(S) PROVE DecodeBut(CodedBy(p, <<>>) \o s, refused) = <<>> \o DecodeBut(s, refused)
    <3>1. PICK Out : DecodeBut(s, refused) \in Seq(Out)
      BY DecodeType
    <3>2. <<>> \o s = s /\ <<>> \o DecodeBut(s, refused) = DecodeBut(s, refused)
      BY <3>1, ConcatEmptySeq
    <3> QED
      BY <2>1, <3>2, Zenon
  <2>4. Undone(<<>>)
    BY <2>3, Zenon
  <2> HIDE DEF Undone
  <2> QED
    BY <2>1, <2>2, <2>4, Zenon
<1>2. ASSUME NEW w \in Seq(C), NEW c \in C, w \in T PROVE Append(w, c) \in T
  <2>1. CodedBy(p, w) \in Seq(S) /\ CodedBy(p, Append(w, c)) = CodedBy(p, w) \o p[c] /\ p[c] \in Seq(S)
    <3>1. CodedBy(p, w) \in Seq(S) /\ CodedBy(p, Append(w, c)) = CodedBy(p, w) \o p[c]
      <4>1. CodedBy(p, w) \in Seq(S) /\ PieceAdded(p, w, c)
        BY CodedAppend, Zenon
      <4> QED
        BY <4>1, Zenon DEF PieceAdded
    <3>2. p[c] \in Seq(S)
      BY DEF AreTexts
    <3> QED
      BY <3>1, <3>2
  <2>2. Undone(w)
    BY <1>2, Zenon
  <2>3. Append(w, c) \in Seq(C) /\ Append(w, c) = w \o <<c>> /\ <<c>> \in Seq(C)
    BY MoreNames
  <2>4. CodedBy(p, Append(w, c)) \in Seq(S)
    BY <2>1, ConcatProperties
  <2>5. ASSUME NEW s \in Seq(S)
        PROVE  DecodeBut(CodedBy(p, Append(w, c)) \o s, refused) = Append(w, c) \o DecodeBut(s, refused)
    <3>1. (CodedBy(p, w) \o p[c]) \o s = CodedBy(p, w) \o (p[c] \o s) /\ p[c] \o s \in Seq(S)
      <4>1. ASSUME NEW a \in Seq(S), NEW b \in Seq(S) PROVE (a \o b) \o s = a \o (b \o s) /\ b \o s \in Seq(S)
        BY ConcatAny, ConcatProperties, SMTT(40)
      <4> QED
        BY <2>1, <4>1, Zenon
    <3>2. DecodeBut(CodedBy(p, w) \o (p[c] \o s), refused) = w \o DecodeBut(p[c] \o s, refused)
      BY <2>2, <3>1, Zenon
    <3>3. DecodeBut(p[c] \o s, refused) = <<c>> \o DecodeBut(s, refused)
      BY Zenon DEF ReadsBack, AllReadBack
    <3>4. PICK Out : DecodeBut(s, refused) \in Seq(Out)
      BY DecodeType
    <3>5. (w \o <<c>>) \o DecodeBut(s, refused) = w \o (<<c>> \o DecodeBut(s, refused))
      BY <2>3, <3>4, ConcatAny
    <3> QED
      BY <2>1, <2>3, <3>1, <3>2, <3>3, <3>5, Zenon
  <2>6. Undone(Append(w, c))
    BY <2>5, Zenon
  <2> HIDE DEF Undone
  <2> QED
    BY <2>3, <2>4, <2>6, Zenon
<1> HIDE DEF T
<1>3. t \in T
  <2>1. Seq(C) \subseteq T
    BY <1>1, <1>2, SequencesUpTo
  <2> QED
    BY <2>1, Zenon
<1>4. CodedBy(p, t) \in Seq(S) /\ Undone(t)
  BY <1>3, Zenon DEF T
<1>5. DecodeBut(CodedBy(p, t) \o <<>>, refused) = t \o DecodeBut(<<>>, refused)
  <2>1. <<>> \in Seq(S)
    BY EmptySeq
  <2> QED
    BY <1>4, <2>1, Zenon
<1>6. CodedBy(p, t) \o <<>> = CodedBy(p, t) /\ t \o <<>> = t
  BY <1>4, ConcatEmptySeq
<1> QED
  BY <1>4, <1>5, <1>6, DecodeNil, Zenon DEF IsUndone

-----------------------------------------------------------------------------
(***************************************************************************)
(* The characters that are escaped.                                        *)
(***************************************************************************)
Escapable == {" ", "%", SEPARATOR}
Written == CodedChars \cup {"5"}

\* The codes of the characters.
LEMMA CodeValues ==
    /\ DOMAIN Codes = CodedChars
    /\ Codes[" "] = 32 /\ Codes["%"] = 37 /\ Codes["/"] = 47 /\ Codes["."] = 46
    /\ Codes["0"] = 48 /\ Codes["2"] = 50 /\ Codes["F"] = 70 /\ Codes["a"] = 97
<1>1. DOMAIN Codes = CodedChars
  BY Zenon DEF Codes
<1>2. Codes[" "] = 32
  BY Zenon DEF Codes, CodedChars
<1>3. Codes["%"] = 37
  BY Zenon DEF Codes, CodedChars
<1>4. Codes["/"] = 47
  BY Zenon DEF Codes, CodedChars
<1>5. Codes["."] = 46
  BY Zenon DEF Codes, CodedChars
<1>6. Codes["0"] = 48
  BY Zenon DEF Codes, CodedChars
<1>7. Codes["2"] = 50
  BY Zenon DEF Codes, CodedChars
<1>8. Codes["F"] = 70
  BY Zenon DEF Codes, CodedChars
<1>9. Codes["a"] = 97
  BY Zenon DEF Codes, CodedChars
<1> QED
  BY <1>1, <1>2, <1>3, <1>4, <1>5, <1>6, <1>7, <1>8, <1>9, Zenon

\* The characters that are escaped come back from their codes.
LEMMA CharactersOfCodes ==
    CharacterOf(32) = " " /\ CharacterOf(37) = "%" /\ CharacterOf(47) = "/"
<1>1. ASSUME NEW c \in DOMAIN Codes
      PROVE  \/ c = " " /\ Codes[c] = 32
             \/ c = "%" /\ Codes[c] = 37
             \/ c = "/" /\ Codes[c] = 47
             \/ Codes[c] \in {46, 48, 50, 70, 97}
  <2>1. c \in CodedChars
    BY CodeValues, Zenon
  <2>2. c = " " \/ c = "%" \/ c = "/" \/ c = "." \/ c = "0" \/ c = "2" \/ c = "F" \/ c = "a"
    BY <2>1, Zenon DEF CodedChars
  <2>3. c = " " => Codes[c] = 32
    BY CodeValues, Zenon
  <2>4. c = "%" => Codes[c] = 37
    BY CodeValues, Zenon
  <2>5. c = "/" => Codes[c] = 47
    BY CodeValues, Zenon
  <2>6. c = "." => Codes[c] = 46
    BY CodeValues, Zenon
  <2>7. c = "0" => Codes[c] = 48
    BY CodeValues, Zenon
  <2>8. c = "2" => Codes[c] = 50
    BY CodeValues, Zenon
  <2>9. c = "F" => Codes[c] = 70
    BY CodeValues, Zenon
  <2>10. c = "a" => Codes[c] = 97
    BY CodeValues, Zenon
  <2> QED
    BY <2>2, <2>3, <2>4, <2>5, <2>6, <2>7, <2>8, <2>9, <2>10, ZenonT(60)
<1>2. ASSUME NEW c \in DOMAIN Codes, Codes[c] = 32 PROVE c = " "
  <2>1. 32 # 37 /\ 32 # 47 /\ 32 \notin {46, 48, 50, 70, 97}
    OBVIOUS
  <2> QED
    BY <1>1, <1>2, <2>1, Zenon
<1>3. ASSUME NEW c \in DOMAIN Codes, Codes[c] = 37 PROVE c = "%"
  <2>1. 37 # 32 /\ 37 # 47 /\ 37 \notin {46, 48, 50, 70, 97}
    OBVIOUS
  <2> QED
    BY <1>1, <1>3, <2>1, Zenon
<1>4. ASSUME NEW c \in DOMAIN Codes, Codes[c] = 47 PROVE c = "/"
  <2>1. 47 # 32 /\ 47 # 37 /\ 47 \notin {46, 48, 50, 70, 97}
    OBVIOUS
  <2> QED
    BY <1>1, <1>4, <2>1, Zenon
<1>5. " " \in DOMAIN Codes /\ "%" \in DOMAIN Codes /\ "/" \in DOMAIN Codes
  BY CodeValues, Zenon DEF CodedChars
<1>6. CharacterOf(32) = " "
  BY <1>2, <1>5, CodeValues, Zenon DEF CharacterOf
<1>7. CharacterOf(37) = "%"
  BY <1>3, <1>5, CodeValues, Zenon DEF CharacterOf
<1>8. CharacterOf(47) = "/"
  BY <1>4, <1>5, CodeValues, Zenon DEF CharacterOf
<1> QED
  BY <1>6, <1>7, <1>8, Zenon

\* The digits of the escapes.
LEMMA HexDigits ==
    /\ to_hex(0) = "0" /\ to_hex(2) = "2" /\ to_hex(5) = "5" /\ to_hex(15) = "F"
    /\ from_hex["0"] = 0 /\ from_hex["2"] = 2 /\ from_hex["5"] = 5 /\ from_hex["F"] = 15
    /\ DOMAIN from_hex = {"0", "2", "5", "F", "a"}
<1>1. to_hex(0) = "0" /\ to_hex(2) = "2" /\ to_hex(5) = "5" /\ to_hex(15) = "F"
  BY DEF to_hex
<1>2. DOMAIN from_hex = {"0", "2", "5", "F", "a"}
  BY Zenon DEF from_hex
<1>3. from_hex["0"] = 0
  BY Zenon DEF from_hex
<1>4. from_hex["2"] = 2
  BY Zenon DEF from_hex
<1>5. from_hex["5"] = 5
  BY Zenon DEF from_hex
<1>6. from_hex["F"] = 15
  BY Zenon DEF from_hex
<1> QED
  BY <1>1, <1>2, <1>3, <1>4, <1>5, <1>6, Zenon

\* An escape is the sign of one, and two digits that give the character back.
LEMMA EscapeOf ==
    ASSUME NEW c \in Escapable
    PROVE  \E e, x, y \in Written :
              /\ IsEscape(e) /\ e # SEPARATOR /\ x # SEPARATOR /\ y # SEPARATOR
              /\ Escaped(c) = <<e, x, y>> /\ AreCodeOf(x, y, c)
<1>1. /\ 32 \div 16 = 2 /\ 32 % 16 = 0 /\ 37 \div 16 = 2 /\ 37 % 16 = 5 /\ 47 \div 16 = 2 /\ 47 % 16 = 15
      /\ 16 * 2 + 0 = 32 /\ 16 * 2 + 5 = 37 /\ 16 * 2 + 15 = 47
  OBVIOUS
<1>2. /\ "%" \in Written /\ "2" \in Written /\ "0" \in Written /\ "5" \in Written /\ "F" \in Written
      /\ "%" # SEPARATOR /\ "2" # SEPARATOR /\ "0" # SEPARATOR /\ "5" # SEPARATOR /\ "F" # SEPARATOR
      /\ IsEscape("%")
  BY Zenon DEF Written, CodedChars, SEPARATOR, IsEscape
<1>3. CASE c = " "
  <2>1. Escaped(c) = <<"%", "2", "0">>
    <3>1. Codes[c] = 32
      BY <1>3, CodeValues, Zenon
    <3>2. Codes[c] \div 16 = 2 /\ Codes[c] % 16 = 0
      BY <1>1, <3>1, Zenon
    <3>3. to_hex(Codes[c] \div 16) = "2" /\ to_hex(Codes[c] % 16) = "0"
      BY <3>2, HexDigits, Zenon
    <3> QED
      BY <3>3, Zenon DEF Escaped
  <2>2. c = CharacterOf(16 * from_hex["2"] + from_hex["0"])
    <3>1. from_hex["2"] = 2 /\ from_hex["0"] = 0
      BY HexDigits, Zenon
    <3>2. 16 * from_hex["2"] + from_hex["0"] = 32
      BY <1>1, <3>1, Zenon
    <3>3. CharacterOf(32) = c
      BY <1>3, CharactersOfCodes, Zenon
    <3> QED
      BY <3>2, <3>3, Zenon
  <2>3. AreCodeOf("2", "0", c)
    BY <2>2, HexDigits, Zenon DEF AreCodeOf
  <2> QED
    BY <1>2, <2>1, <2>3, Zenon
<1>4. CASE c = "%"
  <2>1. Escaped(c) = <<"%", "2", "5">>
    <3>1. Codes[c] = 37
      BY <1>4, CodeValues, Zenon
    <3>2. Codes[c] \div 16 = 2 /\ Codes[c] % 16 = 5
      BY <1>1, <3>1, Zenon
    <3>3. to_hex(Codes[c] \div 16) = "2" /\ to_hex(Codes[c] % 16) = "5"
      BY <3>2, HexDigits, Zenon
    <3> QED
      BY <3>3, Zenon DEF Escaped
  <2>2. c = CharacterOf(16 * from_hex["2"] + from_hex["5"])
    <3>1. from_hex["2"] = 2 /\ from_hex["5"] = 5
      BY HexDigits, Zenon
    <3>2. 16 * from_hex["2"] + from_hex["5"] = 37
      BY <1>1, <3>1, Zenon
    <3>3. CharacterOf(37) = c
      BY <1>4, CharactersOfCodes, Zenon
    <3> QED
      BY <3>2, <3>3, Zenon
  <2>3. AreCodeOf("2", "5", c)
    BY <2>2, HexDigits, Zenon DEF AreCodeOf
  <2> QED
    BY <1>2, <2>1, <2>3, Zenon
<1>5. CASE c = "/"
  <2>1. Escaped(c) = <<"%", "2", "F">>
    <3>1. Codes[c] = 47
      BY <1>5, CodeValues, Zenon
    <3>2. Codes[c] \div 16 = 2 /\ Codes[c] % 16 = 15
      BY <1>1, <3>1, Zenon
    <3>3. to_hex(Codes[c] \div 16) = "2" /\ to_hex(Codes[c] % 16) = "F"
      BY <3>2, HexDigits, Zenon
    <3> QED
      BY <3>3, Zenon DEF Escaped
  <2>2. c = CharacterOf(16 * from_hex["2"] + from_hex["F"])
    <3>1. from_hex["2"] = 2 /\ from_hex["F"] = 15
      BY HexDigits, Zenon
    <3>2. 16 * from_hex["2"] + from_hex["F"] = 47
      BY <1>1, <3>1, Zenon
    <3>3. CharacterOf(47) = c
      BY <1>5, CharactersOfCodes, Zenon
    <3> QED
      BY <3>2, <3>3, Zenon
  <2>3. AreCodeOf("2", "F", c)
    BY <2>2, HexDigits, Zenon DEF AreCodeOf
  <2> QED
    BY <1>2, <2>1, <2>3, Zenon
<1> QED
  BY <1>3, <1>4, <1>5, Zenon DEF Escapable, SEPARATOR

\* What is written for one character, and what it is decoded to.
Piece(safe, c) == IF c \in safe THEN <<c>> ELSE Escaped(c)
IsSafe(safe) ==
    /\ \A c \in safe : c \in Written /\ ~IsEscape(c) /\ c # SEPARATOR
    /\ \A c \in CodedChars : c \notin safe => c \in Escapable

\* Both sets of characters that are not escaped.
LEMMA UnreservedIsSafe == IsSafe(is_unreserved) /\ IsSafe(is_path_unreserved)
<1>1. IsSafe(is_unreserved)
  BY Zenon DEF IsSafe, is_unreserved, Written, CodedChars, IsEscape, SEPARATOR, Escapable
<1>2. is_path_unreserved = CodedChars \ Escapable
  BY CodeValues, Zenon DEF is_path_unreserved, Escapable
<1>3. IsSafe(is_path_unreserved)
  BY <1>2, Zenon DEF IsSafe, Written, IsEscape, Escapable
<1> QED
  BY <1>1, <1>3, Zenon

\* A piece holds no separator, and is decoded to its character.
LEMMA PieceUndone ==
    ASSUME NEW safe, IsSafe(safe), NEW c \in CodedChars, NEW refused, c \in safe \/ c \notin refused
    PROVE  /\ Piece(safe, c) \in PathNames(Written) /\ Piece(safe, c) \in Seq(Written)
           /\ ReadsBack(Piece(safe, c), c, refused, Written)
<1>1. CASE c \in safe
  <2>1. c \in Written /\ ~IsEscape(c) /\ c \in Written \ {SEPARATOR}
    BY <1>1, Zenon DEF IsSafe
  <2>2. Piece(safe, c) = <<c>>
    BY <1>1, Zenon DEF Piece
  <2>3. <<c>> \in Seq(Written) /\ <<c>> \in Seq(Written \ {SEPARATOR})
    BY <2>1
  <2>4. \A s \in Seq(Written) : DecodeBut(<<c>> \o s, refused) = <<c>> \o DecodeBut(s, refused)
    BY <2>1, DecodePlain
  <2>5. ReadsBack(Piece(safe, c), c, refused, Written)
    BY <2>2, <2>4, Zenon DEF ReadsBack
  <2> QED
    BY <2>2, <2>3, <2>5, Zenon DEF PathNames
<1>2. CASE c \notin safe
  <2>1. PICK e, x, y \in Written :
              /\ IsEscape(e) /\ e # SEPARATOR /\ x # SEPARATOR /\ y # SEPARATOR
              /\ Escaped(c) = <<e, x, y>> /\ AreCodeOf(x, y, c)
    BY <1>2, EscapeOf, Zenon DEF IsSafe
  <2>2. Piece(safe, c) = <<e, x, y>>
    BY <1>2, <2>1, Zenon DEF Piece
  <2>3. <<e, x, y>> \in Seq(Written) /\ <<e, x, y>> \in Seq(Written \ {SEPARATOR})
    <3>1. e \in Written \ {SEPARATOR} /\ x \in Written \ {SEPARATOR} /\ y \in Written \ {SEPARATOR}
      BY <2>1, Zenon
    <3> QED
      BY <3>1
  <2>4. c \notin refused
    BY <1>2, Zenon
  <2>5. ASSUME NEW s \in Seq(Written)
        PROVE  DecodeBut(<<e, x, y>> \o s, refused) = <<c>> \o DecodeBut(s, refused)
    <3> DEFINE u == <<e, x, y>>
    <3>1. u \in Seq(Written) /\ Len(u) = 3 /\ u[1] = e /\ u[2] = x /\ u[3] = y
      BY <2>3
    <3> HIDE DEF u
    <3>2. IsEscape(u[1]) /\ AreCodeOf(u[2], u[3], c)
      BY <2>1, <3>1, Zenon
    <3>3. DecodeBut(u \o s, refused) = <<c>> \o DecodeBut(s, refused)
      BY <2>4, <3>1, <3>2, DecodeEscape
    <3> QED
      BY <3>3, Zenon DEF u
  <2>6. ReadsBack(Piece(safe, c), c, refused, Written)
    BY <2>2, <2>5, Zenon DEF ReadsBack
  <2> QED
    BY <2>2, <2>3, <2>6, Zenon DEF PathNames
<1> QED
  BY <1>1, <1>2, Zenon

-----------------------------------------------------------------------------
(***************************************************************************)
(* What is encoded can be decoded.                                         *)
(***************************************************************************)
\* The pieces of a text that is encoded.
PiecesOf(safe) == [c \in CodedChars |-> Piece(safe, c)]

\* The pieces are texts without a separator.
LEMMA PiecesType ==
    ASSUME NEW safe, IsSafe(safe)
    PROVE  /\ PiecesOf(safe) \in [CodedChars -> PathNames(Written)]
           /\ PiecesOf(safe) \in [CodedChars -> Seq(Written)]
           /\ \A c \in CodedChars : PiecesOf(safe)[c] = Piece(safe, c)
<1>1. \A c \in CodedChars : Piece(safe, c) \in PathNames(Written) /\ Piece(safe, c) \in Seq(Written)
  <2> SUFFICES ASSUME NEW c \in CodedChars
               PROVE  Piece(safe, c) \in PathNames(Written) /\ Piece(safe, c) \in Seq(Written)
    BY Zenon
  <2>1. c \in safe \/ c \notin {}
    BY Zenon
  <2> QED
    BY <2>1, PieceUndone, Zenon
<1> QED
  BY <1>1, Zenon DEF PiecesOf

\* A text is encoded piece by piece.
LEMMA EncodeIs ==
    ASSUME NEW safe, NEW t \in Seq(CodedChars)
    PROVE  encode(t, safe) = CodedBy(PiecesOf(safe), t)
<1> DEFINE n == Len(t)
           p == PiecesOf(safe)
<1>1. DOMAIN t = 1 .. n /\ \A i \in 1 .. n : t[i] \in CodedChars
  BY LenProperties, ElementOfSeq, Zenon
<1>2. \A i \in DOMAIN t : p[t[i]] = IF t[i] \in safe THEN <<t[i]>> ELSE Escaped(t[i])
  BY <1>1, Zenon DEF PiecesOf, Piece
<1>3. [i \in DOMAIN t |-> p[t[i]]] = [i \in DOMAIN t |-> IF t[i] \in safe THEN <<t[i]>> ELSE Escaped(t[i])]
  BY <1>2, Zenon
<1> QED
  BY <1>3, Zenon DEF encode, CodedBy

\* Nothing is written in no pieces.
LEMMA CodedNil ==
    ASSUME NEW p
    PROVE  CodedBy(p, <<>>) = <<>>
<1>1. [i \in DOMAIN <<>> |-> p[<<>>[i]]] = <<>>
  OBVIOUS
<1> QED
  BY <1>1, FlattenSeqNil, Zenon DEF CodedBy

\* What is encoded holds no separator, and can be decoded.
LEMMA EncodeUndone ==
    ASSUME NEW safe, IsSafe(safe), NEW refused, \A c \in CodedChars : c \in safe \/ c \notin refused,
           NEW t \in Seq(CodedChars)
    PROVE  /\ encode(t, safe) \in PathNames(Written) /\ encode(t, safe) \in Seq(Written)
           /\ DecodeBut(encode(t, safe), refused) = t
<1> DEFINE p == PiecesOf(safe)
<1>1. /\ p \in [CodedChars -> PathNames(Written)] /\ p \in [CodedChars -> Seq(Written)]
      /\ \A c \in CodedChars : p[c] = Piece(safe, c)
  BY PiecesType, Zenon
<1>2. encode(t, safe) = CodedBy(p, t)
  BY EncodeIs, Zenon
<1>3. \A c \in CodedChars : ReadsBack(p[c], c, refused, Written)
  <2> SUFFICES ASSUME NEW c \in CodedChars PROVE ReadsBack(p[c], c, refused, Written)
    BY Zenon
  <2>1. c \in safe \/ c \notin refused
    BY Zenon
  <2>2. ReadsBack(Piece(safe, c), c, refused, Written)
    BY <2>1, PieceUndone, Zenon
  <2>3. p[c] = Piece(safe, c)
    BY <1>1, Zenon
  <2> HIDE DEF p
  <2> QED
    BY <2>2, <2>3, Zenon
<1> HIDE DEF p
<1>4. CodedBy(p, t) \in Seq(Written) /\ DecodeBut(CodedBy(p, t), refused) = t
  <2>1. AreTexts(p, CodedChars, Written)
    BY <1>1, Zenon DEF AreTexts
  <2>2. AllReadBack(p, CodedChars, refused, Written)
    BY <1>3, Zenon DEF AllReadBack
  <2>3. CodedBy(p, t) \in Seq(Written) /\ IsUndone(p, t, refused)
    BY <2>1, <2>2, PiecesDecoded, Zenon
  <2> QED
    BY <2>3, Zenon DEF IsUndone
<1>5. CodedBy(p, t) \in PathNames(Written)
  <2>1. "a" \in CodedChars
    BY Zenon DEF CodedChars
  <2>2. AreTexts(p, CodedChars, Written \ {SEPARATOR})
    BY <1>1, Zenon DEF PathNames, AreTexts
  <2>3. CodedBy(p, t) \in Seq(Written \ {SEPARATOR})
    BY <2>1, <2>2, CodedAppend, Zenon
  <2> QED
    BY <2>3, Zenon DEF PathNames
<1> QED
  BY <1>2, <1>4, <1>5, Zenon

\* One character that is encoded is its piece.
LEMMA EncodeOne ==
    ASSUME NEW safe, IsSafe(safe), NEW c \in CodedChars
    PROVE  encode(<<c>>, safe) = Piece(safe, c)
<1> DEFINE p == PiecesOf(safe)
<1>1. /\ p \in [CodedChars -> Seq(Written)]
      /\ p[c] = Piece(safe, c)
  BY PiecesType, Zenon
<1>2. <<>> \in Seq(CodedChars) /\ <<c>> \in Seq(CodedChars) /\ Append(<<>>, c) = <<c>>
  OBVIOUS
<1>3. encode(<<c>>, safe) = CodedBy(p, <<c>>)
  BY <1>2, EncodeIs, Zenon
<1> HIDE DEF p
<1>4. CodedBy(p, Append(<<>>, c)) = CodedBy(p, <<>>) \o p[c]
  <2>1. AreTexts(p, CodedChars, Written)
    BY <1>1, Zenon DEF AreTexts
  <2>2. PieceAdded(p, <<>>, c)
    BY <1>2, <2>1, CodedAppend, Zenon
  <2> QED
    BY <2>2, Zenon DEF PieceAdded
<1>5. p[c] \in Seq(Written)
  BY <1>1
<1>6. <<>> \o p[c] = p[c]
  BY <1>5, ConcatEmptySeq
<1> QED
  BY <1>1, <1>2, <1>3, <1>4, <1>6, CodedNil, Zenon

\* A path of the platform comes back.
LEMMA PathUndone ==
    ASSUME NEW t \in Seq(CodedChars)
    PROVE  decode_path(encode_path(t, SEPARATOR, FALSE), SEPARATOR) = t
<1> DEFINE safe == is_path_unreserved
           C == CodedChars
           R == {SEPARATOR}
           p == [c \in C |-> IF c = SEPARATOR THEN <<SEPARATOR>> ELSE encode(<<c>>, safe)]
<1>1. IsSafe(safe)
  BY UnreservedIsSafe, Zenon
<1> HIDE DEF safe
<1>2. SEPARATOR \in Written /\ ~IsEscape(SEPARATOR)
  BY Zenon DEF SEPARATOR, Written, CodedChars, IsEscape
<1>3. ASSUME NEW c \in C
      PROVE  /\ p[c] \in Seq(Written)
             /\ ReadsBack(p[c], c, R, Written)
  <2>1. CASE c = SEPARATOR
    <3>1. p[c] = <<SEPARATOR>>
      BY <2>1, Zenon
    <3>2. <<SEPARATOR>> \in Seq(Written)
      BY <1>2
    <3> HIDE DEF R, p
    <3>3. \A s \in Seq(Written) : DecodeBut(<<SEPARATOR>> \o s, R) = <<SEPARATOR>> \o DecodeBut(s, R)
      BY <1>2, DecodePlain
    <3> QED
      BY <2>1, <3>1, <3>2, <3>3, Zenon DEF ReadsBack
  <2>2. CASE c # SEPARATOR
    <3>1. p[c] = Piece(safe, c)
      BY <1>1, <2>2, EncodeOne, Zenon
    <3>2. c \in CodedChars /\ (c \in safe \/ c \notin R)
      BY <2>2, Zenon
    <3> HIDE DEF R, p, C
    <3>3. /\ Piece(safe, c) \in Seq(Written)
          /\ ReadsBack(Piece(safe, c), c, R, Written)
      BY <1>1, <3>2, PieceUndone, Zenon
    <3> QED
      BY <3>1, <3>3, Zenon
  <2> QED
    BY <2>1, <2>2, Zenon
<1>4. p \in [C -> Seq(Written)]
  <2>1. \A c \in C : (IF c = SEPARATOR THEN <<SEPARATOR>> ELSE encode(<<c>>, safe)) \in Seq(Written)
    BY <1>3, Zenon
  <2> HIDE DEF C
  <2> QED
    BY <2>1, Zenon
<1>5. encode_path(t, SEPARATOR, FALSE) = CodedBy(p, t)
  <2>1. DOMAIN t = 1 .. Len(t) /\ \A i \in 1 .. Len(t) : t[i] \in C
    BY LenProperties, ElementOfSeq, Zenon
  <2>2. \A i \in DOMAIN t :
           p[t[i]] = IF t[i] = SEPARATOR THEN <<SEPARATOR>> ELSE encode(<<t[i]>>, safe)
    BY <2>1, Zenon
  <2>3. [i \in DOMAIN t |-> p[t[i]]]
           = [i \in DOMAIN t |-> IF t[i] = SEPARATOR THEN <<SEPARATOR>> ELSE encode(<<t[i]>>, safe)]
    BY <2>2, Zenon
  <2> HIDE DEF p
  <2> QED
    BY <2>3, Zenon DEF encode_path, CodedBy, safe
<1> HIDE DEF p, R, C
<1>6. DecodeBut(CodedBy(p, t), R) = t
  <2>1. AllReadBack(p, C, R, Written)
    BY <1>3, Zenon DEF AllReadBack
  <2>2. t \in Seq(C)
    BY Zenon DEF C
  <2>3. AreTexts(p, C, Written)
    BY <1>4, Zenon DEF AreTexts
  <2>4. IsUndone(p, t, R)
    BY <2>1, <2>2, <2>3, PiecesDecoded, Zenon
  <2> QED
    BY <2>4, Zenon DEF IsUndone
<1> QED
  BY <1>5, <1>6, Zenon DEF decode_path, R

\* A path with one more name is a path.
LEMMA NamedType ==
    ASSUME NEW path \in Seq(Written), NEW names \in Seq(Seq(CodedChars)), NEW i \in 1 .. Len(names)
    PROVE  Named(path, names, i) \in Seq(Written)
<1> DEFINE between == IF i = 1 THEN <<>> ELSE <<SEPARATOR>>
           name == encode(names[i], is_path_unreserved)
<1>1. names[i] \in Seq(CodedChars)
  BY ElementOfSeq
<1>2. name \in Seq(Written)
  <2>1. \A c \in CodedChars : c \in is_path_unreserved \/ c \notin {}
    BY Zenon
  <2> QED
    BY <1>1, <2>1, UnreservedIsSafe, EncodeUndone, Zenon
<1>3. between \in Seq(Written)
  <2>1. SEPARATOR \in Written
    BY Zenon DEF SEPARATOR, Written, CodedChars
  <2>2. <<>> \in Seq(Written) /\ <<SEPARATOR>> \in Seq(Written)
    BY <2>1
  <2> QED
    BY <2>2, Zenon
<1>4. Named(path, names, i) = (path \o between) \o name
  BY Zenon DEF Named
<1> HIDE DEF between, name
<1>5. (path \o between) \o name \in Seq(Written)
  BY <1>2, <1>3, ConcatProperties
<1> QED
  BY <1>4, <1>5, Zenon

\* What FromNames folds with.
IsNamedFold(f, names) ==
    LET places == [i \in DOMAIN names |-> i] IN
    f = [t \in SUBSET DOMAIN places |->
           IF t = {} THEN <<>> ELSE Named(f[t \ {Max(t)}], names, places[Max(t)])]

\* The path is the last of those that the names make.
LEMMA NamedFold ==
    ASSUME NEW names \in Seq(Seq(CodedChars))
    PROVE  \E f \in [0 .. Len(names) -> Seq(Written)] :
              /\ f[0] = <<>> /\ f[Len(names)] = FromNames(names)
              /\ \A k \in 0 .. Len(names) - 1 : f[k + 1] = Named(f[k], names, k + 1)
<1> DEFINE N == Len(names)
           V == Seq(Written)
           h == [i \in 1 .. N |-> [v \in V |-> Named(v, names, i)]]
           g == CHOOSE f : IsNamedFold(f, names)
<1>1. N \in Nat /\ DOMAIN names = 1 .. N /\ \A i \in 1 .. N : names[i] \in Seq(CodedChars)
  BY LenProperties, ElementOfSeq
<1>2. <<>> \in V
  BY EmptySeq
<1>3. h \in [1 .. N -> [V -> V]]
  <2>1. \A i \in 1 .. N : \A v \in V : Named(v, names, i) \in V
    BY <1>1, NamedType, Zenon
  <2> HIDE DEF N, V
  <2> QED
    BY <2>1
<1>4. FromNames(names) = g[DOMAIN names]
  <2>1. DOMAIN [i \in DOMAIN names |-> i] = DOMAIN names
    OBVIOUS
  <2>2. FromNames(names) = g[DOMAIN [i \in DOMAIN names |-> i]]
    BY Zenon DEF FromNames, FoldLeft, MapThenFoldSet, IsNamedFold
  <2> QED
    BY <2>1, <2>2, Zenon
<1> HIDE DEF N, V
<1>5. IsNamedFold(g, names)
  <2>1. PICK f \in [SUBSET (1 .. N) -> V] : IsFold(f, <<>>, h, N)
    BY <1>1, <1>2, <1>3, FoldExists, Zenon
  <2>2. f = [t \in SUBSET (1 .. N) |-> IF t = {} THEN <<>> ELSE h[Max(t)][f[t \ {Max(t)}]]]
    BY <2>1, Zenon DEF IsFold
  <2>3. ASSUME NEW t \in SUBSET (1 .. N), t # {}
        PROVE  h[Max(t)][f[t \ {Max(t)}]] = Named(f[t \ {Max(t)}], names, Max(t))
    <3>1. Max(t) \in 1 .. N
      BY <1>1, <2>3, GreatestIn
    <3>2. f[t \ {Max(t)}] \in V
      BY <2>1
    <3> QED
      BY <3>1, <3>2, Zenon
  <2>4. f = [t \in SUBSET (1 .. N) |-> IF t = {} THEN <<>> ELSE Named(f[t \ {Max(t)}], names, Max(t))]
    <3> HIDE DEF h
    <3>1. \A t \in SUBSET (1 .. N) :
             (IF t = {} THEN <<>> ELSE h[Max(t)][f[t \ {Max(t)}]])
                = IF t = {} THEN <<>> ELSE Named(f[t \ {Max(t)}], names, Max(t))
      BY <2>3, Zenon
    <3> QED
      BY <2>2, <3>1, Zenon
  <2> DEFINE places == [i \in DOMAIN names |-> i]
  <2>5. DOMAIN places = 1 .. N /\ \A i \in 1 .. N : places[i] = i
    BY <1>1
  <2> HIDE DEF places
  <2>6. ASSUME NEW t \in SUBSET (1 .. N)
        PROVE  (IF t = {} THEN <<>> ELSE Named(f[t \ {Max(t)}], names, Max(t)))
                  = IF t = {} THEN <<>> ELSE Named(f[t \ {Max(t)}], names, places[Max(t)])
    <3>1. t # {} => places[Max(t)] = Max(t)
      BY <1>1, <2>5, GreatestIn
    <3> QED
      BY <3>1, Zenon
  <2>7. f = [t \in SUBSET DOMAIN places |->
               IF t = {} THEN <<>> ELSE Named(f[t \ {Max(t)}], names, places[Max(t)])]
    <3>1. f = [t \in SUBSET (1 .. N) |->
               IF t = {} THEN <<>> ELSE Named(f[t \ {Max(t)}], names, places[Max(t)])]
      BY <2>4, <2>6, Zenon
    <3> QED
      BY <2>5, <3>1, Zenon
  <2>8. IsNamedFold(f, names)
    BY <2>7, Zenon DEF IsNamedFold, places
  <2> QED
    BY <2>8, Zenon
<1> HIDE DEF g
<1>6. \A t \in SUBSET (1 .. N) :
         g[t] = IF t = {} THEN <<>> ELSE Named(g[t \ {Max(t)}], names, Max(t))
  <2> DEFINE places == [i \in DOMAIN names |-> i]
  <2>1. DOMAIN places = 1 .. N /\ \A i \in 1 .. N : places[i] = i
    BY <1>1
  <2>2. g = [t \in SUBSET DOMAIN places |->
               IF t = {} THEN <<>> ELSE Named(g[t \ {Max(t)}], names, places[Max(t)])]
    BY <1>5, Zenon DEF IsNamedFold
  <2> HIDE DEF places
  <2>3. \A t \in SUBSET (1 .. N) :
          g[t] = IF t = {} THEN <<>> ELSE Named(g[t \ {Max(t)}], names, places[Max(t)])
    BY <2>1, <2>2, Zenon
  <2>4. \A t \in SUBSET (1 .. N) : t # {} => places[Max(t)] = Max(t)
    BY <1>1, <2>1, GreatestIn
  <2> QED
    BY <2>3, <2>4, Zenon
<1>7. g[{}] = <<>>
  <2>1. {} \in SUBSET (1 .. N)
    OBVIOUS
  <2> QED
    BY <1>6, <2>1, Zenon
<1>8. ASSUME NEW t \in SUBSET (1 .. N), t # {}, g[t \ {Max(t)}] \in V
      PROVE  g[t] = h[Max(t)][g[t \ {Max(t)}]]
  <2>1. Max(t) \in 1 .. N
    BY <1>1, <1>8, GreatestIn
  <2>2. h[Max(t)][g[t \ {Max(t)}]] = Named(g[t \ {Max(t)}], names, Max(t))
    BY <1>8, <2>1, Zenon
  <2>3. g[t] = Named(g[t \ {Max(t)}], names, Max(t))
    BY <1>6, <1>8, Zenon
  <2> QED
    BY <2>2, <2>3, Zenon
<1>9. PICK f \in [0 .. N -> V] : FoldSteps(f, <<>>, h, N) /\ f[N] = g[1 .. N]
  <2>1. FoldsTo(g, <<>>, h, N, V)
    BY <1>7, <1>8, Zenon DEF FoldsTo
  <2> HIDE DEF h
  <2>2. HasSteps(g, <<>>, h, N, V)
    BY <1>1, <1>2, <1>3, <2>1, FoldValues, Zenon
  <2> QED
    BY <2>2, Zenon DEF HasSteps
<1>10. ASSUME NEW k \in 0 .. N - 1 PROVE f[k + 1] = Named(f[k], names, k + 1)
  <2>1. k \in 0 .. N /\ k + 1 \in 1 .. N
    BY <1>1
  <2>2. f[k] \in V
    BY <2>1
  <2>3. h[k + 1][f[k]] = Named(f[k], names, k + 1)
    BY <2>1, <2>2, Zenon
  <2> QED
    BY <1>9, <2>3, Zenon DEF FoldSteps
<1>11. f[N] = FromNames(names)
  BY <1>1, <1>4, <1>9, Zenon
<1> QED
  BY <1>9, <1>10, <1>11, Zenon DEF N, V, FoldSteps

\* A path of two names has the components that they are encoded to.
LEMMA TwoNames ==
    ASSUME NEW a \in Seq(CodedChars), NEW b \in Seq(CodedChars)
    PROVE  LET safe == is_path_unreserved IN
           Components(FromNames(<<a, b>>)) = <<encode(a, safe), encode(b, safe)>>
<1> DEFINE safe == is_path_unreserved
           x == encode(a, safe)
           y == encode(b, safe)
           names == <<a, b>>
<1>1. /\ x \in PathNames(Written) /\ x \in Seq(Written) /\ y \in PathNames(Written) /\ y \in Seq(Written)
  <2>1. \A c \in CodedChars : c \in is_path_unreserved \/ c \notin {}
    BY Zenon
  <2> QED
    BY <2>1, UnreservedIsSafe, EncodeUndone, Zenon
<1>2. /\ names \in Seq(Seq(CodedChars)) /\ Len(names) = 2 /\ names[1] = a /\ names[2] = b
  OBVIOUS
<1> HIDE DEF safe, names
<1>3. PICK f \in [0 .. Len(names) -> Seq(Written)] :
         /\ f[0] = <<>> /\ f[Len(names)] = FromNames(names)
         /\ \A k \in 0 .. Len(names) - 1 : f[k + 1] = Named(f[k], names, k + 1)
  BY <1>2, NamedFold
<1>4. 0 \in 0 .. Len(names) - 1 /\ 1 \in 0 .. Len(names) - 1 /\ 0 + 1 = 1 /\ 1 + 1 = 2 /\ 2 # 1
  BY <1>2
<1>5. f[1] = Named(<<>>, names, 1) /\ f[2] = Named(f[1], names, 2) /\ f[2] = FromNames(names)
  BY <1>2, <1>3, <1>4, Zenon
<1>6. Named(<<>>, names, 1) = (<<>> \o <<>>) \o x
  BY <1>2, Zenon DEF Named, x, safe
<1> HIDE DEF x, y
<1>7. f[1] = x
  <2>1. (<<>> \o <<>>) \o x = x
    BY <1>1
  <2> QED
    BY <1>5, <1>6, <2>1, Zenon
<1>8. Named(x, names, 2) = (x \o <<SEPARATOR>>) \o y
  BY <1>2, <1>4, Zenon DEF Named, y, safe
<1>9. FromNames(names) = (x \o <<SEPARATOR>>) \o y
  BY <1>5, <1>7, <1>8, Zenon
<1>10. SEPARATOR \in Written
  BY Zenon DEF SEPARATOR, Written, CodedChars
<1>11. Components((x \o <<SEPARATOR>>) \o y) = Components(x) \o Components(y)
  BY <1>1, <1>10, ComponentsCut
<1>12. Components(x) = <<x>> /\ Components(y) = <<y>>
  BY <1>1, ComponentsOfName
<1>13. <<x>> \o <<y>> = <<x, y>>
  OBVIOUS
<1>14. Components(FromNames(names)) = <<x, y>>
  BY <1>9, <1>11, <1>12, <1>13, Zenon
<1> QED
  BY <1>14, Zenon DEF x, y, safe, names

\* Two names come back from the path that they make.
LEMMA NamesUndone ==
    ASSUME NEW a \in Seq(CodedChars), NEW b \in Seq(CodedChars)
    PROVE  to_vector(FromNames(<<a, b>>)) = <<a, b>>
<1> DEFINE x == encode(a, is_path_unreserved)
           y == encode(b, is_path_unreserved)
           found == Components(FromNames(<<a, b>>))
<1>1. DecodeBut(x, {}) = a /\ DecodeBut(y, {}) = b
  <2>1. \A c \in CodedChars : c \in is_path_unreserved \/ c \notin {}
    BY Zenon
  <2> QED
    BY <2>1, UnreservedIsSafe, EncodeUndone, Zenon
<1>2. decode(x) = a /\ decode(y) = b
  BY <1>1, Zenon DEF decode
<1>3. found = <<x, y>>
  BY TwoNames, Zenon
<1>4. to_vector(FromNames(<<a, b>>)) = [i \in DOMAIN found |-> decode(found[i])]
  BY Zenon DEF to_vector
<1> HIDE DEF found, x, y
<1>5. DOMAIN found = {1, 2} /\ found[1] = x /\ found[2] = y
  BY <1>3
<1> DEFINE vector == [i \in DOMAIN found |-> decode(found[i])]
<1>6. DOMAIN vector = {1, 2} /\ vector[1] = a /\ vector[2] = b
  BY <1>2, <1>5
<1>7. vector = [i \in {1, 2} |-> vector[i]]
  BY <1>5, Zenon
<1> HIDE DEF vector
<1>8. vector = <<a, b>>
  BY <1>6, <1>7
<1> QED
  BY <1>4, <1>8, Zenon DEF vector

\* What is encoded can be decoded.
LEMMA EncodingAlways ==
    ASSUME up_text \in Seq(CodedChars)
    PROVE  EncodingIsUndone
<1>1. decode(encode(up_text, is_unreserved)) = up_text
  <2>1. \A c \in CodedChars : c \in is_unreserved \/ c \notin {}
    BY Zenon
  <2>2. DecodeBut(encode(up_text, is_unreserved), {}) = up_text
    BY <2>1, UnreservedIsSafe, EncodeUndone, Zenon
  <2> QED
    BY <2>2, Zenon DEF decode
<1>2. decode_path(encode_path(up_text, SEPARATOR, FALSE), SEPARATOR) = up_text
  BY PathUndone, Zenon
<1>3. ASSUME NEW i \in 0 .. Len(up_text)
      PROVE  LET names == <<SubSeq(up_text, 1, i), SubSeq(up_text, i + 1, Len(up_text))>>
             IN  to_vector(FromNames(names)) = names
  <2> DEFINE n == Len(up_text)
             a == SubSeq(up_text, 1, i)
             b == SubSeq(up_text, i + 1, n)
  <2>1. n \in Nat /\ i \in 0 .. n
    BY LenProperties
  <2>2. \A j \in 1 .. n : up_text[j] \in CodedChars
    BY ElementOfSeq
  <2> HIDE DEF n
  <2>3. /\ 1 \in Int /\ i \in Int /\ i + 1 \in Int /\ n \in Int
        /\ \A j \in 1 .. i : up_text[j] \in CodedChars
        /\ \A j \in i + 1 .. n : up_text[j] \in CodedChars
    BY <2>1, <2>2
  <2>4. a \in Seq(CodedChars) /\ b \in Seq(CodedChars)
    BY <2>3, SubSeqProperties
  <2> HIDE DEF a, b
  <2>5. to_vector(FromNames(<<a, b>>)) = <<a, b>>
    BY <2>4, NamesUndone, Zenon
  <2> QED
    BY <2>5, Zenon DEF a, b, n
<1> QED
  BY <1>1, <1>2, <1>3, Zenon DEF EncodingIsUndone

-----------------------------------------------------------------------------
(***************************************************************************)
(* What is typed, and what is answered to it.                              *)
(***************************************************************************)
\* What is typed is of the characters of its kind.
PathInv ==
    /\ up_kind \in {"path", "text"}
    /\ up_kind = "path" => up_text \in Seq(PathChars)
    /\ up_kind = "text" => up_text \in Seq(EscapeChars)

\* Nothing is typed.
LEMMA InitPathInv == PathInit => PathInv
  BY DEF PathInit, PathInv

\* A character of the kind is typed.
LEMMA StepPathInv == PathInv /\ [TypeCharacter]_pathVars => PathInv'
<1> SUFFICES ASSUME PathInv, [TypeCharacter]_pathVars PROVE PathInv'
  OBVIOUS
<1>1. CASE TypeCharacter
  <2>1. PICK c \in IF up_kind = "path" THEN PathChars ELSE EscapeChars :
           up_text' = Append(up_text, c) /\ up_kind' = up_kind
    BY <1>1 DEF TypeCharacter
  <2>2. CASE up_kind = "path"
    BY <2>1, <2>2 DEF PathInv
  <2>3. CASE up_kind = "text"
    BY <2>1, <2>3 DEF PathInv
  <2> QED
    BY <2>2, <2>3 DEF PathInv
<1>2. CASE UNCHANGED pathVars
  BY <1>2 DEF pathVars, PathInv
<1> QED
  BY <1>1, <1>2

\* What is typed has an answer: as a path, of whatever characters, and as a text to
\* encode, of those with a code.
LEMMA PathsAnswer == PathInv => PathAnswers
<1> SUFFICES ASSUME PathInv PROVE PathAnswers
  OBVIOUS
<1>1. CASE up_kind = "path"
  <2>1. up_text \in Seq(PathChars)
    BY <1>1, Zenon DEF PathInv
  <2> QED
    BY <1>1, <2>1, SimplifyAlways, JoinAlways, NamesAlways, Zenon DEF PathAnswers
<1>2. CASE up_kind # "path"
  <2>1. up_text \in Seq(EscapeChars)
    BY <1>2, Zenon DEF PathInv
  <2>2. EscapeChars \cup CodedChars = CodedChars
    BY PathAssumption, Zenon
  <2>3. up_text \in Seq(CodedChars)
    BY <2>1, <2>2, SeqInUnion, Zenon
  <2> QED
    BY <1>2, <2>3, EncodingAlways, Zenon DEF PathAnswers
<1> QED
  BY <1>1, <1>2, Zenon

\* Any path is simplified to one that leads to the same place, when its empty
\* components are names, and in either reading when it has none; wherever it is
\* joined and whatever its names.  And any text of characters with a code, encoded
\* as a text, a path or the names of a path, is decoded to itself.
THEOREM PathsLeadThere == PathSpec => []PathAnswers
<1> QED
  BY PathsAnswer, InitPathInv, StepPathInv, PTL DEF PathSpec

=============================================================================
