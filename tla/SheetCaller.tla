------------------------------ MODULE SheetCaller ------------------------------
(***************************************************************************)
(* A caller of Sheet other than the console, as sheet_test.cpp is: it sets *)
(* and erases formulas, recalculates when it likes, and goes on when       *)
(* recalculate() has thrown.                                               *)
(***************************************************************************)
EXTENDS InspectSheet

CallSetFormula ==
    /\ sheet_pc = "idle" /\ edits < MaxEdits
    /\ edits' = edits + 1
    /\ \E a \in Addresses, f \in Formulas : SetFormula(a, f)
    /\ recalculated' = FALSE
    /\ UNCHANGED <<m_phase, sheet_pc, next, stack, edit>>

CallErase ==
    /\ sheet_pc = "idle" /\ edits < MaxEdits
    /\ edits' = edits + 1
    /\ \E a \in Addresses : IsSet(a) /\ formula' = [formula EXCEPT ![a] = NoFormula]
    /\ recalculated' = FALSE
    /\ UNCHANGED <<value, phase, processed, m_phase, sheet_pc, next, stack, edit>>

CallRecalculate ==
    /\ sheet_pc = "idle" /\ edits < MaxEdits
    /\ edits' = edits + 1
    /\ BeginPass("first")
    /\ recalculated' = FALSE
    /\ UNCHANGED <<cellVars, edit>>

CallReturns ==
    /\ sheet_pc = "first" /\ stack = <<>> /\ next \notin Addresses
    /\ sheet_pc' = "idle"
    /\ recalculated' = TRUE
    /\ UNCHANGED <<cellVars, m_phase, next, stack, edit, edits>>

CallThrows ==
    /\ Throws \/ (InPass /\ stack # <<>> /\ formula[Top.cell].op = "range")
    /\ sheet_pc' = "idle" /\ stack' = <<>>
    /\ UNCHANGED <<cellVars, m_phase, next, edit, edits, recalculated>>

CallerNext ==
    CallSetFormula \/ CallErase \/ CallRecalculate \/ PassStep \/ CallReturns \/ CallThrows

CallerSpec == SheetInit /\ [][CallerNext]_sheetVars

=============================================================================
