------------------------ MODULE AssignmentStatements ------------------------
(***************************************************************************)
(* An assignment statement of the generated code: a nested expression is   *)
(* evaluated (Expressions), and its value is what is written through the   *)
(* target (Targets).  The operands are temporaries and dropped by then.    *)
(***************************************************************************)
EXTENDS Targets, Expressions

statementVars == <<targetVars, expressionVars>>

Compute == phase = "evaluate" /\ ExpressionNext /\ UNCHANGED targetVars

\* The operator tree ends here: its value is assigned.
Yield ==
  /\ node # NoNode /\ simulated # Panic
  /\ written' = simulated /\ Evaluate
  /\ node' = NoNode /\ simulated' = Panic /\ converted' = NoTerm
  /\ lhs' = Literal(Zero(1)) /\ rhs' = lhs'

Place ==
  /\ phase = "parse"
  /\ Assign \/ RefuseStep \/ \E step \in TargetSteps : Step(step)
  /\ UNCHANGED expressionVars

StatementInit == TargetInit /\ variable = (CHOOSE v \in Variables : TRUE) /\ ExpressionInit
StatementNext == Compute \/ Yield \/ Place
StatementSpec == StatementInit /\ [][StatementNext]_statementVars

=============================================================================
