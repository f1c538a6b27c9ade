----------------------------- MODULE MCQueryIndex -----------------------------
(***************************************************************************)
(* One client on one indexed column: the query of the executor's own test, *)
(* "SELECT * FROM user WHERE age > 28" (executor.rs, test_execute_select), *)
(* with the index that CREATE INDEX makes and refresh_indexes tells the    *)
(* planner of.                                                             *)
(***************************************************************************)
EXTENDS QueryEngine

IntVal(n) == [kind |-> "i", v |-> n]
Stmt(op) == [op |-> op, where |-> [t |-> "all"], cols |-> {}, order |-> <<>>, limit |-> {},
             offset |-> {}, rows |-> <<>>, field |-> 0]

MCStatements ==
    {[Stmt("Select") EXCEPT !.where = [t |-> "cmp", col |-> 1, op |-> op, val |-> IntVal(1)]] :
        op \in {"Eq", "Gt"}}
    \cup {[Stmt("Insert") EXCEPT !.rows = <<1 :> IntVal(n)>>] : n \in {1, 2}}
    \cup {[Stmt("CreateIndex") EXCEPT !.field = 1]}

MCWordOrder == <<"a">>

Spec == QueryInit /\ [][StatementSteps]_queryVars
===============================================================================
