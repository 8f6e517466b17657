--------------------------- MODULE MCSchemaUpgrade ---------------------------
(* SchemaUpgrade on databases of five ages, one of them of this version.    *)
EXTENDS SchemaUpgrade

OneFinding == {1}

Database(number, run, observation) ==
    [version |-> number, tables |-> [runs |-> run, observations |-> observation]]

\* Before observations; before the parts of a review; before run-owned
\* observations; before numbers belonged to posted reviews; and today.
FiveAges ==
    {Database(2, "done", "current"), Database(7, "plain", "subject"),
     Database(11, "current", "subject"), Database(12, "current", "current"),
     Database(15, "current", "current")}
=============================================================================
