------------------------------- MODULE MCConfig -------------------------------
(* Model-checking instance of Config.  The inputs reach every branch of    *)
(* the three CustomSetValue functions: a level logrus parses and one it    *)
(* does not, a non-string value; "", "." and nil storage paths (os.Getwd   *)
(* succeeding or failing) and a real one; archive strings with one URL,   *)
(* two URLs and a trailing comma, the empty string, a []string with one    *)
(* URL and an empty []string.  The limits straddle the default of 100.     *)
EXTENDS Config

MCLevelInputs ==
    {[type |-> "string", str |-> "debug"], [type |-> "string", str |-> "verbose"],
     [type |-> "int", str |-> ""]}

MCStorageInputs ==
    {[type |-> t, str |-> s] : <<t, s>> \in
        {<<"string", "">>, <<"string", ".">>, <<"string", "/data">>,
         <<"nil", "">>, <<"int", "">>}}

MCArchiveInputs ==
    {[type |-> "string", toks |-> t, strs |-> <<>>] :
        t \in {<<>>, <<"a">>, <<"a", ",", "b">>, <<"a", ",">>}}
    \cup {[type |-> "strings", toks |-> <<>>, strs |-> s] : s \in {<<>>, <<<<"a">>>>}}
    \cup {[type |-> "int", toks |-> <<>>, strs |-> <<>>]}
=============================================================================
